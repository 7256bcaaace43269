-------------------------- MODULE IndexingPipeline --------------------------
(***************************************************************************)
(* The stand-alone indexing package: a run chunks a document by character  *)
(* windows, embeds the chunks, upserts them into the vector store and into *)
(* SQLite, and keeps its own status row.  Chunk ids are <document>:<n>, so *)
(* every run of a document writes over the ids of the run before it.       *)
(*                                                                         *)
(* A text is its length: sections are numbers, a chunk is the window       *)
(* [from, to) of its section, and its id is its document with its place in *)
(* the run.  Each SQLite call commits or not before it may raise.          *)
(***************************************************************************)
EXTENDS Integers, Sequences

CONSTANTS
  Runs,          \* calls of index_document
  Documents,
  NoRun,
  NoDocument,
  Contents,      \* the sections, as normalised, that a document may be given with
  Configs,       \* the chunking configurations a chunker may be built with
  EmbedFaults,   \* whether the embedding provider may raise or miscount
  StoreFaults    \* whether a call to the vector store or to SQLite may raise

ASSUME RunsAssumption == NoRun \notin Runs /\ NoDocument \notin Documents
ASSUME ContentsAssumption == Contents \subseteq Seq(Nat)
ASSUME ConfigsAssumption ==
  Configs \subseteq [max_chars : Int, overlap_chars : Int, min_chunk_chars : Int]
ASSUME IndexingFaultsAssumption == {EmbedFaults, StoreFaults} \subseteq BOOLEAN

VARIABLES
  config,      \* the configuration of the chunker
  status,      \* the status column of each run, or "no_run"
  at,          \* the call each run performs next
  document,    \* the document it indexes
  content,     \* the document's sections
  section,     \* the section its chunker is at
  cursor,      \* and the place in it
  chunks,      \* the chunks it has made
  points,      \* the vector store
  rows,        \* the table indexed_chunks
  last,        \* history: the run of each document that began last
  overlapped,  \* history: the documents two runs were indexing at one moment
  raised       \* history: the runs whose own status row could not be written

run == <<document, content>>
loop == <<section, cursor, chunks>>
stores == <<points, rows>>
history == <<last, overlapped, raised>>
vars == <<config, status, at, run, loop, stores, history>>

Window == [section : Nat, from : Nat, to : Nat]
Record == [document : Documents, ordinal : Nat, run : Runs, chunk : Window]
Active == {"mark_processing", "chunk", "embed", "write_vectors", "persist_chunks",
           "mark_indexed", "mark_failed"}

IndexingTypeOK ==
  /\ config     \in Configs
  /\ status     \in [Runs -> {"no_run", "pending", "processing", "indexed", "failed"}]
  /\ at         \in [Runs -> Active \union {"start", "ended"}]
  /\ document   \in [Runs -> Documents \union {NoDocument}]
  /\ content    \in [Runs -> Contents \union {<<>>}]
  /\ section    \in [Runs -> Nat \ {0}]
  /\ cursor     \in [Runs -> Int]
  /\ chunks     \in [Runs -> Seq(Window)]
  /\ points     \in SUBSET Record
  /\ rows       \in SUBSET Record
  /\ last       \in [Documents -> Runs \union {NoRun}]
  /\ overlapped \in SUBSET Documents
  /\ raised     \in SUBSET Runs
  /\ \A r \in Runs : at[r] \in Active => document[r] \in Documents

\* DocumentChunker refuses to be built with any other: it takes an overlap below zero,
\* and then a window size of zero or less.
\* (Faulty variant first: a comparison that lets equality through.)
UsableOrStuck(c) == c.overlap_chars <= c.max_chars

Usable(c) == c.overlap_chars < c.max_chars

Init ==
  /\ config \in {c \in Configs : Usable(c)}
  /\ status     = [r \in Runs |-> "no_run"]
  /\ at         = [r \in Runs |-> "start"]
  /\ document   = [r \in Runs |-> NoDocument]
  /\ content    = [r \in Runs |-> <<>>]
  /\ section    = [r \in Runs |-> 1]
  /\ cursor     = [r \in Runs |-> 0]
  /\ chunks     = [r \in Runs |-> <<>>]
  /\ points     = {}
  /\ rows       = {}
  /\ last       = [d \in Documents |-> NoRun]
  /\ overlapped = {}
  /\ raised     = {}

-----------------------------------------------------------------------------
Goto(r, call) == at' = [at EXCEPT ![r] = call]

SetStatus(r, s) == status' = [status EXCEPT ![r] = s]

Running(d) == {r \in Runs : at[r] \in Active /\ document[r] = d}

\* create_run inserts the row and reads it back.  The first of the two may raise
\* before it commits, the second after: index_document then raises at once.
CreateRun(r, d, c) ==
  /\ at[r] = "start"
  /\ document' = [document EXCEPT ![r] = d]
  /\ content' = [content EXCEPT ![r] = c]
  /\ SetStatus(r, "pending")
  /\ Goto(r, "mark_processing")
  /\ last' = [last EXCEPT ![d] = r]
  /\ overlapped' = IF Running(d) # {} THEN overlapped \union {d} ELSE overlapped
  /\ UNCHANGED <<config, loop, stores, raised>>

CreateRunRaises(r) ==
  /\ StoreFaults
  /\ at[r] = "start"
  /\ \/ UNCHANGED status
     \/ SetStatus(r, "pending")
  /\ Goto(r, "ended")
  /\ raised' = raised \union {r}
  /\ UNCHANGED <<config, run, loop, stores, last, overlapped>>

MarkProcessing(r) ==
  /\ at[r] = "mark_processing"
  /\ SetStatus(r, "processing")
  /\ Goto(r, "chunk")
  /\ UNCHANGED <<config, run, loop, stores, history>>

\* Outside the try block: nobody marks the run failed.
MarkProcessingRaises(r) ==
  /\ StoreFaults
  /\ at[r] = "mark_processing"
  /\ \/ UNCHANGED status
     \/ SetStatus(r, "processing")
  /\ Goto(r, "ended")
  /\ raised' = raised \union {r}
  /\ UNCHANGED <<config, run, loop, stores, last, overlapped>>

-----------------------------------------------------------------------------
(* DocumentChunker.chunk and _split_text, one window a step. *)

Length(r) == content[r][section[r]]

InSection(r) == at[r] = "chunk" /\ section[r] <= Len(content[r])

NextSection(r) ==
  /\ section' = [section EXCEPT ![r] = @ + 1]
  /\ cursor' = [cursor EXCEPT ![r] = 0]

Yield(r, from, to) ==
  chunks' = [chunks EXCEPT ![r] =
    Append(@, [section |-> section[r], from |-> from, to |-> to])]

\* A section that fits is one chunk, unless it is empty or too short to keep.
ChunkWhole(r) ==
  /\ InSection(r)
  /\ Length(r) <= config.max_chars
  /\ IF Length(r) > 0 /\ Length(r) >= config.min_chunk_chars
       THEN Yield(r, 0, Length(r))
       ELSE UNCHANGED chunks
  /\ NextSection(r)
  /\ UNCHANGED <<config, status, at, run, stores, history>>

\* The place in a text of n characters that an index stands for, as a slice bound: an
\* index below zero counts from the end, and one outside the text is its nearest end.
Place(k, n) ==
  IF k < 0 THEN IF n + k > 0 THEN n + k ELSE 0
           ELSE IF k < n THEN k ELSE n

\* The end of the window at the cursor, and the window: the slice between the two.
End(r) ==
  IF Length(r) <= cursor[r] + config.max_chars
    THEN Length(r)
    ELSE cursor[r] + config.max_chars

From(r) == Place(cursor[r], Length(r))

To(r) ==
  IF Place(End(r), Length(r)) < From(r) THEN From(r) ELSE Place(End(r), Length(r))

TooShort(r) ==
  To(r) - From(r) < config.min_chunk_chars /\ End(r) # Length(r)

\* The loop goes on while the cursor is in the text.
InLoop(r) ==
  InSection(r) /\ Length(r) > config.max_chars /\ cursor[r] < Length(r)

\* (Faulty variants first: the cursor steps over as many characters as it should step
\* back; the loop is not left at the end of the text.)
AdvanceAhead(r) ==
  IF End(r) = Length(r)
    THEN NextSection(r)
    ELSE /\ cursor' = [cursor EXCEPT ![r] = End(r) + config.overlap_chars]
         /\ UNCHANGED section

AdvanceAtEnd(r) ==
  /\ cursor' = [cursor EXCEPT ![r] = End(r) - config.overlap_chars]
  /\ UNCHANGED section

\* After a window: on to the next section, or back by the overlap.
Advance(r) ==
  IF End(r) = Length(r)
    THEN NextSection(r)
    ELSE /\ cursor' = [cursor EXCEPT ![r] = End(r) - config.overlap_chars]
         /\ UNCHANGED section

ChunkWindow(r) ==
  /\ InLoop(r)
  /\ ~ TooShort(r)
  /\ Yield(r, From(r), To(r))
  /\ Advance(r)
  /\ UNCHANGED <<config, status, at, run, stores, history>>

\* A window that is too short and not the last is dropped whole.
ChunkSkip(r) ==
  /\ InLoop(r)
  /\ TooShort(r)
  /\ cursor' = [cursor EXCEPT ![r] = End(r)]
  /\ UNCHANGED <<config, status, at, run, section, chunks, stores, history>>

\* The cursor has stepped over the end: only an overlap below zero takes it there.
ChunkLeave(r) ==
  /\ InSection(r)
  /\ Length(r) > config.max_chars
  /\ cursor[r] >= Length(r)
  /\ NextSection(r)
  /\ UNCHANGED <<config, status, at, run, chunks, stores, history>>

ChunkDone(r) ==
  /\ at[r] = "chunk"
  /\ section[r] > Len(content[r])
  /\ Goto(r, "embed")
  /\ UNCHANGED <<config, status, run, loop, stores, history>>

-----------------------------------------------------------------------------
\* One vector per chunk, or an exception: also when the provider miscounts.
Embed(r) ==
  /\ at[r] = "embed"
  /\ Goto(r, "write_vectors")
  /\ UNCHANGED <<config, status, run, loop, stores, history>>

EmbedRaises(r) ==
  /\ EmbedFaults
  /\ at[r] = "embed"
  /\ Goto(r, "mark_failed")
  /\ UNCHANGED <<config, status, run, loop, stores, history>>

\* What a run writes into either store: a chunk's ordinal starts at 0.
RecordsOf(r) ==
  {[document |-> document[r], ordinal |-> k - 1, run |-> r, chunk |-> chunks[r][k]] :
     k \in 1 .. Len(chunks[r])}

SameId(x, y) == x.document = y.document /\ x.ordinal = y.ordinal

\* Faulty variant: ids already there keep what they hold.
UpsertNew(store, new) ==
  store \union {y \in new : ~ \E x \in store : SameId(x, y)}

\* Both stores replace the records whose ids are written and keep all others.
Upsert(store, new) ==
  {x \in store : ~ \E y \in new : SameId(x, y)} \union new

WriteVectors(r) ==
  /\ at[r] = "write_vectors"
  /\ points' = Upsert(points, RecordsOf(r))
  /\ Goto(r, "persist_chunks")
  /\ UNCHANGED <<config, status, run, loop, rows, history>>

\* The upsert may have been applied before its answer is lost.
WriteVectorsRaises(r) ==
  /\ StoreFaults
  /\ at[r] = "write_vectors"
  /\ chunks[r] # <<>>
  /\ \/ UNCHANGED points
     \/ points' = Upsert(points, RecordsOf(r))
  /\ Goto(r, "mark_failed")
  /\ UNCHANGED <<config, status, run, loop, rows, history>>

\* All of the run's rows in one transaction.
\* (Faulty variant first: an exception is swallowed with nothing written.)
PersistChunksSwallows(r) ==
  /\ at[r] = "persist_chunks"
  /\ \/ rows' = Upsert(rows, RecordsOf(r))
     \/ UNCHANGED rows
  /\ Goto(r, "mark_indexed")
  /\ UNCHANGED <<config, status, run, loop, points, history>>

PersistChunks(r) ==
  /\ at[r] = "persist_chunks"
  /\ rows' = Upsert(rows, RecordsOf(r))
  /\ Goto(r, "mark_indexed")
  /\ UNCHANGED <<config, status, run, loop, points, history>>

PersistChunksRaises(r) ==
  /\ StoreFaults
  /\ at[r] = "persist_chunks"
  /\ Goto(r, "mark_failed")
  /\ UNCHANGED <<config, status, run, loop, stores, history>>

MarkIndexed(r) ==
  /\ at[r] = "mark_indexed"
  /\ SetStatus(r, "indexed")
  /\ Goto(r, "ended")
  /\ UNCHANGED <<config, run, loop, stores, history>>

\* Still inside the try block: the handler runs, even after the commit.
MarkIndexedRaises(r) ==
  /\ StoreFaults
  /\ at[r] = "mark_indexed"
  /\ \/ UNCHANGED status
     \/ SetStatus(r, "indexed")
  /\ Goto(r, "mark_failed")
  /\ UNCHANGED <<config, run, loop, stores, history>>

\* (Faulty variants first: a failed run is put back for another attempt; the failure
\* is only logged.)
MarkFailedRequeues(r) ==
  /\ at[r] = "mark_failed"
  /\ SetStatus(r, "pending")
  /\ Goto(r, "ended")
  /\ UNCHANGED <<config, run, loop, stores, history>>

MarkFailedLogs(r) ==
  /\ at[r] = "mark_failed"
  /\ Goto(r, "ended")
  /\ UNCHANGED <<config, status, run, loop, stores, history>>

MarkFailed(r) ==
  /\ at[r] = "mark_failed"
  /\ SetStatus(r, "failed")
  /\ Goto(r, "ended")
  /\ UNCHANGED <<config, run, loop, stores, history>>

MarkFailedRaises(r) ==
  /\ StoreFaults
  /\ at[r] = "mark_failed"
  /\ \/ UNCHANGED status
     \/ SetStatus(r, "failed")
  /\ Goto(r, "ended")
  /\ raised' = raised \union {r}
  /\ UNCHANGED <<config, run, loop, stores, last, overlapped>>

-----------------------------------------------------------------------------
ChunkStep(r) ==
  ChunkWhole(r) \/ ChunkWindow(r) \/ ChunkSkip(r) \/ ChunkLeave(r) \/ ChunkDone(r)

StoreStep(r) ==
  \/ Embed(r) \/ EmbedRaises(r)
  \/ WriteVectors(r) \/ WriteVectorsRaises(r)
  \/ PersistChunks(r) \/ PersistChunksRaises(r)

StatusStep(r) ==
  \/ MarkProcessing(r) \/ MarkProcessingRaises(r)
  \/ MarkIndexed(r) \/ MarkIndexedRaises(r)
  \/ MarkFailed(r) \/ MarkFailedRaises(r)

Step(r) == ChunkStep(r) \/ StoreStep(r) \/ StatusStep(r)

Next ==
  \E r \in Runs :
    \/ \E d \in Documents, c \in Contents : CreateRun(r, d, c)
    \/ CreateRunRaises(r)
    \/ Step(r)

Spec == Init /\ [][Next]_vars

\* A run that has begun is a call in progress: it takes its next step.
Fairness == \A r \in Runs : WF_vars(Step(r))

FairSpec == Spec /\ Fairness

-----------------------------------------------------------------------------
(* Properties *)

\* Windows do not leave text out between them, and every one is worth keeping: what
\* min_chunk_chars can drop is a short section.
Sensible ==
  config.overlap_chars >= 0 /\ config.min_chunk_chars <= config.max_chars

Covered(r, i, p) ==
  \E k \in 1 .. Len(chunks[r]) :
    LET c == chunks[r][k] IN c.section = i /\ c.from <= p /\ p < c.to

\* No text is lost between windows, unless the overlap is below zero or the minimum above
\* the window: once a run has chunked its document, each character of each section that
\* is long enough is in one of its chunks.
\* (DocumentChunker._split_text)
EverySectionCovered ==
  \A r \in Runs : Sensible =>
    \A i \in 1 .. section[r] - 1 : \A p \in 0 .. content[r][i] - 1 :
      content[r][i] >= config.min_chunk_chars => Covered(r, i, p)

\* Two chunks of one section that follow one another share exactly the configured
\* overlap, and each brings text the one before it has not, under the same condition.
\* (DocumentChunker._split_text)
WindowsOverlap ==
  \A r \in Runs : Sensible =>
    \A k \in 1 .. Len(chunks[r]) - 1 :
      LET c == chunks[r][k]
          d == chunks[r][k + 1]
      IN c.section = d.section =>
           /\ d.from = c.to - config.overlap_chars
           /\ c.from < d.from /\ c.to < d.to

\* The chunker makes progress with every window size above zero, whatever the overlap
\* and the minimum: a step of its loops takes the run to the embeddings after the last
\* section, to the next section, or further in one that it has not left, so the text
\* ahead of it shrinks.  With a window of zero characters, which the chunker accepts
\* beside an overlap below zero, it need not: it may stay at its cursor for ever.
\* (DocumentChunker.chunk, _split_text)
ChunkerAdvances ==
  [][\A r \in Runs : config.max_chars > 0 /\ at[r] = "chunk" =>
       \/ UNCHANGED <<at[r], section[r], cursor[r], chunks[r]>>
       \/ at'[r] = "embed" /\ section[r] = Len(content[r]) + 1
       \/ section'[r] = section[r] + 1 /\ section[r] <= Len(content[r])
       \/ /\ section'[r] = section[r]
          /\ cursor[r] < cursor'[r] /\ cursor[r] < Length(r)]_vars

Holds(store, r) == RecordsOf(r) \subseteq store

\* A run whose row says indexed is complete in both stores, as long as it is the
\* document's last and no two runs of the document overlapped.
\* (IndexingPipeline.index_document: two stores without a common transaction)
IndexedInBoth ==
  \A r \in Runs :
    (/\ status[r] = "indexed"
     /\ last[document[r]] = r
     /\ document[r] \notin overlapped)
    => Holds(points, r) /\ Holds(rows, r)

Of(store, d) == {x \in store : x.document = d}

\* The two stores hold the same chunks of a document, those a shorter run has left
\* behind included, while its runs have followed one another and all succeeded.
\* (IndexingPipeline.index_document)
StoresAgree ==
  \A d \in Documents :
    (/\ d \notin overlapped
     /\ \A r \in Runs : document[r] = d => at[r] = "ended" /\ status[r] = "indexed")
    => Of(points, d) = Of(rows, d)

\* A status only moves on, and "failed" is final: but a run already marked indexed
\* may still be marked failed.  (IndexingPersistence.update_status)
StatusMovesOn ==
  [][\A r \in Runs : status'[r] # status[r] =>
       <<status[r], status'[r]>> \in
         {<<"no_run", "pending">>, <<"pending", "processing">>, <<"processing", "indexed">>,
          <<"processing", "failed">>, <<"indexed", "failed">>}]_vars

\* With a window size above zero, every run that begins ends indexed or failed, unless
\* its status could not be written: the chunker's loop ends.
\* (IndexingPipeline.index_document)
RunsEnd ==
  \A r \in Runs : at[r] \in Active /\ config.max_chars > 0
    ~> at[r] = "ended" /\ (status[r] \in {"indexed", "failed"} \/ r \in raised)
=============================================================================
