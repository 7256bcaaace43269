# A verification development of the private-LLM document system

The repository is a proof of concept of a private document assistant: users upload
files, workers turn them into searchable chunks, and a chat answers questions from what
was retrieved. This directory holds TLA+ modules translated from the source code, TLC
configurations that check them on small instances, and TLAPS proofs of the main safety
properties for every instance. `PROJECT.json` is the machine-readable index: components,
runs, mutants, the source lines behind every definition, findings, hazards, theorems.

All paths below are relative to the repository root (`src/` there).

Contents: [1 inventory](#1-inventory) · [2 plan](#2-plan) · [3 modules and code](#3-modules-and-code) ·
[4 runs](#4-runs) · [5 bounds and abstractions](#5-bounds-and-abstractions) ·
[6 fairness](#6-fairness) · [7 proofs](#7-proofs) · [8 findings](#8-findings) ·
[9 what is not covered](#9-what-is-not-covered) · [10 running it](#10-running-it)

## 1. Inventory

```
   web client (apps/web)
        | HTTP, polling
   API process (services/api)                      worker processes (services/workers)
   +------------------------------------+          +----------------------------------+
   | auth      files     upload_and_ask |  broker  | process_file_ingestion           |
   | chat      admin                    | -------> |  create row, parse, OCR, chunk,  |
   | in-memory: records, pending        | messages |  embed, index / mark failed      |
   | requests, jobs, sessions, messages |          +----------------------------------+
   +------------------------------------+                  |            |
        |  object store (a shared directory) <------- read |            | write
        +-----------------------------------------+        v            v
        |  reads ingestion_documents (status) <------ Postgres: documents, chunks, events
        |  retrieval joins documents and chunks <----
```

| Component | State it keeps | Operations | Hard behaviour |
|---|---|---|---|
| Files service (`services/api/app/files`) | a record per file in API memory; the bytes in a directory; the tasks it sent; a list of jobs | upload (event loop), reprocess, delete, list/get/status with a refresh of statuses from Postgres (pool threads) | no compare-and-set: every handler stores a copy of a record it read earlier; two-step `exists`/`unlink`; swallowed dispatch errors; restart forgets every record |
| File validation (`files/signature.py`) | none | names and magic bytes | none |
| Ingestion worker (`services/workers/app`) | rows of `ingestion_documents`, `ingestion_chunks`, `ingestion_events`; Celery's task and retry state | one task: create row, parse, OCR fallback, store chunks, embed, mark indexed; handler: mark failed, retry | several workers on one file, a transaction per repository call, retry over leftovers, early acknowledgement, errors inside the handler |
| Parsers and OCR (`workers/app/parsers`) | none | bytes to chunks | data only |
| Upload-and-ask (`services/api/app/upload_and_ask`) | pending requests in API memory | create (upload of a batch with clean-up), poll (which also executes) | concurrent polls on stale copies; readiness from two sources that disagree |
| Chat and retrieval (`services/api/app/chat`) | sessions and messages in API memory | create/list/get session, query, grounded answer, retrieval from Postgres or a file | messages appended before generation succeeds; sees documents by status only |
| Authentication (`services/api/app/auth`) | users, sessions, memberships, audit events in API memory | seed, login, authenticate, authorise | replaced in two steps; lazily built singletons; expiry |
| Admin (`services/api/app/admin`) | settings in API memory | settings, jobs, logs, metrics | derived from the job list, which enqueue edits in two steps |
| Indexing pipeline (`src/indexing_pipeline`) | a chunk store and a vector store | chunking, embedding, replacing a file's chunks in both stores | two stores without a common transaction; overlap arithmetic |
| Web client (`apps/web`) | page state, a stored session | polling, workspace switch, upload, query | responses out of order, answers for a workspace left since |
| Shared settings, contracts, embedding (`services/shared`) | none | validation, data shapes, hash embedding | none |
| Build and deployment | none | | none |

How they interact. The API and the workers share three things and no lock: the object
store, the broker, and the table `ingestion_documents`. Only the API writes objects and
messages, only the workers write rows. The API's record of a file copies the row's status
whenever a request refreshes it, except that `deleting` and `deleted` are never
overwritten by a refresh. Upload-and-ask reads records and rows; retrieval reads rows and
chunks, and the API's records and objects only as a fallback, when Postgres fails or has
nothing to offer (`chat/retrieval.py` 117-151).

What makes each component correct:

* *Files service*: a delete removes the bytes for good; no interleaving strands a record
  in `uploaded`, `queued` or `deleting` without a request or a task to move it on; the
  record catches up with its row.
* *Worker*: chunk rows are never a mixture of two parses; `indexed` means every chunk
  has the vector of its own text; contents are published and withdrawn whole; every task
  ends and every document settles.
* *API and workers together*: each is a legitimate environment of the other; every
  upload is eventually answered.
* *Upload-and-ask*: the question is not asked before all files were indexed; a request
  fails only for a reason; it keeps its life cycle; it does not stay open.
* *Chat*: a session is as recent as its newest answer; an answer cites only what its
  workspace and the user's selection hold, whichever retrieval found it.
* *Authentication*: no request gets in with a session that had expired when it arrived;
  nobody is refused without a reason they can see; a login lists all workspaces.
* *Admin*: the settings are consistent and hold every acknowledged update; the job list
  tells of every enqueue how its own dispatch went.
* *Indexing pipeline*: windows cover the text, overlap as configured and end; a run marked
  indexed is complete in both stores; the stores agree.
* *Web client*: a quiet page shows one session of the workspace selected, and only what
  is stored; the upload-and-ask panel shows the end of its request; sending and polling end.

## 2. Plan

Done:

1. `FileStatus`, `FileLibrary`: the files service with every interleaving of its handlers.
2. `SearchIndex`, `IngestionWorker`: what ingestion promises retrieval, and the workers,
   shown to implement it when one worker runs at a time.
3. `IngestionSystem`: the two composed over what they share.
4. `FileLibraryProofs`, `IngestionWorkerProofs`, `IngestionSystemProofs`.
5. `UploadAndAsk`: batches, pending requests, racing polls.
6. `UploadAndAskProofs`: its typing and its three safety properties.

7. `IndexingPipeline`: the run of one document over two stores, its chunker window by
   window. `IndexingPipelineProofs`: all its safety properties, the window arithmetic
   included.
8. `Access` and, on top of it, `AdminConsole`: authentication, the settings store, the
   queue's job list. `AdminConsoleProofs`: all their safety properties.
9. `ChatService`, `AskPanel`, `ChatPage`: the chat endpoints, and the page that calls them.
10. `ChatPageProofs`: what the endpoints keep true. `ChatViewProofs`: what the page shows.
11. `IngestionWorker` with one worker implements `SearchIndex` (in `IngestionWorkerProofs`).

12. `FileLife`, the life of one file's record and row, implemented by `FileLibrary` for every
    file; and, seen from `UploadAndAsk`, part of the environment its polls are proved against.
13. `Conversations`, what the chat keeps for its users, implemented by `ChatService` under
    `ChatPage`.
14. Proofs of steps: contents published whole with any number of workers, the chunker's
    progress, the clean-up of a refused batch, and what the components promise of their steps
    carried over to `IngestionSystem`.

To do:

15. The request that `AskPanel` polls, tied to `pending` of `UploadAndAsk` by a proof: which
    of its statuses a poll may answer, and when it is left waiting.
16. What a restart of the API leaves of `Access` and `AdminConsole`, as an abstract module.

There are twelve runs, one per question; no module that holds or feeds a theorem declares a
RECURSIVE operator.

## 3. Modules and code

| Module | Models | State |
|---|---|---|
| `FileStatus` | `services/shared/enums.py` | (vocabulary only) |
| `FileLibrary` | `files/service.py`, `repository.py`, `storage.py`, `queue.py`, `router.py` | `records` = `InMemoryFileRepository._records` (status per file), `objects` = the storage directory, `messages` = what was sent to the broker, `documents` = rows as the API reads them, `pc`/`target`/`fetched` = the requests being served and their local copies |
| `FileLife` | what the rest of the system may rely on about one file (abstract); `FileLibrary` implements it (`Life`) | `record`, `row`, `drawn`, `sent`, and of the requests under way only `reads`, the rows they hold, and `writers`, the writes they have been allowed |
| `IngestionWorker` | `ingestion_jobs.py`, `ingestion_service.py`, `persistence/repository.py`, `indexing/service.py`, `object_store.py`, the OCR decision of the parsers | `documents`, `chunks` = the tables, `delivery`/`retries` = Celery's view of each task, `at`/`task`/`output`/`overtaken`/`transient` = the worker processes |
| `SearchIndex` | what retrieval may rely on (abstract) | `visible` |
| `IngestionSystem` | both over `objects`, `messages`, `documents`; `Retrievable` is the join of `chat/retrieval.py` | all of the above |
| `UploadAndAsk` | `upload_and_ask/service.py`, `indexing.py`, `repository.py` | `creating`/`current`/`uploaded` = `create_request` and its locals, `pending` = `_PENDING_REPOSITORY`, `at`/`asked`/`copy`/`seen` = the polls and their locals |
| `IndexingPipeline` | `src/indexing_pipeline`: `pipeline.py`, `chunking.py`, `embedding.py`, `persistence.py`, `qdrant_store.py` | `status` = the rows of `indexing_runs`, `rows` = `indexed_chunks`, `points` = the vector collection, `at`/`content`/`section`/`cursor`/`chunks` = each call of `index_document` and the locals of `_split_text` |
| `Access` | `auth/service.py`, `repository.py`, `dependencies.py`, `router.py` | `service` = `_AUTH_SERVICE`, `user`/`memberships`/`sessions` = the in-memory repository, `holder` = its lock, `clock`/`seeded`/`listed` = locals of the requests |
| `AdminConsole` (extends `Access`) | `admin/service.py`, `dependencies.py`, `router.py`; `files/queue.py`, `files/dependencies.py` | `built` = the module globals `_SETTINGS_STORE` and `_INGESTION_QUEUE`, `settings`/`jobs` = what each instance holds, `held` = the instance of each global a request has taken, `file`/`sent` = locals of the requests |
| `ChatService` | `chat/service.py`, `repository.py`, `retrieval.py`, `router.py` | `workspaceOf`/`updatedAt` = the sessions, `stored`/`answeredAt`/`cited` = the messages, `op`/`at`/`session`/`reply` = the call each flow of a client makes |
| `Conversations` | what the chat keeps for its users (abstract); `ChatService` implements it (`Conversation`) | `workspaceOf`, and of each exchange how much is `posted`, in which `place`, and what it `cites` |
| `AskPanel` (extends `ChatService`) | the polling effect of `apps/web/app/chat/chat-client.tsx` | `request`/`status`/`error` = `uploadAskRequestId`, `uploadAskStatus`, `uploadAskError`; `polling` = the timer, `polls` = the fetches in flight |
| `ChatPage` (extends `AskPanel`) | the other effects and handlers of `chat-client.tsx` | `workspace`/`listed`/`active`/`thread`/`sending` = its React state, `kind`/`epochOf` = the handlers under way and the workspace choice each load belongs to |
| `MC...` | definitions used by the configurations | |
| `...Proofs` | theorems about the module they extend | |

*Grain of the actions.* An action is one access to shared state with all the local work
up to the next one. A handler is therefore a chain of actions, named after it
(`DeleteRead`, `DeleteMark`, `DeleteCheck`, `DeleteUnlink`, `DeleteTombstone`); the
alternatives of an access (it succeeds, it raises, it comes too late) are separate
actions. In the worker an action is one Postgres transaction, except
`store_parsed_output`, split at its DELETE because under READ COMMITTED that statement
does not see rows another transaction commits before the INSERTs; `overtaken` records
that this happened, and `KeysTaken` is the primary-key conflict that then decides. A chat
query without a session creates one and appends the question in two actions
(`QueryInNew`, `QueryIn`), because the repository's lock is released between them. In
`IndexingPipeline` it is one SQLite call, which commits or not before it may raise, and
in the chunker one window.

*Who interleaves with whom.* `upload` is `async` without an `await`, so uploads exclude
each other (`EventLoopBusy`); the other handlers are plain functions on pool threads and
interleave with everything. As an upload never awaits and draws a fresh `uuid4`, its id
reaches a client only with its answer: no request names a file whose upload still runs
(`Named`), although a refresh of the whole list may meet its record. `create_request` of upload-and-ask is `async` and awaits
between two files. Workers are processes. The dependencies of a request (`get_auth_service`,
`get_current_user`, the stores and queues) are plain functions too, so that in `Access` and
`AdminConsole` every step of every request interleaves, but for the enqueueing of uploads,
which stays on the event loop (`LoopFree`). The endpoints of the console resolve two globals,
the settings store and then the queue, those of the files the queue only (`Needs`). In `ChatPage` a handler is a flow: it goes on
with what it has captured after every reply, and the user may do anything between two
replies. Only the loading of a workspace is cancelled (`Stale`), when another is selected.

*Stale copies.* `transition_status` stores a copy of the record it was handed, however
old. So `Transition` overwrites whatever is there, and a guard read by an earlier action
(`ReprocessRead`) says nothing about the later write. The same holds for `copy` of a poll.

*History variables* (`issued`, `mishaps`, `overlapped`, `had`, `raced`, and in the newer
modules those declared as history) are read by properties and by bounds on the
environment, never by a modelled guard of the code, except `issued`, which stands for the
freshness of `uuid4`.

*Faulty variants.* Next to some definitions stands a `Faulty variant`: the same
definition with a plausible mistake (a dropped guard, a missing write). They are part of
no specification; exchanging one for the original must make a property fail, which shows
that the property can fail. `PROJECT.json` "mutants" names them.

## 4. Runs

| Run | Instance | Properties | What it shows |
|---|---|---|---|
| `library` | 1 file, 2 requests at once, 2 tasks, storage and dispatch faults, restarts; 58,974 states | `TypeOK`, `DeletedObjectGone`, `NoAbandonedRecord`, `RecordConverges`, `LivesKept` | every pairwise interleaving of the handlers, with any error of the store or the broker, keeps the files service's promises and implements `FileLife` |
| `worker_overlap` | 1 file, 2 tasks, 2 workers, 1 retry, all faults, crashes; 54,716 states | `WorkerTypeOK`, `ChunksAreWhole`, `SearchableUnlessOverlapped`, `PublishedUnlessOverlapped` | overlapping tasks never mix two parses; `indexed` without an overlap means searchable, and contents come and go whole |
| `worker_serial` | 2 files, 2 tasks, 1 worker, 3 retries, read and parse faults; 73,220 states | `PublishedWhole`, `TasksEnd`, `DocumentSettles` | one worker implements `SearchIndex`; tasks end; documents settle |
| `system` | 1 file, 2 requests, 2 tasks, 1 worker, no faults but restarts; 45,868 states | `ComponentsImplemented`, `UploadsAreAnswered` | the composition implements both components; every upload is answered |
| `upload_ask` | 1 request for 2 files, 2 polls at once, all faults, restart; 55,001 states | `AskedInTime`, `FailedForReason`, `LifeCycleUnlessRaced`, `RefusedBatchDeleted`, `RequestsEnd` | a refused batch is cleaned up; racing polls and outages neither ask too early nor leave a request open; a lone poll keeps the life cycle |
| `indexing` | 1 document, 2 runs, 3 contents, 7 configurations the chunker accepts and 2 it refuses, every fault; 86,445 states | `EverySectionCovered`, `WindowsOverlap`, `IndexedInBoth`, `StoresAgree`, `ChunkerAdvances`, `StatusMovesOn`, `RunsEnd` | with an overlap not below zero the chunker loses nothing, with a window size above zero it ends; a run marked indexed is in both stores whole |
| `admin` | 8 plans of 3 requests, of up to 3 instants or 1 restart; 164,484 states | `NoExpiredSession`, `RefusedForReason`, `ListsAllWorkspaces`, `SettingsUsable`, `UpdatesKept`, `EveryEnqueueListed`, `RequestsAnswered` | requests that race to build, seed, purge, update and enqueue keep what the console shows, except where two build the same thing or two enqueues overlap |
| `chat` | 10 plans of 2 to 4 flows, 3 workspaces, 2 polls at once, at most 1 failing call; 236,742 states | `UpdatedWithNewest`, `EndShown`, `OneSessionShown`, `ThreadStored`, `ConversationsKept`, `PollingEnds`, `SendingEnds` | the page, its polls and the endpoints with calls and replies in any order; the endpoints implement `Conversations` |
| `overlap_breaks_index` | as `worker_overlap`, no fault | `IndexedMeansSearchable` (violated) | finding 3 |
| `deleted_retrievable` | as `system` | `DeletedIsNotRetrievable` (violated) | finding 1 |
| `deleted_requeued` | as `system` | `DeletedIsNotRequeued` (violated) | finding 2 |
| `deleted_asked` | as `upload_ask`, one poll, no fault | `DeletedIsNotAsked` (violated) | finding 4 |

Properties worth a remark:

* `DeletedObjectGone` has no exception. A delete that looked for the bytes before the upload
  had stored them would break it, but no client can name the file that early (`Named`).
* `NoAbandonedRecord` gives every transient status an owner: a request still running, or a
  task in the broker, or a recorded mishap (an exception that left the handler, a
  swallowed dispatch). What it excludes is a record stranded by an interleaving alone.
* `RecordConverges` is an implication between two "eventually always" formulas: if the
  row stays at a status from some time on, so does the record (or it is deleted,
  deleting, forgotten). A refresh may merge an older row after a newer one, so the record
  is not monotone; the property says that this cannot go on for ever.
* `LivesKept` is a refinement, one for every file at once: a step may concern several files
  (a refresh, a restart). `WritersOf` maps the position of each request to the write it has
  been allowed, `RowsRead` maps the refreshes under way to the rows they hold. What it
  excludes: a record that changes without a request that was accepted for it, a refresh
  that shows a row it has not read or writes over a delete, a task sent for no request.
  What it allows, because the code does: an old row shown again after a reprocess, and a
  deleted file queued by a reprocess that was accepted before (finding 2).
  A restart is final: no request accepted before it recreates the record, although
  `transition_status` stores whatever copy it is handed (`ForgottenStay` is this part alone).
* `SearchableUnlessOverlapped` is the strongest safety property the code has: with
  `overlapped` dropped it is `IndexedMeansSearchable`, which is false.
* `PublishedWhole` is a refinement: `Index` maps `visible` to the rows of a document that
  is indexed. Contents may be withdrawn and published, never edited in place.
* `PublishedUnlessOverlapped` says the same of every number of workers, file by file, for the
  files no two of them were busy with at once.
* `RefusedBatchDeleted` is about a clean-up that comes to its end; its other end is a delete
  that raises, after which the remaining files stay. It excepts files that other requests
  use (`Shared`), which may be queued again, and the file whose own upload raised, which was
  never queued: the code has no entry for it in `uploaded_file_ids` and leaves its record.
* `ConversationsKept` is a refinement: `Conversation` hides the calls under way, the session of
  a flow that has stored nothing yet, and what was retrieved until the answer is appended.
  That an answer cites its session's workspace and the user's selection only, whichever
  retrieval found it, is part of it (`CitedWithinScope` says it of every flow, answered or not).
* The runs check the typing of `FileLibrary` and `IngestionWorker`. That of the other modules is
  proved for every instance (`AskTyping`, `IndexingTyping`, `AdminTyping`, `PageTyping`), as are
  `ForgottenStay` and `CitedWithinScope`, and the runs spend their time on what is not.
* `LifeCycleUnlessRaced` excepts a request while two polls serve it at once and until
  both are done (`raced` is cleared then), so it also says that the disorder a race leaves
  is over with it.
* `IndexedInBoth` and `StoresAgree` except documents that two runs were indexing at once
  (`overlapped`): chunk ids are `<document>:<n>`, so such runs write over each other's
  chunks in either order, store by store. `StoresAgree` includes what a longer earlier run
  has left behind: neither store is cleared, so a document reindexed with less text keeps
  the old tail in both.
* `StatusMovesOn` lets `indexed` turn into `failed`: `update_status` reads the row back
  after its commit, and an error there is still inside the `try` block.
* The chunker only refuses an overlap that is not below the window size (`Usable`,
  `chunking.py:26`). `EverySectionCovered` and `WindowsOverlap` are about the configurations
  whose overlap is not below zero and whose minimum is not above the window size
  (`Sensible`): with a negative overlap the chunker steps over text, with a larger minimum it
  drops all windows but the last. `ChunkerAdvances` and `RunsEnd` are about every
  window size above zero, whatever overlap and minimum are. With a size of zero or less,
  accepted beside a smaller overlap, the cursor may stay or move backwards, and
  the run need not end: it is in the instance, and outside these two properties.
* `RefusedForReason` and `ListsAllWorkspaces` except a process in which two requests found
  no service (`rebuilt`): the second seeds every membership again, by removing and
  appending it, under requests that the first has let in. With one builder the two-step
  replacement is harmless, because nobody sees the service before it is seeded.
* `UpdatesKept` excepts a store that two requests found missing (`twice`): an acknowledged
  update may have gone to the one that was replaced. `EveryEnqueueListed` excepts that and
  enqueues that overlapped (`crossed`): `jobs[-1]` is then another's job.
* `UpdatedWithNewest` excepts sessions in which two queries overlapped (`contended`).
* `OneSessionShown` and `ThreadStored` are about a page with nothing under way and no move
  made during a call that is not cancelled, nor a failed load (`unsettled`). What they say
  is that cancelling the load is enough, however many loads are left behind, and that the
  page's own additions agree with what the server stored, errors included. The error of a
  question no session could be created for belongs to no session: it stays above the
  messages of the next one. The plans of the run are too short for that; the proof is not.
* `PollingEnds` speaks of requests that have ended (or are not known any more). One that
  waits for ever, because its file stays `queued` after a swallowed dispatch
  (`files/queue.py:146`) or a lost task, is polled for ever
  (`chat-client.tsx:211`), and the model lets it wait.
* `ThreadStored` excepts a question whose handler gave up while the server was at it
  (`QueryLost`): it may be stored after the page has read the session.
* `EndShown` excepts a request with polls still in flight when the timer was cleared
  (`overtaken`): their answers are shown as they come, an old one over the end.

## 5. Bounds and abstractions

Bounds (all are constants or named operators):

* `Files`, `Calls`, `Tasks`, `Workers`, `Polls`: see the table. Requests interact only when
  they serve the same file, and pairwise: one file and two requests reach every hazard
  of the files service. Two files appear where one could disturb the other (the worker
  serving two, a batch). The safety properties are proved without these bounds.
* `TaskLeft`: no request starts that would need more task ids than are left.
* `WorkerWrites`: which statuses the environment writes into rows. `FileLibrary` treats
  every status that is not missing alike, except that `parsing` stands for the transient
  and `indexed`, `failed` for the final ones. In `UploadAndAsk` one file may be indexed, the
  other indexed or failed.
* `Shared`: the files of a batch that others reprocess or delete (one of the two).
* `Plans` (`Access`, `ChatPage`) choose at the start what requests ask for or which moves the
  user makes, so that one run covers many small scenarios in place of one large one. Each
  hazard listed needs two or three actors, and every pair that shares state is in a plan. In
  the admin run a plan that starts at the last instant, or with no restart left, has a
  fixed clock or a single process. In the chat run the plans name the kinds of moves, the
  number of flows (with the load of the page), what retrieval finds and the number of calls
  that may fail (`MaxMishaps`).
* `SessionTtl` 1, `MaxTime` 2: a session is created, is valid for an instant, and expires.
  `MaxRestarts` 1.
* `MCConfigs`: windows without and with overlap, the largest overlap allowed, two that the
  chunker refuses, a minimum above the window size, an overlap so far below zero that the
  chunker steps over the end of the text, windows of no characters, which never advance,
  and a window size below zero, which slices from the end of the text. `MCContents`: a section of several
  windows, sections that are empty, fit, or are short, and no section.
* `TopK` 2 with up to three files: retrieval must choose. `Polls` 2: one may overtake.
* `MaxRetries`: 3 as in the code for the serial run, 1 where two workers overlap.

Abstractions:

* One workspace in the files modules; ids stand for records. The workspace checks of the
  handlers reject before any state change.
* A file's record is its status. The error message of a row is not kept: every update
  passes one exactly with `failed`.
* A parse is the choice of an output with a number of chunks: two that differ in length,
  one without chunks, and the OCR text. A chunk's text is the identity of its output,
  its vector the identity of the text it was computed from; what matters is whether
  they agree.
* The event log is not kept; its writes are transactions that may fail. Where several
  transactions follow each other with no effect but the log they are one action.
* A refresh that cannot reach the database changes nothing, so it is a stuttering step.
* `UploadAndAsk` keeps of a status what a poll's decision distinguishes (`Verdict`), and
  sees other requests and the workers as steps that `FileLibrary` allows, one file at a
  time. That these leave out no step of the life of a file but its upload and a restart
  (which have actions of their own) is proved (`EnvironmentIsComplete`): the attempt showed
  that the task of another's reprocess was missing, and `OtherSend` was added. Batches are sets: no property depends on the order of the list.
* In `IndexingPipeline` a text is its length and a chunk its window: whitespace is normalised
  before, and no branch looks at characters. The embedding provider answers or raises, a wrong
  number of vectors counting as raising.
* `Access` has the seed user only, because nothing else creates users or memberships;
  passwords and tokens are opaque. The seed user owns its workspaces, so the role check of the
  admin console always lets a member in. Of the settings, `AdminConsole` keeps the two
  that are checked against each other.
* In the chat modules a session is named after the call that created it and a message after
  the call that asked; its text is left out. `time` counts the stamps given. A streamed
  answer is one reply. A call may not arrive, a reply may be lost after the call took
  effect, and the page may give up a query that the server is still at and will
  complete (`QueryLost`): it is the one call with several steps on the server. After a query
  the page refreshes sessions and files at once; they are two calls, and when the
  files fail first the list of sessions arrives after the handler has ended (`Refreshed`,
  `FilesRefreshed`, `FilesFail`, `RefreshedLate`). So is the refresh of the files after an
  upload-and-ask a call of its own (`AskRefreshed`), whose failure shows an error over a
  polling that goes on. When a workspace is loaded, its files and sessions are one call. On
  the server the life of an upload-and-ask request is `UploadAndAsk`; here it waits, and
  ends or does not.
* The object store is reliable except for the errors listed; the broker delivers each
  task once, and loses it when the worker that acknowledged it dies.

## 6. Fairness

* A request that was accepted runs to its end: weak fairness of `Continue` for each call,
  of `Synchronize` for each poll. The code takes no lock across an external call and has
  no loop that waits, and every external call either returns or raises.
* Somebody keeps looking: strong fairness of `RefreshRead` and of `PollStart`. Strong,
  because the bound on the pool may keep disabling a new request. These are assumptions
  about users. The workspace page lists the files when it is opened and after each action,
  it has no timer. The chat page does poll an open request on an interval, but stops after
  an error or a change of workspace. `RecordConverges`, `UploadsAreAnswered` and
  `RequestsEnd` therefore say that whoever comes back and looks will find the outcome.
* A live worker goes on: weak fairness of `Work` for each worker, and of taking a task
  for each task. Celery's prefork pool takes waiting messages whenever a process idles.
* A call in progress takes its next step: weak fairness of `Step` for each run of
  `IndexingPipeline` and each request of `AdminConsole`; of the steps of page and API
  (`PageStep`, `ApiStep`) for each flow of `ChatPage`. They are threads and event handlers
  that wait for nothing but a lock held for a few statements, and calls that return or raise.
* The interval fires and fetches are answered (`PollStep`). That a request ends
  (`RequestEnds`) is not assumed: `RequestsEnd` of `UploadAndAsk` says it only of requests whose
  files settle, and a swallowed dispatch or a lost task leaves one waiting.
* Nothing is assumed of when runs, requests and flows begin, of the clock, of uploads,
  deletes, reprocesses, faults, crashes and restarts, nor, in `FileLibrary` and
  `UploadAndAsk`, of the workers.

Liveness runs leave out the faults after which the code really stops: a lost task
(`Crashes`), a failing handler (`DbFaults`), a swallowed send (`DispatchFaults`, for
`UploadsAreAnswered`). These are exactly the cases in which a file stays where it is until
somebody reprocesses it.

Deadlock is checked in `library`, `system` and `upload_ask`. In the worker runs it is not:
once all tasks are sent and done and no object is left to put or delete, the instance
has reached its bounds. Nor is it in `indexing`, `admin` and `chat`, whose runs, requests
and flows are finitely many and end; that they do end is what `RunsEnd`, `RequestsAnswered`,
`SendingEnds` and `PollingEnds` say.

## 7. Proofs

| Theorem | States |
|---|---|
| `LibraryTyping` | `Spec => []TypeOK` of `FileLibrary` |
| `LibraryDeletedObjectGone` | `Spec => []DeletedObjectGone` |
| `LibraryNoAbandonedRecord` | `Spec => []NoAbandonedRecord` |
| `LibraryKeepsLives` | `Spec => LivesKept`: `FileLibrary` implements `FileLife` for every file |
| `LibraryForgottenStay` | `Spec => ForgottenStay` |
| `WorkerTyping` | `Spec => []WorkerTypeOK` of `IngestionWorker` |
| `WorkerChunksAreWhole` | `Spec => []ChunksAreWhole` |
| `WorkerSearchable` | `Spec => []SearchableUnlessOverlapped` |
| `WorkerPublishesUnlessOverlapped` | `Spec => PublishedUnlessOverlapped`, for any number of workers |
| `WorkerPublishesWhole` | `Spec => PublishedWhole` of `IngestionWorker`, if there is at most one worker |
| `SystemImplementsComponents` | the composition implements `FileLibrary!Spec` and `IngestionWorker!Spec` |
| `SystemInvariants` | hence all of the above hold of the composition |
| `SystemSteps` | of the composition, too, `LivesKept`, `ForgottenStay` and `PublishedUnlessOverlapped` |
| `AskTyping` | `Spec => []AskTypeOK` of `UploadAndAsk` |
| `Asking` | `Spec => []AskedInTime` |
| `Failing` | `Spec => []FailedForReason` |
| `RequestLifeCycle` | `Spec => LifeCycleUnlessRaced` |
| `RefusedBatchIsDeleted` | `Spec => RefusedBatchDeleted` |
| `EnvironmentIsComplete` | every step of `FileLife` for a shared file, but `Upload` and `Forget`, is a step of "The rest of the system" in `UploadAndAsk` |
| `IndexingTyping` | `Spec => []IndexingTypeOK` of `IndexingPipeline` |
| `IndexingCoverage`, `IndexingOverlap` | `Spec => []EverySectionCovered`, `Spec => []WindowsOverlap` |
| `IndexingChunkerAdvances` | `Spec => ChunkerAdvances` |
| `IndexingStatusMovesOn` | `Spec => StatusMovesOn` |
| `IndexingInBoth`, `IndexingStoresAgree` | `Spec => []IndexedInBoth`, `Spec => []StoresAgree` |
| `AdminTyping` | `Spec => []ConsoleTypeOK` of `AdminConsole` |
| `AdminSettingsUsable`, `AdminUpdatesKept` | `Spec => []SettingsUsable`, `Spec => []UpdatesKept` |
| `AdminEveryEnqueueListed` | `Spec => []EveryEnqueueListed` |
| `AdminNoExpiredSession` | `Spec => []NoExpiredSession` |
| `AdminRefusedForReason`, `AdminListsAllWorkspaces` | `Spec => []RefusedForReason`, `Spec => []ListsAllWorkspaces` |
| `PageTyping` | `Spec => []PageTypeOK` of `ChatPage` |
| `PageCitedWithinScope`, `PageUpdatedWithNewest` | `Spec => []CitedWithinScope`, `Spec => []UpdatedWithNewest` |
| `PageEndShown` | `Spec => []EndShown` |
| `PageOneSessionShown`, `PageThreadStored` | `Spec => []OneSessionShown`, `Spec => []ThreadStored` |
| `PageKeepsConversations` | `Spec => ConversationsKept`: the endpoints implement `Conversations` |

They hold for any number of files, requests, tasks, workers, outputs, batches, polls, runs,
documents, flows, sessions and workspaces, every retry bound, text length, chunk configuration, seed, plan and patch, and
with or without each kind of fault (`WorkerPublishesWhole`: of one worker), from the ASSUMEs of the modules only
(`NoFile` is no file, `NoTask` no task, the OCR text has one chunk, chunk counts are
naturals, faults are Booleans, a seed is a sequence of workspaces and consistent settings). The typing of `IngestionSystem` is proved
jointly from both typings, since each component's typing needs the other to write only
what it may.

The arguments:

* *Deleted bytes are gone.* `DeletedObjectGone` is not inductive: a tombstone is written on
  what an earlier step of the delete has found. The strengthening `Removal` says that a
  delete about to write it has no bytes left behind it, and that no delete is of a file that is
  being uploaded, which needs `Named` and that an upload draws a fresh id; `Bookkeeping` says
  that whatever a request works on, and every record, has an id that was drawn.
* *No abandoned record.* One invariant per status. For `deleting` two facts are needed
  besides: a delete that came second to the unlink implies another one that goes on
  (`UnlinkerGoesOn`), and rows exist only for files that were sent (`RowsWereSent`), so
  that a refresh never writes `queued` without a task.
* *Lives.* A step of one request replaces its own entry in `WritersOf` and `RowsRead` and leaves
  the others' (one lemma per way of moving), so each action of `FileLibrary` maps to one
  action of `FileLife` for the file it serves and to a stutter for the others; a refresh, which
  merges many rows, maps to a `Show` or a `Leave` for each file. Besides typing it needs
  `RequestsHaveRecords`: while a request past its first read is under way, its file has a
  record, since only a restart drops one and it ends them all. `ForgottenStay` follows from
  `FileLife` alone: what gives a record starts from an id that was not drawn, or from a record.
* *Whole chunks.* The rows of a file are those of one output by induction on the
  transactions: a store replaces all of them, or, when its DELETE missed some, either
  conflicts or had nothing to replace; an embedding changes vectors only.
* *Searchable unless overlapped.* `OneAtATime`: two workers busy with one file put it into
  `overlapped`. `RunsAchieve`: a worker's position says what its run has achieved for the
  file (`Achieved`: rows stored after `StoreCommit`, embedded after `Embed`), so that the
  document is searchable when it is marked indexed, and its status has been taken back
  before its rows change. Only the file's own worker can disturb this, by `OneAtATime`.
* *Published whole.* With one worker `overlapped` stays empty (`NeverOverlapped`), so
  `RunsAchieve` holds of every run: an indexed file's rows are not touched
  (`IndexedRowsKept`), and a file becomes indexed only with all vectors stored. Each step
  is then a `Publish`, a `Withdraw` or a stutter of `SearchIndex` (`WorkIsIndexStep`), also
  with the database faults and crashes that the run `worker_serial` leaves out.
* *Published unless overlapped.* The same, file by file: `RunsAchieve` and
  `SearchableUnlessOverlapped` speak of the files outside `overlapped` only, and a step of a
  worker that is not busy with a file leaves its rows and its status (`OnlyBusyWork`).
* *Composition.* Every API step is a step of `FileLibrary` and, seen from the workers, a
  send, a put, a delete of an object, or a stutter; every worker step is a step of
  `IngestionWorker` and, seen from the API, an `Ingest` of a file whose task was sent, or
  a stutter. The instances that the proofs of the components speak of and those of
  `IngestionSystem` are shown to be the same definition by definition (`SameLibrary`,
  `SameWorker`, `SameLives`, `SameForgotten`, `SameViews`), so invariants and step properties
  carry over.
* *Environment.* `HoldHadRows`, that what a refresh holds is a row the file has had, is kept by
  every step of the life of a file (`HoldsOn`). With it and `Traces` each step of `FileLife` is found among those of
  `Other`, when the workers may write every status.
* *Refused batches.* `CleanedSoFar`: until it is refused, a batch holds in `uploaded` every file
  it has sent; afterwards those it no longer holds are deleted, and stay so, because
  batches are disjoint and a refresh does not write over a delete.
* *Asked in time, failed for a reason.* `Traces`: what a row, a record or a poll's locals
  say of a file has happened to it, however old the reading is, and a file of a pending
  request never is without a record, so that no poll takes a missing record for a failure.
* *Life cycle.* `Serving`: the polls of a request that is not in `raced` are one at most,
  and the copy that one decides on is the status the request still has; a request that is
  still being created has no status a poll could have fetched.

* *Windows.* For a `Sensible` configuration the invariant `Windows` follows the chunker: the sections behind it are covered
  (`Behind`), the one it is in is covered up to the cursor, and the last window of that
  section ends one overlap past the cursor (`AtCursor`); sections ahead are untouched.
* *Chunker.* `Chunking` adds to `Windows` that a run is never past its last section by more than
  one (`InText`). With what the chunker accepts (`Usable`) an overlap is smaller than a
  window, so, when windows have characters at all, a step that stays in the section moves the cursor up and leaves it short of
  the section's end. The text ahead
  is finite, so only finitely many such steps follow each other; that the run really takes
  them is fairness, and `RunsEnd` stays with TLC.
* *Status.* `StatusAt` ties the row of a run to the call it performs next.
* *Both stores.* `Kept`: while no two runs of a document overlapped, the active run of a
  document is its last (`LastIsActive`), so nobody writes over what the last one
  has written; what a run has written by its position is `Written`. For `StoresAgree`,
  `InStep` says that between runs that all succeeded the stores are equal, and during one
  they differ by the records of the run that is between its two writes.
* *Sessions.* A token is held past the purge only if it had not expired at the instant read
  before it (`Tokens`): other requests only remove tokens, and the login that created
  a token is over before a client presents it. For `RefusedForReason`, conversely, a token
  that was given is held until it expires or a restart drops it (`Issued`): every purge
  uses an instant that has passed.
* *Seeding.* `Seeding`: while one request builds, the memberships are those it has counted,
  but for the one it is replacing, and no other request has the service; once the
  service is published, they are the seed's.
* *Settings and jobs.* `Once`: as long as no two requests found a global missing, every
  request that has taken it holds the one instance there is (`Globally`), and a request past
  its handler's dependencies has all it needs, the store taken before the queue (`Taken`). An
  instance is as new as long as the request that makes it is not `Past` its assignment. Then the settings are what was acknowledged; and while enqueues do not overlap
  the last job is that of the request that appended it (`InTurn`).
* *Exchanges.* `Placed`: a flow that has stored its question stays with its session and
  workspace, and a session that is yet to be created does not exist (`Unborn`), so a new
  one holds nothing. Both retrievals draw from the workspace of the call, which is the
  session's. `Recent`: without an overlap at most one query is in a session, so that its
  answer is stamped after the last touch, and its own touch stores that stamp. The newest
  session of a list exists because no stamp is of the future and the naturals are well
  founded (`Least`).
* *Conversations.* `Placed`, which is part of `Exchanges`, gives each step what the abstract one asks for: a flow at
  "generate" or "append_answer" has its question stored and no answer, its session exists and
  draws on its own workspace only. What is stored stays in its session (`Grows`), so all
  other steps are stutters.
* *The end of a request.* `Ended`: once polling has stopped with no poll in flight, none can
  be sent, so the end stays shown until the next request takes the error away, and then
  that request's own outcome is still to come.
* *The page.* `Known`: what a reply says was true when it was made and stays true until it
  arrives, since sessions keep their workspace and messages their session (`Grows`).
  `View`: while the page is settled one flow at most changes it (`OnePending`), for the
  workspace selected; selecting another one makes every load under way stale, as none is of a
  later epoch. The messages are of the active session unless they are being loaded
  (`ThreadOfActive`), and a reply that is being waited for has all the page's own questions
  in it, because nobody but the flow that waits could have stored one since.

Model-checked only: everything temporal with fairness (`RecordConverges`, `TasksEnd`,
`DocumentSettles`, `UploadsAreAnswered`, `RequestsEnd`, `RunsEnd`, `RequestsAnswered`,
`PollingEnds`, `SendingEnds`), which is out of the prover's reach.

## 8. Findings

1. *A deleted file stays retrievable* (`deleted_retrievable`).
   `private_llm_user_stories.md:562`: "Deleted file cannot be retrieved or queried."
   `delete` (`files/service.py` 178-198) never touches rows and chunks, and a task still
   running writes more.
2. *A deleted file is queued again* (`deleted_requeued`). `files/service.py:151` refuses to
   reprocess a deleted file, but the check reads a record that a concurrent delete may
   replace before `transition_status` stores the copy.
3. *Indexed without vectors* (`overlap_breaks_index`). `private_llm_prd.md:643`:
   "Reprocessing a file must replace prior chunks and vectors cleanly." With two tasks of
   one file at once one may replace the rows after the other has embedded them and before
   it marks the document indexed.
4. *A deleted file is asked about* (`deleted_asked`). `private_llm_user_stories.md:1085`: "Do
   not execute if any required file failed or was deleted." The row's status `indexed`
   overrides the record's `deleted` (`upload_and_ask/indexing.py` 48-52).

## 9. What is not covered

Parts of the code:

* File validation, parsers' treatment of bytes, prompt text, hash embedding, scores and order
  of retrieved chunks, contracts: pure functions of data without state.
* Search and filtering of the file list, the admin console's logs and metrics, audit events,
  logging, rendering: they read, or write what nothing in the program reads back to decide.
* The chat page's file options, selection and citations, and the workspace and admin pages,
  which load on opening and after an action and keep nothing else.
* A restart of the API under the chat: sessions and messages are in memory and lost. It
  is modelled for records, pending requests, authentication, settings and jobs.
* `_FILE_REPOSITORY` (`files/dependencies.py` 21-26) is built lazily in the same way as the
  queue; that two requests may each build one is shown for the queue and the settings store
  only. `strict_dispatch` of the queue is never set by the program and not modelled.
* A crash of an indexing run: it leaves what a run leaves whose status could not be written,
  which is modelled. The default path `:memory:` of `IndexingPersistence`, with which every
  connection opens an empty database of its own, is not: the store is one database.
* Build, deployment, generated types, table creation: no behaviour to model.

Behaviour that the models show and no property forbids, for the readers of the code:

* After a shorter reindexing the tail of the longer run stays in both stores.
* With an overlap below zero the chunker leaves out the text between two windows
  (`chunking.py:79`), and with a window size of zero or less it may loop for ever
  (`chunking.py:26`, 74): the constructor checks neither.
* An answer that was received is overwritten by an error if the refresh of the session list
  or of the files after it fails (`Refreshed`, `FilesRefreshed`, `FilesFail`); for the list a session
  created elsewhere at that moment suffices (`ListEnd`). When the files fail first, the list
  still arrives, whatever the user has done since, and replaces the sessions shown
  (`RefreshedLate`).
* An upload-and-ask request whose file never settles is polled until the user selects another
  workspace or leaves.
* Opening a session is not cancelled: its messages may arrive after another was opened or
  another workspace selected, and a failed one leaves the other session's messages; a refresh
  after a change of workspace lists the old workspace's sessions.
* The settings are lost at a restart, and no other code reads them.

* Client disconnects that cancel an `async` handler: depends on the server in front.

## 10. Running it

    tlc -workers 2 -config Library.cfg FileLibrary
    tlc -workers 2 -config WorkerOverlap.cfg MCIngestionWorker
    tlc -workers 2 -config System.cfg MCIngestionSystem
    tlc -workers 2 -config UploadAsk.cfg MCUploadAndAsk
    tlc -workers 2 -config Indexing.cfg MCIndexingPipeline
    tlc -workers 2 -config Admin.cfg MCAdminConsole
    tlc -workers 2 -config Chat.cfg MCChatPage
    tlapm FileLibraryProofs.tla
    tlapm IngestionWorkerProofs.tla
    tlapm IngestionSystemProofs.tla
    tlapm UploadAndAskProofs.tla
    tlapm IndexingPipelineProofs.tla
    tlapm AdminConsoleProofs.tla
    tlapm ChatPageProofs.tla
    tlapm ChatViewProofs.tla

Each configuration starts with a comment that says what it is for.
