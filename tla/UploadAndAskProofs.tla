------------------------- MODULE UploadAndAskProofs -------------------------
(***************************************************************************)
(* Proofs about UploadAndAsk, for any number of requests, batches of any   *)
(* size, any number of polls, and every fault.                             *)
(***************************************************************************)
EXTENDS UploadAndAsk, TLAPS

\* One step of a batch upload, a poll or the rest of the system keeps every type.
LEMMA AskTypeStep == AskTypeOK /\ [Next]_vars => AskTypeOK'
<1> SUFFICES ASSUME AskTypeOK, [Next]_vars PROVE AskTypeOK'
  OBVIOUS
<1> USE DEF AskTypeOK, Status, IngestStatus, ApiStatus, Row, Pending, Open, CreateSteps, PollSteps
<1> USE DEF files, create, poll, SetRecord, SetPending, CreateGoto, Respond, Unread
<1>1. ASSUME NEW r \in Requests, NEW f \in Files, UploadRecord(r, f) PROVE AskTypeOK'
  <2>1. records' \in [Files -> Status \union {"absent"}]
    BY <1>1 DEF UploadRecord
  <2>2. /\ creating' \in [Requests -> CreateSteps]
        /\ current' \in [Requests -> Files \union {NoFile}]
    BY <1>1 DEF UploadRecord
  <2>3. \A q \in Requests : creating'[q] \in {"put", "tombstone"} => current'[q] \in Batch[q]
    BY <1>1 DEF UploadRecord
  <2> QED
    BY <1>1, <2>1, <2>2, <2>3 DEF UploadRecord
<1>2. ASSUME NEW r \in Requests, UploadStored(r) PROVE AskTypeOK'
  <2>1. records' \in [Files -> Status \union {"absent"}]
    BY <1>2 DEF UploadStored
  <2>0. current[r] \in Batch[r] /\ current[r] \in Files
    BY <1>2, BatchAssumption DEF UploadStored
  <2>2. /\ uploaded' \in [Requests -> SUBSET Files]
        /\ \A q \in Requests : uploaded'[q] \subseteq Batch[q]
    BY <1>2, <2>0 DEF UploadStored
  <2>3. /\ creating' \in [Requests -> CreateSteps]
        /\ current' \in [Requests -> Files \union {NoFile}]
        /\ \A q \in Requests : creating'[q] \in {"put", "tombstone"} => current'[q] \in Batch[q]
    BY <1>2 DEF UploadStored
  <2> QED
    BY <1>2, <2>1, <2>2, <2>3 DEF UploadStored
<1>3. ASSUME NEW r \in Requests, UploadRaises(r) PROVE AskTypeOK'
  BY <1>3 DEF UploadRaises
<1>4. ASSUME NEW r \in Requests, NEW f \in Files, CleanupMark(r, f) PROVE AskTypeOK'
  BY <1>4 DEF CleanupMark
<1>5. ASSUME NEW r \in Requests, CleanupTombstone(r) PROVE AskTypeOK'
  <2>1. /\ records' \in [Files -> Status \union {"absent"}]
        /\ had' \in [Files -> SUBSET (IngestStatus \union {"deleted"})]
    BY <1>5 DEF CleanupTombstone, Tombstone
  <2>2. /\ uploaded' \in [Requests -> SUBSET Files]
        /\ \A q \in Requests : uploaded'[q] \subseteq Batch[q]
    BY <1>5 DEF CleanupTombstone
  <2>3. /\ creating' \in [Requests -> CreateSteps]
        /\ current' \in [Requests -> Files \union {NoFile}]
        /\ \A q \in Requests : creating'[q] \in {"put", "tombstone"} => current'[q] \in Batch[q]
    BY <1>5 DEF CleanupTombstone
  <2> QED
    BY <1>5, <2>1, <2>2, <2>3 DEF CleanupTombstone
<1>6. ASSUME NEW r \in Requests, CleanupEnds(r) PROVE AskTypeOK'
  BY <1>6 DEF CleanupEnds, CreateReturns
<1>7. ASSUME NEW r \in Requests, CreateRecord(r) PROVE AskTypeOK'
  BY <1>7 DEF CreateRecord, CreateReturns
<1>8. ASSUME NEW p \in Polls, NEW r \in Requests, PollStart(p, r) PROVE AskTypeOK'
  BY <1>8 DEF PollStart, NeedsSync
<1>9. ASSUME NEW p \in Polls, NEW f \in Files, ReadRecord(p, f) PROVE AskTypeOK'
  BY <1>9 DEF ReadRecord, Verdict
<1>10. ASSUME NEW p \in Polls, ReadRows(p) PROVE AskTypeOK'
  BY <1>10 DEF ReadRows, RowOver, Verdict
<1>11. ASSUME NEW p \in Polls, ReadRowsRaises(p) PROVE AskTypeOK'
  BY <1>11 DEF ReadRowsRaises
<1>12. ASSUME NEW p \in Polls, Fail(p) PROVE AskTypeOK'
  <2>1. pending' \in [Requests -> Pending \union {"absent"}]
    BY <1>12 DEF Fail
  <2>2. /\ at' \in [Polls -> PollSteps]
        /\ asked' \in [Polls -> Requests \union {NoRequest}]
        /\ \A o \in Polls : at'[o] # "idle" => asked'[o] \in Requests
    BY <1>12 DEF Fail
  <2>3. /\ copy' \in [Polls -> Pending]
        /\ seen' \in [Polls -> [Files -> {"unread", "indexed", "lost", "open"}]]
        /\ raced' \in SUBSET Requests
    BY <1>12 DEF Fail
  <2> QED
    BY <1>12, <2>1, <2>2, <2>3 DEF Fail
<1>13. ASSUME NEW p \in Polls, Execute(p) PROVE AskTypeOK'
  BY <1>13 DEF Execute, AllIndexed
<1>14. ASSUME NEW p \in Polls, NotYet(p) PROVE AskTypeOK'
  <2>1. /\ at' \in [Polls -> PollSteps]
        /\ asked' \in [Polls -> Requests \union {NoRequest}]
        /\ \A o \in Polls : at'[o] # "idle" => asked'[o] \in Requests
    BY <1>14 DEF NotYet
  <2>2. /\ copy' \in [Polls -> Pending]
        /\ seen' \in [Polls -> [Files -> {"unread", "indexed", "lost", "open"}]]
        /\ raced' \in SUBSET Requests
    BY <1>14 DEF NotYet
  <2> QED
    BY <1>14, <2>1, <2>2 DEF NotYet
<1>15. ASSUME NEW p \in Polls, Answer(p) PROVE AskTypeOK'
  <2>1. pending' \in [Requests -> Pending \union {"absent"}]
    BY <1>15 DEF Answer
  <2>2. /\ at' \in [Polls -> PollSteps]
        /\ asked' \in [Polls -> Requests \union {NoRequest}]
        /\ \A o \in Polls : at'[o] # "idle" => asked'[o] \in Requests
    BY <1>15 DEF Answer
  <2>3. /\ copy' \in [Polls -> Pending]
        /\ seen' \in [Polls -> [Files -> {"unread", "indexed", "lost", "open"}]]
        /\ raced' \in SUBSET Requests
    BY <1>15 DEF Answer
  <2> QED
    BY <1>15, <2>1, <2>2, <2>3 DEF Answer
<1>16. ASSUME NEW p \in Polls, AskRaises(p) PROVE AskTypeOK'
  <2>1. pending' \in [Requests -> Pending \union {"absent"}]
    BY <1>16 DEF AskRaises
  <2>2. /\ at' \in [Polls -> PollSteps]
        /\ asked' \in [Polls -> Requests \union {NoRequest}]
        /\ \A o \in Polls : at'[o] # "idle" => asked'[o] \in Requests
    BY <1>16 DEF AskRaises
  <2>3. /\ copy' \in [Polls -> Pending]
        /\ seen' \in [Polls -> [Files -> {"unread", "indexed", "lost", "open"}]]
        /\ raced' \in SUBSET Requests
    BY <1>16 DEF AskRaises
  <2> QED
    BY <1>16, <2>1, <2>2, <2>3 DEF AskRaises
<1>17. ASSUME NEW f \in Files, NEW s \in WorkerWrites[f], Ingest(f, s) PROVE AskTypeOK'
  <2>1. s \in IngestStatus
    BY AskBoundsAssumption
  <2>2. documents' \in [Files -> Row]
    BY <1>17, <2>1 DEF Ingest
  <2>3. had' \in [Files -> SUBSET (IngestStatus \union {"deleted"})]
    BY <1>17, <2>1 DEF Ingest
  <2> QED
    BY <1>17, <2>2, <2>3 DEF Ingest
<1>18. ASSUME NEW f \in Files, NEW s \in WorkerWrites[f], Refresh(f, s) PROVE AskTypeOK'
  BY <1>18, AskBoundsAssumption DEF Refresh
<1>19. ASSUME NEW f \in Files, OtherReprocess(f) PROVE AskTypeOK'
  BY <1>19 DEF OtherReprocess
<1>20. ASSUME NEW f \in Files, OtherDeleteMark(f) PROVE AskTypeOK'
  BY <1>20 DEF OtherDeleteMark
<1>21. ASSUME NEW f \in Files, OtherDeleteTombstone(f) PROVE AskTypeOK'
  BY <1>21 DEF OtherDeleteTombstone, Tombstone
<1>22. ASSUME Restart PROVE AskTypeOK'
  BY <1>22 DEF Restart
<1>23. CASE UNCHANGED vars
  BY <1>23 DEF vars
<1>24. ASSUME NEW f \in Files, OtherSend(f) PROVE AskTypeOK'
  BY <1>24 DEF OtherSend
<1> QED
  BY <1>1, <1>2, <1>3, <1>4, <1>5, <1>6, <1>7, <1>8, <1>9, <1>10, <1>11, <1>12,
     <1>13, <1>14, <1>15, <1>16, <1>17, <1>18, <1>19, <1>20, <1>21, <1>22, <1>23,
     <1>24
     DEF Next, Create, Synchronize, Other

\* Upload-and-ask starts in its types.
LEMMA AskTypeInit == Init => AskTypeOK
BY DEF Init, AskTypeOK, Status, Row, Pending, Open, CreateSteps, PollSteps, Unread

\* Every value stays in its type, a request that is being served is one that exists,
\* and a batch uploads its own files only (service.py 37-211).
THEOREM AskTyping == Spec => []AskTypeOK
BY AskTypeInit, AskTypeStep, PTL DEF Spec

-----------------------------------------------------------------------------
(* The question is asked in time, and a request fails for a reason. *)

\* Statuses leave a trace: what a row, a record or a poll says of a file has happened.
Remembered(f) ==
  /\ documents[f] # "no_row" => documents[f] \in had[f]
  /\ records[f] \in {"indexed", "failed", "deleted"} => records[f] \in had[f]

WasIndexed(f) == "indexed" \in had[f]
WasLost(f)    == had[f] \intersect {"failed", "deleted"} # {}

SeenHappened(p) ==
  /\ \A f \in Files : seen[p][f] = "indexed" => WasIndexed(f)
  /\ \A f \in Files : seen[p][f] = "lost" => WasLost(f)
  /\ at[p] = "ask" => \A f \in Batch[asked[p]] : WasIndexed(f)

\* The files of a request that exists, or is being made, have records.
HasRecords(r) ==
  /\ \A f \in uploaded[r] : records[f] # "absent"
  /\ creating[r] \in {"put", "tombstone"} => records[current[r]] # "absent"
  /\ pending[r] # "absent" => \A f \in Batch[r] : records[f] # "absent"

Traces ==
  /\ \A f \in Files : Remembered(f)
  /\ \A p \in Polls : SeenHappened(p)
  /\ \A r \in Requests : HasRecords(r)
  /\ \A p \in Polls : at[p] # "idle" => pending[asked[p]] # "absent"

\* One step keeps the traces: a status is never read, merged or decided on that its
\* file did not have, and a pending request never loses a file's record.
LEMMA TracesStep == AskTypeOK /\ Traces /\ [Next]_vars => Traces'
<1> SUFFICES ASSUME AskTypeOK, Traces, [Next]_vars PROVE Traces'
  OBVIOUS
<1> USE DEF AskTypeOK, Pending, Open, CreateSteps, PollSteps
<1> USE DEF files, create, poll, SetRecord, SetPending, CreateGoto, Respond, Unread
<1> USE DEF Traces, Remembered, SeenHappened, WasIndexed, WasLost, HasRecords
<1>1. ASSUME NEW r \in Requests, NEW f \in Files, UploadRecord(r, f) PROVE Traces'
  BY <1>1, BatchAssumption DEF UploadRecord
<1>2. ASSUME NEW r \in Requests, UploadStored(r) PROVE Traces'
  BY <1>2 DEF UploadStored
<1>3. ASSUME NEW r \in Requests, UploadRaises(r) PROVE Traces'
  BY <1>3 DEF UploadRaises
<1>4. ASSUME NEW r \in Requests, NEW f \in Files, CleanupMark(r, f) PROVE Traces'
  BY <1>4 DEF CleanupMark
<1>5. ASSUME NEW r \in Requests, CleanupTombstone(r) PROVE Traces'
  BY <1>5 DEF CleanupTombstone, Tombstone
<1>6. ASSUME NEW r \in Requests, CleanupEnds(r) PROVE Traces'
  BY <1>6 DEF CleanupEnds, CreateReturns
<1>7. ASSUME NEW r \in Requests, CreateRecord(r) PROVE Traces'
  BY <1>7 DEF CreateRecord, CreateReturns
<1>8. ASSUME NEW p \in Polls, NEW r \in Requests, PollStart(p, r) PROVE Traces'
  BY <1>8 DEF PollStart, NeedsSync
<1>9. ASSUME NEW p \in Polls, NEW f \in Files, ReadRecord(p, f) PROVE Traces'
  BY <1>9 DEF ReadRecord, Verdict
<1>10. ASSUME NEW p \in Polls, ReadRows(p) PROVE Traces'
  BY <1>10 DEF ReadRows, RowOver, Verdict
<1>11. ASSUME NEW p \in Polls, ReadRowsRaises(p) PROVE Traces'
  BY <1>11 DEF ReadRowsRaises
<1>12. ASSUME NEW p \in Polls, Fail(p) PROVE Traces'
  BY <1>12 DEF Fail, TerminalFailure
<1>13. ASSUME NEW p \in Polls, Execute(p) PROVE Traces'
  <2>1. \A f \in Batch[asked[p]] : WasIndexed(f)'
    BY <1>13, BatchAssumption DEF Execute, AllIndexed
  <2>2. \A o \in Polls : SeenHappened(o)'
    BY <1>13, <2>1 DEF Execute
  <2>3. pending'[asked[p]] # "absent" /\ pending[asked[p]] # "absent"
    BY <1>13 DEF Execute
  <2> QED
    BY <1>13, <2>2, <2>3 DEF Execute
<1>14. ASSUME NEW p \in Polls, NotYet(p) PROVE Traces'
  BY <1>14 DEF NotYet
<1>15. ASSUME NEW p \in Polls, Answer(p) PROVE Traces'
  BY <1>15 DEF Answer
<1>16. ASSUME NEW p \in Polls, AskRaises(p) PROVE Traces'
  BY <1>16 DEF AskRaises
<1>17. ASSUME NEW f \in Files, NEW s \in WorkerWrites[f], Ingest(f, s) PROVE Traces'
  BY <1>17, AskBoundsAssumption DEF Ingest
<1>18. ASSUME NEW f \in Files, NEW s \in WorkerWrites[f], Refresh(f, s) PROVE Traces'
  <2>1. s \in IngestStatus /\ s \in had[f] /\ s # "absent"
    BY <1>18, AskBoundsAssumption DEF Refresh, IngestStatus
  <2>2. \A g \in Files : Remembered(g)'
    BY <1>18, <2>1 DEF Refresh
  <2>3. \A q \in Requests : HasRecords(q)'
    BY <1>18, <2>1 DEF Refresh
  <2> QED
    BY <1>18, <2>2, <2>3 DEF Refresh
<1>19. ASSUME NEW f \in Files, OtherReprocess(f) PROVE Traces'
  BY <1>19 DEF OtherReprocess
<1>20. ASSUME NEW f \in Files, OtherDeleteMark(f) PROVE Traces'
  BY <1>20 DEF OtherDeleteMark
<1>21. ASSUME NEW f \in Files, OtherDeleteTombstone(f) PROVE Traces'
  BY <1>21 DEF OtherDeleteTombstone, Tombstone
<1>22. ASSUME Restart PROVE Traces'
  BY <1>22 DEF Restart
<1>23. CASE UNCHANGED vars
  BY <1>23 DEF vars
<1>24. ASSUME NEW f \in Files, OtherSend(f) PROVE Traces'
  BY <1>24 DEF OtherSend
<1> QED
  BY <1>1, <1>2, <1>3, <1>4, <1>5, <1>6, <1>7, <1>8, <1>9, <1>10, <1>11, <1>12,
     <1>13, <1>14, <1>15, <1>16, <1>17, <1>18, <1>19, <1>20, <1>21, <1>22, <1>23,
     <1>24
     DEF Next, Create, Synchronize, Other

\* What a poll decides on is what its files went through: one step asks and fails in order.
LEMMA AskedStep ==
  AskTypeOK /\ Traces /\ AskedInTime /\ FailedForReason /\ [Next]_vars
    => AskedInTime' /\ FailedForReason'
<1> SUFFICES ASSUME AskTypeOK, Traces, AskedInTime, FailedForReason, [Next]_vars
             PROVE  AskedInTime' /\ FailedForReason'
  OBVIOUS
<1> USE BatchAssumption DEF AskTypeOK, Pending, Open, CreateSteps, PollSteps
<1> USE DEF files, create, poll, SetRecord, SetPending, CreateGoto, Respond
<1> USE DEF Traces, SeenHappened, WasIndexed, WasLost, AskedInTime, FailedForReason
<1>1. ASSUME NEW r \in Requests, NEW f \in Files, UploadRecord(r, f) PROVE AskedInTime' /\ FailedForReason'
  BY <1>1 DEF UploadRecord
<1>2. ASSUME NEW r \in Requests, UploadStored(r) PROVE AskedInTime' /\ FailedForReason'
  BY <1>2 DEF UploadStored
<1>3. ASSUME NEW r \in Requests, UploadRaises(r) PROVE AskedInTime' /\ FailedForReason'
  BY <1>3 DEF UploadRaises
<1>4. ASSUME NEW r \in Requests, NEW f \in Files, CleanupMark(r, f) PROVE AskedInTime' /\ FailedForReason'
  BY <1>4 DEF CleanupMark
<1>5. ASSUME NEW r \in Requests, CleanupTombstone(r) PROVE AskedInTime' /\ FailedForReason'
  <2>1. pending' = pending /\ \A f \in Files : had[f] \subseteq had'[f]
    BY <1>5 DEF CleanupTombstone, Tombstone
  <2>2. AskedInTime'
    BY <2>1
  <2>3. ASSUME NEW q \in Requests, pending'[q] = "failed"
        PROVE  \/ \E f \in Batch[q] : had'[f] \intersect {"failed", "deleted"} # {}
               \/ \A f \in Batch[q] : "indexed" \in had'[f]
    <3>1. pending[q] = "failed" /\ \A f \in Batch[q] : f \in Files /\ had[f] \subseteq had'[f]
      BY <1>5, <2>1, <2>3 DEF CleanupTombstone
    <3>2. \/ \E f \in Batch[q] : had[f] \intersect {"failed", "deleted"} # {}
          \/ \A f \in Batch[q] : "indexed" \in had[f]
      BY <3>1
    <3> QED
      BY <3>1, <3>2
  <2> QED
    BY <2>2, <2>3
<1>6. ASSUME NEW r \in Requests, CleanupEnds(r) PROVE AskedInTime' /\ FailedForReason'
  BY <1>6 DEF CleanupEnds, CreateReturns
<1>7. ASSUME NEW r \in Requests, CreateRecord(r) PROVE AskedInTime' /\ FailedForReason'
  BY <1>7 DEF CreateRecord, CreateReturns
<1>8. ASSUME NEW p \in Polls, NEW r \in Requests, PollStart(p, r) PROVE AskedInTime' /\ FailedForReason'
  BY <1>8 DEF PollStart, NeedsSync
<1>9. ASSUME NEW p \in Polls, NEW f \in Files, ReadRecord(p, f) PROVE AskedInTime' /\ FailedForReason'
  BY <1>9 DEF ReadRecord, Verdict
<1>10. ASSUME NEW p \in Polls, ReadRows(p) PROVE AskedInTime' /\ FailedForReason'
  BY <1>10 DEF ReadRows, RowOver, Verdict
<1>11. ASSUME NEW p \in Polls, ReadRowsRaises(p) PROVE AskedInTime' /\ FailedForReason'
  BY <1>11 DEF ReadRowsRaises
<1>12. ASSUME NEW p \in Polls, Fail(p) PROVE AskedInTime' /\ FailedForReason'
  BY <1>12 DEF Fail, TerminalFailure
<1>13. ASSUME NEW p \in Polls, Execute(p) PROVE AskedInTime' /\ FailedForReason'
  BY <1>13 DEF Execute, AllIndexed
<1>14. ASSUME NEW p \in Polls, NotYet(p) PROVE AskedInTime' /\ FailedForReason'
  BY <1>14 DEF NotYet
<1>15. ASSUME NEW p \in Polls, Answer(p) PROVE AskedInTime' /\ FailedForReason'
  <2>1. \A f \in Batch[asked[p]] : "indexed" \in had[f]
    BY <1>15 DEF Answer
  <2>2. AskedInTime'
    BY <1>15, <2>1 DEF Answer
  <2>3. ASSUME NEW q \in Requests, pending'[q] = "failed"
        PROVE  \/ \E f \in Batch[q] : had'[f] \intersect {"failed", "deleted"} # {}
               \/ \A f \in Batch[q] : "indexed" \in had'[f]
    <3>1. pending[q] = "failed" /\ \A f \in Batch[q] : f \in Files /\ had[f] \subseteq had'[f]
      BY <1>15, <2>1, <2>3 DEF Answer
    <3>2. \/ \E f \in Batch[q] : had[f] \intersect {"failed", "deleted"} # {}
          \/ \A f \in Batch[q] : "indexed" \in had[f]
      BY <3>1
    <3> QED
      BY <3>1, <3>2
  <2> QED
    BY <2>2, <2>3
<1>16. ASSUME NEW p \in Polls, AskRaises(p) PROVE AskedInTime' /\ FailedForReason'
  BY <1>16 DEF AskRaises
<1>17. ASSUME NEW f \in Files, NEW s \in WorkerWrites[f], Ingest(f, s) PROVE AskedInTime' /\ FailedForReason'
  BY <1>17 DEF Ingest
<1>18. ASSUME NEW f \in Files, NEW s \in WorkerWrites[f], Refresh(f, s) PROVE AskedInTime' /\ FailedForReason'
  BY <1>18 DEF Refresh
<1>19. ASSUME NEW f \in Files, OtherReprocess(f) PROVE AskedInTime' /\ FailedForReason'
  BY <1>19 DEF OtherReprocess
<1>20. ASSUME NEW f \in Files, OtherDeleteMark(f) PROVE AskedInTime' /\ FailedForReason'
  BY <1>20 DEF OtherDeleteMark
<1>21. ASSUME NEW f \in Files, OtherDeleteTombstone(f) PROVE AskedInTime' /\ FailedForReason'
  BY <1>21 DEF OtherDeleteTombstone, Tombstone
<1>22. ASSUME Restart PROVE AskedInTime' /\ FailedForReason'
  BY <1>22 DEF Restart
<1>23. CASE UNCHANGED vars
  BY <1>23 DEF vars
<1>24. ASSUME NEW f \in Files, OtherSend(f) PROVE AskedInTime' /\ FailedForReason'
  BY <1>24 DEF OtherSend
<1> QED
  BY <1>1, <1>2, <1>3, <1>4, <1>5, <1>6, <1>7, <1>8, <1>9, <1>10, <1>11, <1>12,
     <1>13, <1>14, <1>15, <1>16, <1>17, <1>18, <1>19, <1>20, <1>21, <1>22, <1>23,
     <1>24
     DEF Next, Create, Synchronize, Other

\* Nothing is pending, read or decided on in the beginning.
LEMMA TracesInit == Init => Traces /\ AskedInTime /\ FailedForReason
BY DEF Init, Traces, Remembered, SeenHappened, HasRecords, AskedInTime, FailedForReason, Unread

\* The question is asked only when every file of the batch has been indexed (service.py
\* 136-158).
THEOREM Asking == Spec => []AskedInTime
<1>1. Init => AskTypeOK /\ Traces /\ AskedInTime /\ FailedForReason
  BY AskTypeInit, TracesInit
<1>2. AskTypeOK /\ Traces /\ AskedInTime /\ FailedForReason /\ [Next]_vars
        => (AskTypeOK /\ Traces /\ AskedInTime /\ FailedForReason)'
  BY AskTypeStep, TracesStep, AskedStep
<1> QED
  BY <1>1, <1>2, PTL DEF Spec

\* A request fails only because a required file failed or was deleted, or because the
\* question was asked and raised (service.py 116-135, 159-170).
THEOREM Failing == Spec => []FailedForReason
<1>1. Init => AskTypeOK /\ Traces /\ AskedInTime /\ FailedForReason
  BY AskTypeInit, TracesInit
<1>2. AskTypeOK /\ Traces /\ AskedInTime /\ FailedForReason /\ [Next]_vars
        => (AskTypeOK /\ Traces /\ AskedInTime /\ FailedForReason)'
  BY AskTypeStep, TracesStep, AskedStep
<1> QED
  BY <1>1, <1>2, PTL DEF Spec

-----------------------------------------------------------------------------
(* The life cycle of a request that no two polls serve at once. *)

\* A poll that serves a request alone decides on the status the request still has.
ServesAlone(p) ==
  at[p] # "idle" /\ asked[p] \notin raced =>
    IF at[p] = "ask" THEN pending[asked[p]] = "executing"
                     ELSE pending[asked[p]] = copy[p] /\ copy[p] \in Open

Serving ==
  /\ \A p \in Polls : at[p] = "idle" <=> asked[p] = NoRequest
  /\ \A p, q \in Polls : asked[p] = asked[q] /\ at[p] # "idle" /\ asked[p] \notin raced => p = q
  /\ \A p \in Polls : ServesAlone(p) /\ (at[p] # "idle" => pending[asked[p]] # "absent")
  /\ \A r \in Requests : creating[r] # "over" => pending[r] = "absent"

\* One step keeps the polls of a request apart, or notes that they race.
LEMMA ServingStep == AskTypeOK /\ Serving /\ [Next]_vars => Serving'
<1> SUFFICES ASSUME AskTypeOK, Serving, [Next]_vars PROVE Serving'
  OBVIOUS
<1> USE NothingAssumption DEF AskTypeOK, Pending, Open, CreateSteps, PollSteps
<1> USE DEF files, create, poll, SetRecord, SetPending, CreateGoto, Respond, Polled
<1> USE DEF Serving, ServesAlone
<1>1. ASSUME NEW r \in Requests, NEW f \in Files, UploadRecord(r, f) PROVE Serving'
  BY <1>1 DEF UploadRecord
<1>2. ASSUME NEW r \in Requests, UploadStored(r) PROVE Serving'
  BY <1>2 DEF UploadStored
<1>3. ASSUME NEW r \in Requests, UploadRaises(r) PROVE Serving'
  BY <1>3 DEF UploadRaises
<1>4. ASSUME NEW r \in Requests, NEW f \in Files, CleanupMark(r, f) PROVE Serving'
  BY <1>4 DEF CleanupMark
<1>5. ASSUME NEW r \in Requests, CleanupTombstone(r) PROVE Serving'
  BY <1>5 DEF CleanupTombstone, Tombstone
<1>6. ASSUME NEW r \in Requests, CleanupEnds(r) PROVE Serving'
  BY <1>6 DEF CleanupEnds, CreateReturns
<1>7. ASSUME NEW r \in Requests, CreateRecord(r) PROVE Serving'
  BY <1>7 DEF CreateRecord, CreateReturns
<1>8. ASSUME NEW p \in Polls, NEW r \in Requests, PollStart(p, r) PROVE Serving'
  BY <1>8 DEF PollStart, NeedsSync
<1>9. ASSUME NEW p \in Polls, NEW f \in Files, ReadRecord(p, f) PROVE Serving'
  BY <1>9 DEF ReadRecord, Verdict
<1>10. ASSUME NEW p \in Polls, ReadRows(p) PROVE Serving'
  BY <1>10 DEF ReadRows, RowOver, Verdict
<1>11. ASSUME NEW p \in Polls, ReadRowsRaises(p) PROVE Serving'
  BY <1>11 DEF ReadRowsRaises
<1>12. ASSUME NEW p \in Polls, Fail(p) PROVE Serving'
  <2>1. \A o \in Polls : at'[o] = "idle" <=> asked'[o] = NoRequest
    BY <1>12 DEF Fail
  <2>2. \A o, q \in Polls :
          asked'[o] = asked'[q] /\ at'[o] # "idle" /\ asked'[o] \notin raced' => o = q
    BY <1>12 DEF Fail
  <2>3. ASSUME NEW o \in Polls PROVE ServesAlone(o)' /\ (at'[o] # "idle" => pending'[asked'[o]] # "absent")
    <3>1. CASE asked[o] = asked[p]
      BY <1>12, <3>1 DEF Fail
    <3>2. CASE asked[o] # asked[p]
      BY <1>12, <3>2 DEF Fail
    <3> QED
      BY <3>1, <3>2
  <2>4. \A q \in Requests : creating'[q] # "over" => pending'[q] = "absent"
    BY <1>12 DEF Fail
  <2> QED
    BY <2>1, <2>2, <2>3, <2>4
<1>13. ASSUME NEW p \in Polls, Execute(p) PROVE Serving'
  <2>1. \A o \in Polls : at'[o] = "idle" <=> asked'[o] = NoRequest
    BY <1>13 DEF Execute
  <2>2. \A o, q \in Polls :
          asked'[o] = asked'[q] /\ at'[o] # "idle" /\ asked'[o] \notin raced' => o = q
    BY <1>13 DEF Execute
  <2>3. ASSUME NEW o \in Polls PROVE ServesAlone(o)' /\ (at'[o] # "idle" => pending'[asked'[o]] # "absent")
    <3>1. CASE asked[o] = asked[p]
      BY <1>13, <3>1 DEF Execute
    <3>2. CASE asked[o] # asked[p]
      BY <1>13, <3>2 DEF Execute
    <3> QED
      BY <3>1, <3>2
  <2>4. \A q \in Requests : creating'[q] # "over" => pending'[q] = "absent"
    BY <1>13 DEF Execute
  <2> QED
    BY <2>1, <2>2, <2>3, <2>4
<1>14. ASSUME NEW p \in Polls, NotYet(p) PROVE Serving'
  <2>1. \A o \in Polls : at'[o] = "idle" <=> asked'[o] = NoRequest
    BY <1>14 DEF NotYet
  <2>2. \A o, q \in Polls :
          asked'[o] = asked'[q] /\ at'[o] # "idle" /\ asked'[o] \notin raced' => o = q
    BY <1>14 DEF NotYet
  <2>3. ASSUME NEW o \in Polls PROVE ServesAlone(o)' /\ (at'[o] # "idle" => pending'[asked'[o]] # "absent")
    <3>1. CASE asked[o] = asked[p]
      BY <1>14, <3>1 DEF NotYet
    <3>2. CASE asked[o] # asked[p]
      BY <1>14, <3>2 DEF NotYet
    <3> QED
      BY <3>1, <3>2
  <2>4. \A q \in Requests : creating'[q] # "over" => pending'[q] = "absent"
    BY <1>14 DEF NotYet
  <2> QED
    BY <2>1, <2>2, <2>3, <2>4
<1>15. ASSUME NEW p \in Polls, Answer(p) PROVE Serving'
  <2>1. \A o \in Polls : at'[o] = "idle" <=> asked'[o] = NoRequest
    BY <1>15 DEF Answer
  <2>2. \A o, q \in Polls :
          asked'[o] = asked'[q] /\ at'[o] # "idle" /\ asked'[o] \notin raced' => o = q
    BY <1>15 DEF Answer
  <2>3. ASSUME NEW o \in Polls PROVE ServesAlone(o)' /\ (at'[o] # "idle" => pending'[asked'[o]] # "absent")
    <3>1. CASE asked[o] = asked[p]
      BY <1>15, <3>1 DEF Answer
    <3>2. CASE asked[o] # asked[p]
      BY <1>15, <3>2 DEF Answer
    <3> QED
      BY <3>1, <3>2
  <2>4. \A q \in Requests : creating'[q] # "over" => pending'[q] = "absent"
    BY <1>15 DEF Answer
  <2> QED
    BY <2>1, <2>2, <2>3, <2>4
<1>16. ASSUME NEW p \in Polls, AskRaises(p) PROVE Serving'
  <2>1. \A o \in Polls : at'[o] = "idle" <=> asked'[o] = NoRequest
    BY <1>16 DEF AskRaises
  <2>2. \A o, q \in Polls :
          asked'[o] = asked'[q] /\ at'[o] # "idle" /\ asked'[o] \notin raced' => o = q
    BY <1>16 DEF AskRaises
  <2>3. ASSUME NEW o \in Polls PROVE ServesAlone(o)' /\ (at'[o] # "idle" => pending'[asked'[o]] # "absent")
    <3>1. CASE asked[o] = asked[p]
      BY <1>16, <3>1 DEF AskRaises
    <3>2. CASE asked[o] # asked[p]
      BY <1>16, <3>2 DEF AskRaises
    <3> QED
      BY <3>1, <3>2
  <2>4. \A q \in Requests : creating'[q] # "over" => pending'[q] = "absent"
    BY <1>16 DEF AskRaises
  <2> QED
    BY <2>1, <2>2, <2>3, <2>4
<1>17. ASSUME NEW f \in Files, NEW s \in WorkerWrites[f], Ingest(f, s) PROVE Serving'
  BY <1>17 DEF Ingest
<1>18. ASSUME NEW f \in Files, NEW s \in WorkerWrites[f], Refresh(f, s) PROVE Serving'
  BY <1>18 DEF Refresh
<1>19. ASSUME NEW f \in Files, OtherReprocess(f) PROVE Serving'
  BY <1>19 DEF OtherReprocess
<1>20. ASSUME NEW f \in Files, OtherDeleteMark(f) PROVE Serving'
  BY <1>20 DEF OtherDeleteMark
<1>21. ASSUME NEW f \in Files, OtherDeleteTombstone(f) PROVE Serving'
  BY <1>21 DEF OtherDeleteTombstone, Tombstone
<1>22. ASSUME Restart PROVE Serving'
  BY <1>22 DEF Restart
<1>23. CASE UNCHANGED vars
  BY <1>23 DEF vars
<1>24. ASSUME NEW f \in Files, OtherSend(f) PROVE Serving'
  BY <1>24 DEF OtherSend
<1> QED
  BY <1>1, <1>2, <1>3, <1>4, <1>5, <1>6, <1>7, <1>8, <1>9, <1>10, <1>11, <1>12,
     <1>13, <1>14, <1>15, <1>16, <1>17, <1>18, <1>19, <1>20, <1>21, <1>22, <1>23,
     <1>24
     DEF Next, Create, Synchronize, Other


\* One step of a request that no two polls serve follows its life cycle.
LEMMA LifeCycleStep ==
  AskTypeOK /\ Serving /\ [Next]_vars
    => [\A r \in Requests :
          r \in raced \/ pending'[r] = pending[r] \/ <<pending[r], pending'[r]>> \in LifeCycle]_vars
<1> DEFINE Legal == \A r \in Requests :
             r \in raced \/ pending'[r] = pending[r] \/ <<pending[r], pending'[r]>> \in LifeCycle
<1> SUFFICES ASSUME AskTypeOK, Serving, [Next]_vars PROVE Legal \/ UNCHANGED vars
  OBVIOUS
<1> USE DEF AskTypeOK, Pending, Open, files, create, poll, SetPending
<1> USE DEF Serving, ServesAlone, LifeCycle
<1>1. ASSUME NEW r \in Requests, NEW f \in Files, UploadRecord(r, f) PROVE Legal
  BY <1>1 DEF UploadRecord
<1>2. ASSUME NEW r \in Requests, UploadStored(r) PROVE Legal
  BY <1>2 DEF UploadStored
<1>3. ASSUME NEW r \in Requests, UploadRaises(r) PROVE Legal
  BY <1>3 DEF UploadRaises
<1>4. ASSUME NEW r \in Requests, NEW f \in Files, CleanupMark(r, f) PROVE Legal
  BY <1>4 DEF CleanupMark
<1>5. ASSUME NEW r \in Requests, CleanupTombstone(r) PROVE Legal
  BY <1>5 DEF CleanupTombstone, Tombstone
<1>6. ASSUME NEW r \in Requests, CleanupEnds(r) PROVE Legal
  BY <1>6 DEF CleanupEnds, CreateReturns
<1>7. ASSUME NEW r \in Requests, CreateRecord(r) PROVE Legal
  BY <1>7 DEF CreateRecord, CreateReturns
<1>8. ASSUME NEW p \in Polls, NEW r \in Requests, PollStart(p, r) PROVE Legal
  BY <1>8 DEF PollStart, NeedsSync
<1>9. ASSUME NEW p \in Polls, NEW f \in Files, ReadRecord(p, f) PROVE Legal
  BY <1>9 DEF ReadRecord, Verdict
<1>10. ASSUME NEW p \in Polls, ReadRows(p) PROVE Legal
  BY <1>10 DEF ReadRows, RowOver, Verdict
<1>11. ASSUME NEW p \in Polls, ReadRowsRaises(p) PROVE Legal
  BY <1>11 DEF ReadRowsRaises
<1>12. ASSUME NEW p \in Polls, Fail(p) PROVE Legal
  BY <1>12 DEF Fail, TerminalFailure
<1>13. ASSUME NEW p \in Polls, Execute(p) PROVE Legal
  BY <1>13 DEF Execute, AllIndexed
<1>14. ASSUME NEW p \in Polls, NotYet(p) PROVE Legal
  BY <1>14 DEF NotYet
<1>15. ASSUME NEW p \in Polls, Answer(p) PROVE Legal
  BY <1>15 DEF Answer
<1>16. ASSUME NEW p \in Polls, AskRaises(p) PROVE Legal
  BY <1>16 DEF AskRaises
<1>17. ASSUME NEW f \in Files, NEW s \in WorkerWrites[f], Ingest(f, s) PROVE Legal
  BY <1>17 DEF Ingest
<1>18. ASSUME NEW f \in Files, NEW s \in WorkerWrites[f], Refresh(f, s) PROVE Legal
  BY <1>18 DEF Refresh
<1>19. ASSUME NEW f \in Files, OtherReprocess(f) PROVE Legal
  BY <1>19 DEF OtherReprocess
<1>20. ASSUME NEW f \in Files, OtherDeleteMark(f) PROVE Legal
  BY <1>20 DEF OtherDeleteMark
<1>21. ASSUME NEW f \in Files, OtherDeleteTombstone(f) PROVE Legal
  BY <1>21 DEF OtherDeleteTombstone, Tombstone
<1>22. ASSUME Restart PROVE Legal
  BY <1>22 DEF Restart
<1>23. ASSUME UNCHANGED vars PROVE Legal
  BY <1>23 DEF vars
<1>24. ASSUME NEW f \in Files, OtherSend(f) PROVE Legal
  BY <1>24 DEF OtherSend
<1> QED
  BY <1>1, <1>2, <1>3, <1>4, <1>5, <1>6, <1>7, <1>8, <1>9, <1>10, <1>11, <1>12,
     <1>13, <1>14, <1>15, <1>16, <1>17, <1>18, <1>19, <1>20, <1>21, <1>22, <1>23,
     <1>24
     DEF Next, Create, Synchronize, Other

\* A pending request waits, executes and ends, once, while no two polls serve it
\* (docs/contracts.md 221-226; service.py 107-189).
THEOREM RequestLifeCycle == Spec => LifeCycleUnlessRaced
<1>1. Init => AskTypeOK /\ Serving
  BY AskTypeInit DEF Init, Serving, ServesAlone
<1>2. AskTypeOK /\ Serving /\ [Next]_vars => (AskTypeOK /\ Serving)'
  BY AskTypeStep, ServingStep
<1> QED
  BY <1>1, <1>2, LifeCycleStep, PTL DEF Spec, LifeCycleUnlessRaced

-----------------------------------------------------------------------------
(* What a refused batch leaves behind. *)

\* Up to its clean-up a batch holds all it has sent; there, what it no longer holds is
\* deleted.  Files that others use are left out: they may be sent or queued again.
Own(r) == (Batch[r] \intersect sent) \ Shared

CleanedSoFar ==
  \A r \in Requests :
    /\ creating[r] = "none" => Own(r) = {}
    /\ creating[r] \in {"create", "put"} => Own(r) \subseteq uploaded[r]
    /\ creating[r] \in {"delete", "tombstone"} =>
         \A f \in Own(r) \ uploaded[r] : records[f] = "deleted"

\* A batch sends and deletes its own files only, one that is refused sends nothing more,
\* and nobody else writes to a record of a deleted file that no other request uses.
LEMMA CleanedStep == AskTypeOK /\ CleanedSoFar /\ [Next]_vars => CleanedSoFar'
<1> SUFFICES ASSUME AskTypeOK, CleanedSoFar, [Next]_vars PROVE CleanedSoFar'
  OBVIOUS
<1> USE DEF AskTypeOK, CleanedSoFar, Own, files, create, SetRecord, CreateGoto, CreateReturns, CreateSteps
<1>0. \A q, r \in Requests : q # r => \A f \in Batch[q] : f \notin Batch[r]
  BY BatchAssumption
<1>1. ASSUME NEW r \in Requests, NEW f \in Files, UploadRecord(r, f) PROVE CleanedSoFar'
  <2>1. f \in Batch[r] /\ f \notin uploaded[r] /\ creating[r] \in {"none", "create"}
    BY <1>1 DEF UploadRecord
  <2>2. \A g \in Files : g # f => records'[g] = records[g]
    BY <1>1 DEF UploadRecord
  <2>3. \A q \in Requests : q # r => creating'[q] = creating[q] /\ f \notin Batch[q]
    BY <1>0, <1>1, <2>1 DEF UploadRecord
  <2>4. creating'[r] = "put" /\ uploaded' = uploaded /\ sent' = sent
    BY <1>1 DEF UploadRecord
  <2> QED
    BY <2>1, <2>2, <2>3, <2>4, BatchAssumption
<1>2. ASSUME NEW r \in Requests, UploadStored(r) PROVE CleanedSoFar'
  <2>1. current[r] \in Batch[r] /\ creating[r] = "put"
    BY <1>2 DEF UploadStored
  <2>2. \A g \in Files : g # current[r] => records'[g] = records[g]
    BY <1>2 DEF UploadStored
  <2>3. \A q \in Requests : q # r =>
          /\ creating'[q] = creating[q] /\ uploaded'[q] = uploaded[q]
          /\ current[r] \notin Batch[q]
    BY <1>0, <1>2, <2>1 DEF UploadStored
  <2>4. /\ creating'[r] = "create" /\ uploaded'[r] = uploaded[r] \union {current[r]}
        /\ sent' = sent \union {current[r]}
    BY <1>2 DEF UploadStored
  <2> QED
    BY <2>1, <2>2, <2>3, <2>4, BatchAssumption
<1>3. ASSUME NEW r \in Requests, UploadRaises(r) PROVE CleanedSoFar'
  BY <1>3 DEF UploadRaises
<1>4. ASSUME NEW r \in Requests, NEW f \in Files, CleanupMark(r, f) PROVE CleanedSoFar'
  <2>1. f \in uploaded[r] /\ f \in Batch[r] /\ creating[r] = "delete"
    BY <1>4 DEF CleanupMark
  <2>2. \A g \in Files : g # f => records'[g] = records[g]
    BY <1>4 DEF CleanupMark
  <2>3. \A q \in Requests : q # r => creating'[q] = creating[q] /\ f \notin Batch[q]
    BY <1>0, <1>4, <2>1 DEF CleanupMark
  <2>4. creating'[r] = "tombstone" /\ uploaded' = uploaded /\ sent' = sent
    BY <1>4 DEF CleanupMark
  <2> QED
    BY <2>1, <2>2, <2>3, <2>4, BatchAssumption
<1>5. ASSUME NEW r \in Requests, CleanupTombstone(r) PROVE CleanedSoFar'
  <2>1. current[r] \in Batch[r] /\ current[r] \in Files /\ creating[r] = "tombstone"
    BY <1>5, BatchAssumption DEF CleanupTombstone
  <2>2. \A g \in Files : records'[g] = IF g = current[r] THEN "deleted" ELSE records[g]
    BY <1>5 DEF CleanupTombstone, Tombstone
  <2>3. \A q \in Requests : q # r =>
          /\ creating'[q] = creating[q] /\ uploaded'[q] = uploaded[q]
          /\ current[r] \notin Batch[q]
    BY <1>0, <1>5, <2>1 DEF CleanupTombstone
  <2>4. /\ creating'[r] = "delete" /\ uploaded'[r] = uploaded[r] \ {current[r]}
        /\ sent' = sent
    BY <1>5 DEF CleanupTombstone
  <2> QED
    BY <2>1, <2>2, <2>3, <2>4, BatchAssumption
<1>6. ASSUME NEW r \in Requests, CleanupEnds(r) PROVE CleanedSoFar'
  BY <1>6 DEF CleanupEnds
<1>7. ASSUME NEW r \in Requests, CreateRecord(r) PROVE CleanedSoFar'
  BY <1>7 DEF CreateRecord
<1>8. ASSUME UNCHANGED <<files, create>> PROVE CleanedSoFar'
  BY <1>8
<1>9. ASSUME NEW f \in Files, NEW s \in WorkerWrites[f], Ingest(f, s) PROVE CleanedSoFar'
  BY <1>9 DEF Ingest
<1>10. ASSUME NEW f \in Files, NEW s \in WorkerWrites[f], Refresh(f, s) PROVE CleanedSoFar'
  BY <1>10 DEF Refresh
<1>11. ASSUME NEW f \in Shared, OtherReprocess(f) PROVE CleanedSoFar'
  BY <1>11 DEF OtherReprocess
<1>12. ASSUME NEW f \in Shared, OtherSend(f) PROVE CleanedSoFar'
  BY <1>12 DEF OtherSend
<1>13. ASSUME NEW f \in Shared, OtherDeleteMark(f) PROVE CleanedSoFar'
  BY <1>13 DEF OtherDeleteMark
<1>14. ASSUME NEW f \in Shared, OtherDeleteTombstone(f) PROVE CleanedSoFar'
  BY <1>14 DEF OtherDeleteTombstone, Tombstone
<1>15. ASSUME Restart PROVE CleanedSoFar'
  BY <1>15 DEF Restart
<1>16. ASSUME NEW p \in Polls, Synchronize(p) \/ \E r \in Requests : PollStart(p, r)
       PROVE  UNCHANGED <<files, create>>
  BY <1>16 DEF Synchronize, PollStart, ReadRecord, ReadRows, ReadRowsRaises, Fail, Execute, NotYet,
     Answer, AskRaises
<1>17. CASE UNCHANGED vars
  BY <1>17 DEF vars
<1> QED
  BY <1>1, <1>2, <1>3, <1>4, <1>5, <1>6, <1>7, <1>8, <1>9, <1>10, <1>11, <1>12, <1>13, <1>14,
     <1>15, <1>16, <1>17
     DEF Next, Create, Other

\* A clean-up that comes to its end has deleted every file that its batch had sent and
\* nobody else uses (service.py 65-72): its other end is an exception of a delete.
THEOREM RefusedBatchIsDeleted == Spec => RefusedBatchDeleted
<1>1. Init => AskTypeOK /\ CleanedSoFar
  BY AskTypeInit DEF Init, CleanedSoFar, Own
<1>2. AskTypeOK /\ CleanedSoFar /\ [Next]_vars => (AskTypeOK /\ CleanedSoFar)'
  BY AskTypeStep, CleanedStep
<1>3. AskTypeOK /\ CleanedSoFar /\ [Next]_vars =>
        [\A r \in Requests : creating[r] = "delete" /\ creating'[r] = "over" =>
           \A f \in (Batch[r] \intersect sent) \ Shared : records'[f] \in {"deleted", "absent"}]_vars
  <2> SUFFICES ASSUME AskTypeOK, CleanedSoFar, Next,
                      NEW r \in Requests, creating[r] = "delete", creating'[r] = "over",
                      NEW f \in Own(r)
               PROVE  records'[f] \in {"deleted", "absent"}
    BY DEF Own
  <2> USE DEF AskTypeOK, files, create, CreateGoto, CreateReturns, CreateSteps
  <2>1. f \in Files
    BY BatchAssumption DEF Own
  <2>2. CASE Restart
    BY <2>1, <2>2 DEF Restart
  <2>3. CASE CleanupEnds(r)
    BY <2>1, <2>3 DEF CleanupEnds, CleanedSoFar
  <2>4. ASSUME NEW q \in Requests, Create(q), ~ CleanupEnds(r) PROVE FALSE
    BY <2>4 DEF Create, UploadRecord, UploadStored, UploadRaises, CleanupMark, CleanupTombstone,
       CleanupEnds, CreateRecord
  <2>5. ASSUME NEW p \in Polls, Synchronize(p) \/ \E q \in Requests : PollStart(p, q) PROVE FALSE
    BY <2>5 DEF Synchronize, PollStart, ReadRecord, ReadRows, ReadRowsRaises, Fail, Execute, NotYet,
       Answer, AskRaises
  <2>6. ASSUME NEW g \in Files, Other(g) PROVE FALSE
    BY <2>6 DEF Other, OtherReprocess, OtherSend, OtherDeleteMark, OtherDeleteTombstone, Ingest, Refresh
  <2> QED
    BY <2>2, <2>3, <2>4, <2>5, <2>6 DEF Next
<1> QED
  BY <1>1, <1>2, <1>3, PTL DEF Spec, RefusedBatchDeleted

-----------------------------------------------------------------------------
(* The environment that UploadAndAsk assumes is one that FileLibrary keeps. *)

VARIABLES drawn, reads, writers   \* of each file, what FileLibrary knows besides: see FileLife

Life(f) == INSTANCE FileLife WITH
  record <- records[f], row <- documents[f], drawn <- drawn[f],
  sent <- f \in sent, reads <- reads[f], writers <- writers[f]

\* What refreshes hold are rows the file has had.
HoldHadRows(f) == reads[f] \subseteq (had[f] \intersect IngestStatus) \union {"no_row"}

\* What the history says of a row and a record.
Noted(f) == ({documents[f]} \intersect IngestStatus) \union ({records[f]} \intersect {"deleted"})

\* A step of the life of f, seen here: f changes, the history notes what it is given.
LivesOn(f) ==
  /\ Life(f)!Next
  /\ records'   = [records EXCEPT ![f] = records'[f]]
  /\ documents' = [documents EXCEPT ![f] = documents'[f]]
  /\ sent' \in {sent, sent \union {f}}
  /\ had' = [had EXCEPT ![f] = @ \union Noted(f)']
  /\ UNCHANGED <<create, pending, poll>>

\* It stays so, step by step: a refresh reads the row there is.
LEMMA HoldsOn ==
  ASSUME AskTypeOK, Traces, NEW f \in Files, HoldHadRows(f), LivesOn(f)
  PROVE  HoldHadRows(f)'
<1>1. Remembered(f) /\ documents[f] \in IngestStatus \union {"no_row"}
  BY DEF Traces, AskTypeOK, Row
<1>2. had'[f] = had[f] \union Noted(f)'
  BY DEF LivesOn, AskTypeOK
<1>3. reads'[f] \subseteq reads[f] \union {documents[f]}
  BY DEF LivesOn, Life!Next, Life!Upload, Life!Accept, Life!Queue, Life!Send, Life!MarkDeleting,
         Life!Tombstone, Life!Report, Life!Read, Life!Show, Life!Leave, Life!Forget
<1> QED
  BY <1>1, <1>2, <1>3 DEF HoldHadRows, Remembered

\* Whatever FileLibrary and the workers do to a file that others use (LibraryKeepsLives),
\* short of its upload and a restart, is something the polls are proved to cope with:
\* "The rest of the system" leaves out no step of the life of a file.
THEOREM EnvironmentIsComplete ==
  ASSUME AskTypeOK, Traces, NEW f \in Shared, WorkerWrites[f] = IngestStatus,
         HoldHadRows(f), LivesOn(f)
  PROVE  [Other(f)]_vars \/ Life(f)!Upload \/ Life(f)!Forget
<1> USE DEF AskTypeOK, files, SetRecord
<1>1. f \in Files
  BY AskBoundsAssumption
<1>2. Noted(f) \subseteq had[f] /\ had[f] \subseteq IngestStatus \union {"deleted"}
  BY <1>1 DEF Traces, Remembered, Noted, IngestStatus, Row
<1>3. /\ documents'[f] = documents[f] => documents' = documents
      /\ records'[f] = records[f] => records' = records
      /\ (f \in sent' <=> f \in sent) => sent' = sent
  <2>1. [documents EXCEPT ![f] = documents[f]] = documents
    BY <1>1
  <2>2. [records EXCEPT ![f] = records[f]] = records
    BY <1>1
  <2>3. documents' = [documents EXCEPT ![f] = documents'[f]] /\ records' = [records EXCEPT ![f] = records'[f]]
    BY DEF LivesOn
  <2>4. documents'[f] = documents[f] => documents' = documents
    <3> HAVE documents'[f] = documents[f]
    <3> QED
      BY <2>1, <2>3, Zenon
  <2>5. records'[f] = records[f] => records' = records
    <3> HAVE records'[f] = records[f]
    <3> QED
      BY <2>2, <2>3, Zenon
  <2>6. (f \in sent' <=> f \in sent) => sent' = sent
    <3>1. f \in sent => sent \union {f} = sent
      OBVIOUS
    <3> QED
      BY <3>1 DEF LivesOn
  <2> QED
    BY <2>4, <2>5, <2>6
<1>4. ASSUME documents'[f] = documents[f], f \in sent' <=> f \in sent
      PROVE  /\ documents' = documents /\ sent' = sent
             /\ records'[f] # "deleted" => had' = had
             /\ records'[f] = "deleted" => had' = [had EXCEPT ![f] = @ \union {"deleted"}]
  <2>1. documents' = documents /\ sent' = sent
    BY <1>4, <1>3
  <2>2. CASE records'[f] # "deleted"
    <3>1. had[f] \union Noted(f)' = had[f]
      BY <1>2, <1>4, <2>2 DEF Noted
    <3> QED
      BY <1>1, <2>1, <2>2, <3>1 DEF LivesOn
  <2>3. CASE records'[f] = "deleted"
    <3>1. had[f] \union Noted(f)' = had[f] \union {"deleted"}
      BY <1>2, <1>4, <2>3 DEF Noted
    <3> QED
      BY <1>1, <2>1, <2>3, <3>1 DEF LivesOn
  <2> QED
    BY <2>1, <2>2, <2>3
<1>5. ASSUME records'[f] = records[f], documents'[f] = documents[f], f \in sent' <=> f \in sent
      PROVE  UNCHANGED vars
  <2>1. records' = records
    BY <1>5, <1>3
  <2>2. had' = had
    <3>1. records[f] = "deleted" => had[f] \union {"deleted"} = had[f]
      BY <1>2 DEF Noted
    <3>2. [had EXCEPT ![f] = had[f]] = had
      BY <1>1
    <3>3. CASE records'[f] = "deleted"
      <4>1. had' = [had EXCEPT ![f] = had[f] \union {"deleted"}]
        BY <1>5, <1>4, <3>3
      <4> QED
        BY <1>5, <3>1, <3>2, <3>3, <4>1, Zenon
    <3>4. CASE records'[f] # "deleted"
      BY <1>5, <1>4, <3>4
    <3> QED
      BY <3>3, <3>4
  <2> QED
    BY <1>5, <1>4, <2>1, <2>2 DEF LivesOn, vars
<1>6. CASE Life(f)!Queue
  <2>1. records[f] # "absent" /\ records'[f] = "queued"
    BY <1>6 DEF Life!Queue
  <2>2. documents'[f] = documents[f] /\ (f \in sent' <=> f \in sent)
    BY <1>6 DEF Life!Queue
  <2>3. OtherReprocess(f)
    BY <1>1, <1>4, <2>1, <2>2 DEF LivesOn, OtherReprocess
  <2> QED
    BY <2>3 DEF Other
<1>7. CASE Life(f)!Send
  <2>1. records[f] # "absent" /\ records'[f] = records[f] /\ documents'[f] = documents[f] /\ f \in sent'
    BY <1>7 DEF Life!Send
  <2>2. CASE f \in sent
    BY <1>5, <2>1, <2>2
  <2>3. CASE f \notin sent
    <3>1. records' = records /\ documents' = documents /\ sent' = sent \union {f}
      BY <1>1, <1>3, <2>1, <2>3 DEF LivesOn
    <3>2. had[f] \union Noted(f)' = had[f]
      BY <1>2, <3>1 DEF Noted
    <3>3. had' = had
      BY <1>1, <3>2 DEF LivesOn
    <3>4. OtherSend(f)
      BY <2>1, <3>1, <3>3 DEF LivesOn, OtherSend
    <3> QED
      BY <3>4 DEF Other
  <2> QED
    BY <2>2, <2>3
<1>8. CASE Life(f)!MarkDeleting
  <2>1. records[f] # "absent" /\ records'[f] = "deleting"
    BY <1>8 DEF Life!MarkDeleting
  <2>2. documents'[f] = documents[f] /\ (f \in sent' <=> f \in sent)
    BY <1>8 DEF Life!MarkDeleting
  <2>3. OtherDeleteMark(f)
    BY <1>1, <1>4, <2>1, <2>2 DEF LivesOn, OtherDeleteMark
  <2> QED
    BY <2>3 DEF Other
<1>9. CASE Life(f)!Tombstone
  <2>1. records[f] # "absent" /\ records'[f] = "deleted"
    BY <1>9 DEF Life!Tombstone
  <2>2. documents'[f] = documents[f] /\ (f \in sent' <=> f \in sent)
    BY <1>9 DEF Life!Tombstone
  <2>3. OtherDeleteTombstone(f)
    BY <1>1, <1>4, <2>1, <2>2 DEF LivesOn, OtherDeleteTombstone, Tombstone
  <2> QED
    BY <2>3 DEF Other
<1>10. CASE Life(f)!Report
  <2>1. f \in sent /\ documents'[f] \in IngestStatus
    BY <1>10 DEF Life!Report, Life!IngestStatus, IngestStatus
  <2>2. records'[f] = records[f] /\ (f \in sent' <=> f \in sent)
    BY <1>10 DEF Life!Report
  <2>3. records' = records /\ sent' = sent
    BY <2>2, <1>3
  <2>4. had[f] \union Noted(f)' = had[f] \union {documents'[f]}
    BY <1>2, <2>1, <2>2 DEF Noted
  <2>5. had' = [had EXCEPT ![f] = @ \union {documents'[f]}]
    BY <1>1, <2>4 DEF LivesOn
  <2>6. Ingest(f, documents'[f])
    BY <2>1, <2>3, <2>5 DEF LivesOn, Ingest
  <2> QED
    BY <1>1, <2>1, <2>6 DEF Other
<1>11. CASE Life(f)!Show
  <2>1. /\ records[f] \notin {"absent", "deleting", "deleted"}
        /\ records'[f] \in had[f] \intersect IngestStatus
    BY <1>11 DEF Life!Show, HoldHadRows
  <2>2. documents'[f] = documents[f] /\ (f \in sent' <=> f \in sent)
    BY <1>11 DEF Life!Show
  <2>3. records'[f] # "deleted"
    BY <2>1 DEF IngestStatus
  <2>4. Refresh(f, records'[f])
    BY <1>4, <2>1, <2>2, <2>3 DEF LivesOn, Refresh
  <2> QED
    BY <1>1, <2>1, <2>4 DEF Other
<1>12. CASE Life(f)!Accept \/ Life(f)!Read \/ Life(f)!Leave
  BY <1>5, <1>12 DEF Life!Accept, Life!Read, Life!Leave
<1> QED
  BY <1>6, <1>7, <1>8, <1>9, <1>10, <1>11, <1>12 DEF LivesOn, Life!Next
=============================================================================
