------------------------- MODULE FileLibraryProofs -------------------------
(***************************************************************************)
(* Proofs about FileLibrary, for any number of files, requests and tasks,  *)
(* any behaviour of the workers on their rows, and every fault.            *)
(***************************************************************************)
EXTENDS FileLibrary, TLAPS

\* One step of the API, of its restart or of a worker keeps every value in its type.
LEMMA LibraryTypeStep == TypeOK /\ [Next]_vars => TypeOK'
<1> SUFFICES ASSUME TypeOK, [Next]_vars PROVE TypeOK'
  OBVIOUS
<1> USE DEF Status, Row, IngestStatus, ApiStatus, Steps, UploadSteps, ReprocessSteps,
            DeleteSteps, Mishap
<1> USE DEF TypeOK, Start, Goto, Return, NoRows, Note, Transition
<1>1. ASSUME NEW c \in Calls, RefreshRead(c) PROVE TypeOK'
  BY <1>1 DEF RefreshRead
<1>2. ASSUME NEW c \in Calls, NEW f \in Files, UploadCreate(c, f) PROVE TypeOK'
  BY <1>2 DEF UploadCreate
<1>3. ASSUME NEW c \in Calls, NEW f \in Files, ReprocessRead(c, f) PROVE TypeOK'
  BY <1>3 DEF ReprocessRead
<1>4. ASSUME NEW c \in Calls, NEW f \in Files, DeleteRead(c, f) PROVE TypeOK'
  BY <1>4 DEF DeleteRead
<1>5. ASSUME NEW c \in Calls, UploadPut(c) PROVE TypeOK'
  BY <1>5 DEF UploadPut
<1>6. ASSUME NEW c \in Calls, UploadPutRaises(c) PROVE TypeOK'
  BY <1>6 DEF UploadPutRaises
<1>7. ASSUME NEW c \in Calls, UploadQueue(c) PROVE TypeOK'
  BY <1>7 DEF UploadQueue
<1>8. ASSUME NEW c \in Calls, Enqueue(c) PROVE TypeOK'
  BY <1>8 DEF Enqueue
<1>9. ASSUME NEW c \in Calls, EnqueueRaises(c) PROVE TypeOK'
  BY <1>9 DEF EnqueueRaises
<1>10. ASSUME NEW c \in Calls, ReprocessWrite(c) PROVE TypeOK'
  BY <1>10 DEF ReprocessWrite
<1>11. ASSUME NEW c \in Calls, DeleteMark(c) PROVE TypeOK'
  BY <1>11 DEF DeleteMark
<1>12. ASSUME NEW c \in Calls, DeleteCheck(c) PROVE TypeOK'
  BY <1>12 DEF DeleteCheck
<1>13. ASSUME NEW c \in Calls, DeleteUnlink(c) PROVE TypeOK'
  BY <1>13 DEF DeleteUnlink
<1>14. ASSUME NEW c \in Calls, DeleteUnlinkTooLate(c) PROVE TypeOK'
  BY <1>14 DEF DeleteUnlinkTooLate
<1>15. ASSUME NEW c \in Calls, DeleteUnlinkRaises(c) PROVE TypeOK'
  BY <1>15 DEF DeleteUnlinkRaises
<1>16. ASSUME NEW c \in Calls, DeleteTombstone(c) PROVE TypeOK'
  BY <1>16 DEF DeleteTombstone
<1>17. ASSUME NEW c \in Calls, RefreshMerge(c) PROVE TypeOK'
  BY <1>17 DEF RefreshMerge, Merged
<1>18. ASSUME Restart PROVE TypeOK'
  BY <1>18 DEF Restart
<1>19. ASSUME NEW f \in Files, Ingest(f) PROVE TypeOK'
  BY <1>19, WritesAssumption DEF Ingest, requests
<1>20. CASE UNCHANGED vars
  BY <1>20 DEF vars, requests
<1> QED
  BY <1>1, <1>2, <1>3, <1>4, <1>5, <1>6, <1>7, <1>8, <1>9, <1>10,
     <1>11, <1>12, <1>13, <1>14, <1>15, <1>16, <1>17, <1>18, <1>19, <1>20
     DEF Next, ApiNext, Request, Continue, Upload, Send, Delete

\* The API starts in its types.
LEMMA LibraryTypeInit == Init => TypeOK
BY DEF Init, TypeOK, NoRows, Row, Status, Steps

\* Every value of the state stays in its type, and a request that is past its
\* first step has its file, for each step of the API and of the workers
\* (service.py, repository.py, storage.py, queue.py).
THEOREM LibraryTyping == Spec => []TypeOK
BY LibraryTypeInit, LibraryTypeStep, PTL DEF Spec

-----------------------------------------------------------------------------
(* The bytes of a deleted file. *)

\* Nothing has to do with a file whose id was not drawn.
Bookkeeping ==
  /\ \A c \in Calls : pc[c] \notin {"idle", "refresh_merge"} => target[c] \in issued
  /\ \A f \in Files : records[f] # "absent" => f \in issued

\* No delete is of the file that is being uploaded, so that its bytes are not stored
\* behind one: a delete past its look has removed them, or found none.
Removal ==
  /\ \A c \in Calls : pc[c] = "delete_tombstone" => target[c] \notin objects
  /\ \A c, d \in Calls : pc[c] \in UploadSteps /\ pc[d] \in DeleteSteps => target[c] # target[d]
  /\ \A c \in Calls : pc[c] = "upload_put" => records[target[c]] # "deleted"

\* Every step keeps the books.
LEMMA BookkeepingStep == TypeOK /\ Bookkeeping /\ [Next]_vars => Bookkeeping'
<1> SUFFICES ASSUME TypeOK, Bookkeeping, [Next]_vars PROVE Bookkeeping'
  OBVIOUS
<1> USE DEF TypeOK, Bookkeeping, Start, Goto, Return, Transition
<1>1. ASSUME NEW c \in Calls, RefreshRead(c) PROVE Bookkeeping'
  BY <1>1 DEF RefreshRead
<1>2. ASSUME NEW c \in Calls, NEW f \in Files, UploadCreate(c, f) PROVE Bookkeeping'
  BY <1>2 DEF UploadCreate
<1>3. ASSUME NEW c \in Calls, NEW f \in Files, ReprocessRead(c, f) PROVE Bookkeeping'
  BY <1>3 DEF ReprocessRead, Named
<1>4. ASSUME NEW c \in Calls, NEW f \in Files, DeleteRead(c, f) PROVE Bookkeeping'
  BY <1>4 DEF DeleteRead, Named
<1>5. ASSUME NEW c \in Calls, UploadPut(c) PROVE Bookkeeping'
  BY <1>5 DEF UploadPut
<1>6. ASSUME NEW c \in Calls, UploadPutRaises(c) PROVE Bookkeeping'
  BY <1>6 DEF UploadPutRaises
<1>7. ASSUME NEW c \in Calls, UploadQueue(c) PROVE Bookkeeping'
  BY <1>7 DEF UploadQueue
<1>8. ASSUME NEW c \in Calls, Enqueue(c) PROVE Bookkeeping'
  BY <1>8 DEF Enqueue
<1>9. ASSUME NEW c \in Calls, EnqueueRaises(c) PROVE Bookkeeping'
  BY <1>9 DEF EnqueueRaises
<1>10. ASSUME NEW c \in Calls, ReprocessWrite(c) PROVE Bookkeeping'
  BY <1>10 DEF ReprocessWrite
<1>11. ASSUME NEW c \in Calls, DeleteMark(c) PROVE Bookkeeping'
  BY <1>11 DEF DeleteMark
<1>12. ASSUME NEW c \in Calls, DeleteCheck(c) PROVE Bookkeeping'
  BY <1>12 DEF DeleteCheck
<1>13. ASSUME NEW c \in Calls, DeleteUnlink(c) PROVE Bookkeeping'
  BY <1>13 DEF DeleteUnlink
<1>14. ASSUME NEW c \in Calls, DeleteUnlinkTooLate(c) PROVE Bookkeeping'
  BY <1>14 DEF DeleteUnlinkTooLate
<1>15. ASSUME NEW c \in Calls, DeleteUnlinkRaises(c) PROVE Bookkeeping'
  BY <1>15 DEF DeleteUnlinkRaises
<1>16. ASSUME NEW c \in Calls, DeleteTombstone(c) PROVE Bookkeeping'
  BY <1>16 DEF DeleteTombstone
<1>17. ASSUME NEW c \in Calls, RefreshMerge(c) PROVE Bookkeeping'
  BY <1>17 DEF RefreshMerge, Merged
<1>18. ASSUME Restart PROVE Bookkeeping'
  BY <1>18 DEF Restart
<1>19. ASSUME NEW f \in Files, Ingest(f) PROVE Bookkeeping'
  BY <1>19 DEF Ingest, requests
<1>20. CASE UNCHANGED vars
  BY <1>20 DEF vars, requests
<1> QED
  BY
     <1>1, <1>2, <1>3, <1>4, <1>5, <1>6, <1>7, <1>8, <1>9, <1>10, <1>11, <1>12,
     <1>13, <1>14, <1>15, <1>16, <1>17, <1>18, <1>19, <1>20
     DEF Next, ApiNext, Request, Continue, Upload, Send, Delete

\* Every step keeps deletes and the pending upload apart, and with them the property.
LEMMA RemovalStep ==
  TypeOK /\ Bookkeeping /\ Removal /\ DeletedObjectGone /\ [Next]_vars
    => Removal' /\ DeletedObjectGone'
<1> SUFFICES ASSUME TypeOK, Bookkeeping, Removal, DeletedObjectGone, [Next]_vars
             PROVE  Removal' /\ DeletedObjectGone'
  OBVIOUS
<1> USE DEF TypeOK, Bookkeeping, Removal, DeletedObjectGone, Start, Goto, Return,
            Note, Transition, UploadSteps, DeleteSteps
<1>1. ASSUME NEW c \in Calls, RefreshRead(c) PROVE Removal' /\ DeletedObjectGone'
  BY <1>1 DEF RefreshRead
<1>2. ASSUME NEW c \in Calls, NEW f \in Files, UploadCreate(c, f) PROVE Removal' /\ DeletedObjectGone'
  BY <1>2 DEF UploadCreate
<1>3. ASSUME NEW c \in Calls, NEW f \in Files, ReprocessRead(c, f) PROVE Removal' /\ DeletedObjectGone'
  BY <1>3 DEF ReprocessRead
<1>4. ASSUME NEW c \in Calls, NEW f \in Files, DeleteRead(c, f) PROVE Removal' /\ DeletedObjectGone'
  BY <1>4 DEF DeleteRead, Named, Serving
<1>5. ASSUME NEW c \in Calls, UploadPut(c) PROVE Removal' /\ DeletedObjectGone'
  BY <1>5 DEF UploadPut
<1>6. ASSUME NEW c \in Calls, UploadPutRaises(c) PROVE Removal' /\ DeletedObjectGone'
  BY <1>6 DEF UploadPutRaises
<1>7. ASSUME NEW c \in Calls, UploadQueue(c) PROVE Removal' /\ DeletedObjectGone'
  BY <1>7 DEF UploadQueue
<1>8. ASSUME NEW c \in Calls, Enqueue(c) PROVE Removal' /\ DeletedObjectGone'
  BY <1>8 DEF Enqueue
<1>9. ASSUME NEW c \in Calls, EnqueueRaises(c) PROVE Removal' /\ DeletedObjectGone'
  BY <1>9 DEF EnqueueRaises
<1>10. ASSUME NEW c \in Calls, ReprocessWrite(c) PROVE Removal' /\ DeletedObjectGone'
  BY <1>10 DEF ReprocessWrite
<1>11. ASSUME NEW c \in Calls, DeleteMark(c) PROVE Removal' /\ DeletedObjectGone'
  BY <1>11 DEF DeleteMark
<1>12. ASSUME NEW c \in Calls, DeleteCheck(c) PROVE Removal' /\ DeletedObjectGone'
  BY <1>12 DEF DeleteCheck, Serving
<1>13. ASSUME NEW c \in Calls, DeleteUnlink(c) PROVE Removal' /\ DeletedObjectGone'
  BY <1>13 DEF DeleteUnlink
<1>14. ASSUME NEW c \in Calls, DeleteUnlinkTooLate(c) PROVE Removal' /\ DeletedObjectGone'
  BY <1>14 DEF DeleteUnlinkTooLate
<1>15. ASSUME NEW c \in Calls, DeleteUnlinkRaises(c) PROVE Removal' /\ DeletedObjectGone'
  BY <1>15 DEF DeleteUnlinkRaises
<1>16. ASSUME NEW c \in Calls, DeleteTombstone(c) PROVE Removal' /\ DeletedObjectGone'
  BY <1>16 DEF DeleteTombstone
<1>17. ASSUME NEW c \in Calls, RefreshMerge(c) PROVE Removal' /\ DeletedObjectGone'
  <2>1. \A f \in Files : records'[f] = "deleted" => records[f] = "deleted"
    BY <1>17 DEF RefreshMerge, Merged, Row, IngestStatus
  <2>2. \A d \in Calls : pc'[d] # "idle" => pc'[d] = pc[d] /\ target'[d] = target[d]
    BY <1>17 DEF RefreshMerge
  <2>3. objects' = objects
    BY <1>17 DEF RefreshMerge
  <2>4. DeletedObjectGone'
    BY <2>1, <2>3
  <2>5. \A d \in Calls : pc'[d] = "upload_put" => records'[target'[d]] # "deleted"
    <3> SUFFICES ASSUME NEW d \in Calls, pc'[d] = "upload_put"
                 PROVE  records'[target'[d]] # "deleted"
      OBVIOUS
    <3>1. pc[d] = "upload_put" /\ target'[d] = target[d] /\ target[d] \in Files
      BY <2>2
    <3> QED
      BY <2>1, <3>1
  <2>6. Removal'
    BY <2>2, <2>3, <2>5
  <2> QED
    BY <2>4, <2>6
<1>18. ASSUME Restart PROVE Removal' /\ DeletedObjectGone'
  BY <1>18 DEF Restart
<1>19. ASSUME NEW f \in Files, Ingest(f) PROVE Removal' /\ DeletedObjectGone'
  BY <1>19 DEF Ingest, requests
<1>20. CASE UNCHANGED vars
  BY <1>20 DEF vars, requests
<1> QED
  BY
     <1>1, <1>2, <1>3, <1>4, <1>5, <1>6, <1>7, <1>8, <1>9, <1>10, <1>11, <1>12,
     <1>13, <1>14, <1>15, <1>16, <1>17, <1>18, <1>19, <1>20
     DEF Next, ApiNext, Request, Continue, Upload, Send, Delete

\* A deleted file's bytes are gone, for every interleaving of service.py 34-198 and
\* every failure of put and unlink.
THEOREM LibraryDeletedObjectGone == Spec => []DeletedObjectGone
<1>1. Init => Bookkeeping /\ Removal /\ DeletedObjectGone
  BY DEF Init, Bookkeeping, Removal, DeletedObjectGone, UploadSteps, DeleteSteps
<1> QED
  BY <1>1, LibraryTyping, BookkeepingStep, RemovalStep, PTL DEF Spec

-----------------------------------------------------------------------------
(* Records in a transient status.  Uploaded, deleting and queued are kept    *)
(* apart: each needs a fact of its own beside its name.                      *)

Sent(f) == \E t \in Tasks : messages[t] = f

\* Only workers write rows, and only for a task they were sent.
RowsWereSent ==
  \A f \in Files :
    /\ documents[f] # "no_row" => Sent(f)
    /\ \A c \in Calls : fetched[c][f] # "no_row" => Sent(f)

\* The delete that unlinked the bytes another was about to unlink goes on to the
\* tombstone, unless a later delete of the file has still to look for them.
UnlinkerGoesOn ==
  \A f \in Files :
    records[f] = "deleting" /\ f \notin objects /\ Serving(f, {"delete_unlink"})
      => Serving(f, {"delete_check", "delete_tombstone"})

\* A record is uploaded only while the upload that created it is on its way.
LEMMA UploadedStep ==
  TypeOK /\ UploadedIsOwned /\ [Next]_vars => UploadedIsOwned'
<1> SUFFICES ASSUME TypeOK, UploadedIsOwned, [Next]_vars PROVE UploadedIsOwned'
  OBVIOUS
<1> USE DEF UploadedIsOwned, TypeOK, Serving, Start, Goto, Return, Note, Transition
<1>1. ASSUME NEW c \in Calls, RefreshRead(c) PROVE UploadedIsOwned'
  BY <1>1 DEF RefreshRead
<1>2. ASSUME NEW c \in Calls, NEW f \in Files, UploadCreate(c, f) PROVE UploadedIsOwned'
  BY <1>2 DEF UploadCreate
<1>3. ASSUME NEW c \in Calls, NEW f \in Files, ReprocessRead(c, f) PROVE UploadedIsOwned'
  BY <1>3 DEF ReprocessRead
<1>4. ASSUME NEW c \in Calls, NEW f \in Files, DeleteRead(c, f) PROVE UploadedIsOwned'
  BY <1>4 DEF DeleteRead
<1>5. ASSUME NEW c \in Calls, UploadPut(c) PROVE UploadedIsOwned'
  BY <1>5 DEF UploadPut
<1>6. ASSUME NEW c \in Calls, UploadPutRaises(c) PROVE UploadedIsOwned'
  BY <1>6 DEF UploadPutRaises
<1>7. ASSUME NEW c \in Calls, UploadQueue(c) PROVE UploadedIsOwned'
  BY <1>7 DEF UploadQueue
<1>8. ASSUME NEW c \in Calls, Enqueue(c) PROVE UploadedIsOwned'
  BY <1>8 DEF Enqueue
<1>9. ASSUME NEW c \in Calls, EnqueueRaises(c) PROVE UploadedIsOwned'
  BY <1>9 DEF EnqueueRaises
<1>10. ASSUME NEW c \in Calls, ReprocessWrite(c) PROVE UploadedIsOwned'
  BY <1>10 DEF ReprocessWrite
<1>11. ASSUME NEW c \in Calls, DeleteMark(c) PROVE UploadedIsOwned'
  BY <1>11 DEF DeleteMark
<1>12. ASSUME NEW c \in Calls, DeleteCheck(c) PROVE UploadedIsOwned'
  BY <1>12 DEF DeleteCheck
<1>13. ASSUME NEW c \in Calls, DeleteUnlink(c) PROVE UploadedIsOwned'
  BY <1>13 DEF DeleteUnlink
<1>14. ASSUME NEW c \in Calls, DeleteUnlinkTooLate(c) PROVE UploadedIsOwned'
  BY <1>14 DEF DeleteUnlinkTooLate
<1>15. ASSUME NEW c \in Calls, DeleteUnlinkRaises(c) PROVE UploadedIsOwned'
  BY <1>15 DEF DeleteUnlinkRaises
<1>16. ASSUME NEW c \in Calls, DeleteTombstone(c) PROVE UploadedIsOwned'
  BY <1>16 DEF DeleteTombstone
<1>17. ASSUME NEW c \in Calls, RefreshMerge(c) PROVE UploadedIsOwned'
  <2>1. \A f \in Files : records'[f] = "uploaded" => records[f] = "uploaded"
    BY <1>17 DEF RefreshMerge, Merged, Row, IngestStatus
  <2>2. \A f \in Files : Serving(f, {"upload_put", "upload_queue"})
                           => Serving(f, {"upload_put", "upload_queue"})'
    BY <1>17 DEF RefreshMerge
  <2>3. mishaps' = mishaps
    BY <1>17 DEF RefreshMerge
  <2> QED
    BY <2>1, <2>2, <2>3 DEF UploadedIsOwned
<1>18. ASSUME Restart PROVE UploadedIsOwned'
  BY <1>18 DEF Restart, NoRows
<1>19. ASSUME NEW f \in Files, Ingest(f) PROVE UploadedIsOwned'
  BY <1>19 DEF Ingest, requests
<1>20. CASE UNCHANGED vars
  BY <1>20 DEF vars, requests
<1> QED
  BY <1>1, <1>2, <1>3, <1>4, <1>5, <1>6, <1>7, <1>8, <1>9, <1>10, <1>11, <1>12,
     <1>13, <1>14, <1>15, <1>16, <1>17, <1>18, <1>19, <1>20
     DEF Next, ApiNext, Request, Continue, Upload, Send, Delete

\* A delete that ends without a tombstone leaves another delete to write it.
LEMMA DeletingStep ==
  TypeOK /\ UnlinkerGoesOn /\ DeletingIsOwned /\ [Next]_vars => DeletingIsOwned'
<1> SUFFICES ASSUME TypeOK, UnlinkerGoesOn, DeletingIsOwned, [Next]_vars PROVE DeletingIsOwned'
  OBVIOUS
<1> USE DEF UnlinkerGoesOn, DeletingIsOwned, TypeOK, Serving, Start, Goto, Return, Note, Transition
<1>1. ASSUME NEW c \in Calls, RefreshRead(c) PROVE DeletingIsOwned'
  BY <1>1 DEF RefreshRead
<1>2. ASSUME NEW c \in Calls, NEW f \in Files, UploadCreate(c, f) PROVE DeletingIsOwned'
  BY <1>2 DEF UploadCreate
<1>3. ASSUME NEW c \in Calls, NEW f \in Files, ReprocessRead(c, f) PROVE DeletingIsOwned'
  BY <1>3 DEF ReprocessRead
<1>4. ASSUME NEW c \in Calls, NEW f \in Files, DeleteRead(c, f) PROVE DeletingIsOwned'
  BY <1>4 DEF DeleteRead
<1>5. ASSUME NEW c \in Calls, UploadPut(c) PROVE DeletingIsOwned'
  BY <1>5 DEF UploadPut
<1>6. ASSUME NEW c \in Calls, UploadPutRaises(c) PROVE DeletingIsOwned'
  BY <1>6 DEF UploadPutRaises
<1>7. ASSUME NEW c \in Calls, UploadQueue(c) PROVE DeletingIsOwned'
  BY <1>7 DEF UploadQueue
<1>8. ASSUME NEW c \in Calls, Enqueue(c) PROVE DeletingIsOwned'
  BY <1>8 DEF Enqueue
<1>9. ASSUME NEW c \in Calls, EnqueueRaises(c) PROVE DeletingIsOwned'
  BY <1>9 DEF EnqueueRaises
<1>10. ASSUME NEW c \in Calls, ReprocessWrite(c) PROVE DeletingIsOwned'
  BY <1>10 DEF ReprocessWrite
<1>11. ASSUME NEW c \in Calls, DeleteMark(c) PROVE DeletingIsOwned'
  BY <1>11 DEF DeleteMark
<1>12. ASSUME NEW c \in Calls, DeleteCheck(c) PROVE DeletingIsOwned'
  BY <1>12 DEF DeleteCheck
<1>13. ASSUME NEW c \in Calls, DeleteUnlink(c) PROVE DeletingIsOwned'
  BY <1>13 DEF DeleteUnlink
<1>14. ASSUME NEW c \in Calls, DeleteUnlinkTooLate(c) PROVE DeletingIsOwned'
  BY <1>14 DEF DeleteUnlinkTooLate
<1>15. ASSUME NEW c \in Calls, DeleteUnlinkRaises(c) PROVE DeletingIsOwned'
  BY <1>15 DEF DeleteUnlinkRaises
<1>16. ASSUME NEW c \in Calls, DeleteTombstone(c) PROVE DeletingIsOwned'
  BY <1>16 DEF DeleteTombstone
<1>17. ASSUME NEW c \in Calls, RefreshMerge(c) PROVE DeletingIsOwned'
  BY <1>17 DEF RefreshMerge, Merged, Row, IngestStatus
<1>18. ASSUME Restart PROVE DeletingIsOwned'
  BY <1>18 DEF Restart, NoRows
<1>19. ASSUME NEW f \in Files, Ingest(f) PROVE DeletingIsOwned'
  BY <1>19 DEF Ingest, requests
<1>20. CASE UNCHANGED vars
  BY <1>20 DEF vars, requests
<1> QED
  BY <1>1, <1>2, <1>3, <1>4, <1>5, <1>6, <1>7, <1>8, <1>9, <1>10, <1>11, <1>12,
     <1>13, <1>14, <1>15, <1>16, <1>17, <1>18, <1>19, <1>20
     DEF Next, ApiNext, Request, Continue, Upload, Send, Delete

\* Whoever removed the bytes under another delete is still on its way.
LEMMA UnlinkerStep ==
  TypeOK /\ UnlinkerGoesOn /\ [Next]_vars => UnlinkerGoesOn'
<1> SUFFICES ASSUME TypeOK, UnlinkerGoesOn, [Next]_vars PROVE UnlinkerGoesOn'
  OBVIOUS
<1> USE DEF UnlinkerGoesOn, TypeOK, Serving, Start, Goto, Return, Note, Transition
<1>1. ASSUME NEW c \in Calls, RefreshRead(c) PROVE UnlinkerGoesOn'
  BY <1>1 DEF RefreshRead
<1>2. ASSUME NEW c \in Calls, NEW f \in Files, UploadCreate(c, f) PROVE UnlinkerGoesOn'
  BY <1>2 DEF UploadCreate
<1>3. ASSUME NEW c \in Calls, NEW f \in Files, ReprocessRead(c, f) PROVE UnlinkerGoesOn'
  BY <1>3 DEF ReprocessRead
<1>4. ASSUME NEW c \in Calls, NEW f \in Files, DeleteRead(c, f) PROVE UnlinkerGoesOn'
  BY <1>4 DEF DeleteRead
<1>5. ASSUME NEW c \in Calls, UploadPut(c) PROVE UnlinkerGoesOn'
  BY <1>5 DEF UploadPut
<1>6. ASSUME NEW c \in Calls, UploadPutRaises(c) PROVE UnlinkerGoesOn'
  BY <1>6 DEF UploadPutRaises
<1>7. ASSUME NEW c \in Calls, UploadQueue(c) PROVE UnlinkerGoesOn'
  BY <1>7 DEF UploadQueue
<1>8. ASSUME NEW c \in Calls, Enqueue(c) PROVE UnlinkerGoesOn'
  BY <1>8 DEF Enqueue
<1>9. ASSUME NEW c \in Calls, EnqueueRaises(c) PROVE UnlinkerGoesOn'
  BY <1>9 DEF EnqueueRaises
<1>10. ASSUME NEW c \in Calls, ReprocessWrite(c) PROVE UnlinkerGoesOn'
  BY <1>10 DEF ReprocessWrite
<1>11. ASSUME NEW c \in Calls, DeleteMark(c) PROVE UnlinkerGoesOn'
  BY <1>11 DEF DeleteMark
<1>12. ASSUME NEW c \in Calls, DeleteCheck(c) PROVE UnlinkerGoesOn'
  BY <1>12 DEF DeleteCheck
<1>13. ASSUME NEW c \in Calls, DeleteUnlink(c) PROVE UnlinkerGoesOn'
  BY <1>13 DEF DeleteUnlink
<1>14. ASSUME NEW c \in Calls, DeleteUnlinkTooLate(c) PROVE UnlinkerGoesOn'
  BY <1>14 DEF DeleteUnlinkTooLate
<1>15. ASSUME NEW c \in Calls, DeleteUnlinkRaises(c) PROVE UnlinkerGoesOn'
  BY <1>15 DEF DeleteUnlinkRaises
<1>16. ASSUME NEW c \in Calls, DeleteTombstone(c) PROVE UnlinkerGoesOn'
  BY <1>16 DEF DeleteTombstone
<1>17. ASSUME NEW c \in Calls, RefreshMerge(c) PROVE UnlinkerGoesOn'
  BY SMTT(30), <1>17 DEF RefreshMerge, Merged, Row, IngestStatus
<1>18. ASSUME Restart PROVE UnlinkerGoesOn'
  BY <1>18 DEF Restart, NoRows
<1>19. ASSUME NEW f \in Files, Ingest(f) PROVE UnlinkerGoesOn'
  BY <1>19 DEF Ingest, requests
<1>20. CASE UNCHANGED vars
  BY <1>20 DEF vars, requests
<1> QED
  BY <1>1, <1>2, <1>3, <1>4, <1>5, <1>6, <1>7, <1>8, <1>9, <1>10, <1>11, <1>12,
     <1>13, <1>14, <1>15, <1>16, <1>17, <1>18, <1>19, <1>20
     DEF Next, ApiNext, Request, Continue, Upload, Send, Delete

\* Rows, and the copies that requests have fetched, belong to files that were sent.
LEMMA RowsStep ==
  TypeOK /\ RowsWereSent /\ [Next]_vars => RowsWereSent'
<1> SUFFICES ASSUME TypeOK, RowsWereSent, [Next]_vars PROVE RowsWereSent'
  OBVIOUS
<1> USE DEF RowsWereSent, Sent, NoRows, TypeOK, Serving, Start, Goto, Return, Note, Transition
<1>1. ASSUME NEW c \in Calls, RefreshRead(c) PROVE RowsWereSent'
  BY <1>1 DEF RefreshRead
<1>2. ASSUME NEW c \in Calls, NEW f \in Files, UploadCreate(c, f) PROVE RowsWereSent'
  BY <1>2 DEF UploadCreate
<1>3. ASSUME NEW c \in Calls, NEW f \in Files, ReprocessRead(c, f) PROVE RowsWereSent'
  BY <1>3 DEF ReprocessRead
<1>4. ASSUME NEW c \in Calls, NEW f \in Files, DeleteRead(c, f) PROVE RowsWereSent'
  BY <1>4 DEF DeleteRead
<1>5. ASSUME NEW c \in Calls, UploadPut(c) PROVE RowsWereSent'
  BY <1>5 DEF UploadPut
<1>6. ASSUME NEW c \in Calls, UploadPutRaises(c) PROVE RowsWereSent'
  BY <1>6 DEF UploadPutRaises
<1>7. ASSUME NEW c \in Calls, UploadQueue(c) PROVE RowsWereSent'
  BY <1>7 DEF UploadQueue
<1>8. ASSUME NEW c \in Calls, Enqueue(c) PROVE RowsWereSent'
  BY <1>8, FilesAssumption DEF Enqueue
<1>9. ASSUME NEW c \in Calls, EnqueueRaises(c) PROVE RowsWereSent'
  BY <1>9 DEF EnqueueRaises
<1>10. ASSUME NEW c \in Calls, ReprocessWrite(c) PROVE RowsWereSent'
  BY <1>10 DEF ReprocessWrite
<1>11. ASSUME NEW c \in Calls, DeleteMark(c) PROVE RowsWereSent'
  BY <1>11 DEF DeleteMark
<1>12. ASSUME NEW c \in Calls, DeleteCheck(c) PROVE RowsWereSent'
  BY <1>12 DEF DeleteCheck
<1>13. ASSUME NEW c \in Calls, DeleteUnlink(c) PROVE RowsWereSent'
  BY <1>13 DEF DeleteUnlink
<1>14. ASSUME NEW c \in Calls, DeleteUnlinkTooLate(c) PROVE RowsWereSent'
  BY <1>14 DEF DeleteUnlinkTooLate
<1>15. ASSUME NEW c \in Calls, DeleteUnlinkRaises(c) PROVE RowsWereSent'
  BY <1>15 DEF DeleteUnlinkRaises
<1>16. ASSUME NEW c \in Calls, DeleteTombstone(c) PROVE RowsWereSent'
  BY <1>16 DEF DeleteTombstone
<1>17. ASSUME NEW c \in Calls, RefreshMerge(c) PROVE RowsWereSent'
  BY <1>17 DEF RefreshMerge
<1>18. ASSUME Restart PROVE RowsWereSent'
  BY <1>18 DEF Restart
<1>19. ASSUME NEW f \in Files, Ingest(f) PROVE RowsWereSent'
  BY <1>19 DEF Ingest, requests
<1>20. CASE UNCHANGED vars
  BY <1>20 DEF vars, requests
<1> QED
  BY <1>1, <1>2, <1>3, <1>4, <1>5, <1>6, <1>7, <1>8, <1>9, <1>10, <1>11, <1>12,
     <1>13, <1>14, <1>15, <1>16, <1>17, <1>18, <1>19, <1>20
     DEF Next, ApiNext, Request, Continue, Upload, Send, Delete

\* A record becomes queued by a request about to send, or by a row of a sent file.
LEMMA QueuedStep ==
  TypeOK /\ RowsWereSent /\ QueuedIsOwned /\ [Next]_vars => QueuedIsOwned'
<1> SUFFICES ASSUME TypeOK, RowsWereSent, QueuedIsOwned, [Next]_vars PROVE QueuedIsOwned'
  OBVIOUS
<1> USE DEF RowsWereSent, Sent, QueuedIsOwned, TypeOK, Serving, Start, Goto, Return, Note, Transition
<1>1. ASSUME NEW c \in Calls, RefreshRead(c) PROVE QueuedIsOwned'
  BY <1>1 DEF RefreshRead
<1>2. ASSUME NEW c \in Calls, NEW f \in Files, UploadCreate(c, f) PROVE QueuedIsOwned'
  BY <1>2 DEF UploadCreate
<1>3. ASSUME NEW c \in Calls, NEW f \in Files, ReprocessRead(c, f) PROVE QueuedIsOwned'
  BY <1>3 DEF ReprocessRead
<1>4. ASSUME NEW c \in Calls, NEW f \in Files, DeleteRead(c, f) PROVE QueuedIsOwned'
  BY <1>4 DEF DeleteRead
<1>5. ASSUME NEW c \in Calls, UploadPut(c) PROVE QueuedIsOwned'
  BY <1>5 DEF UploadPut
<1>6. ASSUME NEW c \in Calls, UploadPutRaises(c) PROVE QueuedIsOwned'
  BY <1>6 DEF UploadPutRaises
<1>7. ASSUME NEW c \in Calls, UploadQueue(c) PROVE QueuedIsOwned'
  BY <1>7 DEF UploadQueue
<1>8. ASSUME NEW c \in Calls, Enqueue(c) PROVE QueuedIsOwned'
  BY <1>8, FilesAssumption DEF Enqueue
<1>9. ASSUME NEW c \in Calls, EnqueueRaises(c) PROVE QueuedIsOwned'
  BY <1>9 DEF EnqueueRaises
<1>10. ASSUME NEW c \in Calls, ReprocessWrite(c) PROVE QueuedIsOwned'
  BY <1>10 DEF ReprocessWrite
<1>11. ASSUME NEW c \in Calls, DeleteMark(c) PROVE QueuedIsOwned'
  BY <1>11 DEF DeleteMark
<1>12. ASSUME NEW c \in Calls, DeleteCheck(c) PROVE QueuedIsOwned'
  BY <1>12 DEF DeleteCheck
<1>13. ASSUME NEW c \in Calls, DeleteUnlink(c) PROVE QueuedIsOwned'
  BY <1>13 DEF DeleteUnlink
<1>14. ASSUME NEW c \in Calls, DeleteUnlinkTooLate(c) PROVE QueuedIsOwned'
  BY <1>14 DEF DeleteUnlinkTooLate
<1>15. ASSUME NEW c \in Calls, DeleteUnlinkRaises(c) PROVE QueuedIsOwned'
  BY <1>15 DEF DeleteUnlinkRaises
<1>16. ASSUME NEW c \in Calls, DeleteTombstone(c) PROVE QueuedIsOwned'
  BY <1>16 DEF DeleteTombstone
<1>17. ASSUME NEW c \in Calls, RefreshMerge(c) PROVE QueuedIsOwned'
  BY <1>17 DEF RefreshMerge, Merged, Row, IngestStatus
<1>18. ASSUME Restart PROVE QueuedIsOwned'
  BY <1>18 DEF Restart, NoRows
<1>19. ASSUME NEW f \in Files, Ingest(f) PROVE QueuedIsOwned'
  BY <1>19 DEF Ingest, requests
<1>20. CASE UNCHANGED vars
  BY <1>20 DEF vars, requests
<1> QED
  BY <1>1, <1>2, <1>3, <1>4, <1>5, <1>6, <1>7, <1>8, <1>9, <1>10, <1>11, <1>12,
     <1>13, <1>14, <1>15, <1>16, <1>17, <1>18, <1>19, <1>20
     DEF Next, ApiNext, Request, Continue, Upload, Send, Delete

\* No interleaving of the API's requests, nor a restart of it, leaves a record in a
\* transient status that nobody will end, except through an error it swallows or
\* lets through (service.py 34-198, queue.py 105-155, repository.py 68-123).
THEOREM LibraryNoAbandonedRecord == Spec => []NoAbandonedRecord
<1>1. Init => RowsWereSent /\ UnlinkerGoesOn /\ UploadedIsOwned /\ DeletingIsOwned /\ QueuedIsOwned
  BY DEF Init, NoRows, RowsWereSent, UnlinkerGoesOn, UploadedIsOwned, DeletingIsOwned, QueuedIsOwned
<1>2. UploadedIsOwned /\ DeletingIsOwned /\ QueuedIsOwned => NoAbandonedRecord
  BY DEF NoAbandonedRecord
<1> QED
  BY <1>1, <1>2, LibraryTyping, UploadedStep, DeletingStep, UnlinkerStep, RowsStep, QueuedStep, PTL
     DEF Spec

-----------------------------------------------------------------------------
(* The life of one file. *)

\* What an action of request c does to the requests: it moves no other one.
OnlyMoves(c) ==
  \A d \in Calls \ {c} : pc'[d] = pc[d] /\ target'[d] = target[d] /\ fetched'[d] = fetched[d]

\* The table that the mapping reads, row by row.
LEMMA Befores ==
  /\ Writes = {"queue", "send", "mark", "tombstone"}
  /\ Before["queue"] = {"upload_put", "upload_queue", "reprocess_write"}
  /\ Before["send"] = {"upload_enqueue", "reprocess_enqueue"}
  /\ Before["mark"] = {"delete_mark"}
  /\ Before["tombstone"] = {"delete_check", "delete_unlink", "delete_tombstone"}
  /\ \A w \in Writes : "idle" \notin Before[w] /\ "refresh_merge" \notin Before[w]
BY DEF Writes, Before

\* Request c may next write to f what it might before, or one of these.
Adds(c, f, writes) ==
  \A w \in Writes : target'[c] = f /\ pc'[c] \in Before[w] =>
    w \in writes \/ (target[c] = f /\ pc[c] \in Before[w])

WritesNothing(c) == \A w \in Writes : pc[c] \notin Before[w] /\ pc'[c] \notin Before[w]

\* A request that moves on adds to what is allowed only what it may do next.
LEMMA WritersGrowBy ==
  ASSUME NEW c \in Calls, OnlyMoves(c), NEW f \in Files, NEW writes, Adds(c, f, writes)
  PROVE  WritersOf(f)' \in SUBSET (WritersOf(f) \union writes)
<1> SUFFICES ASSUME NEW w \in Writes, NEW d \in Calls, target'[d] = f, pc'[d] \in Before[w]
             PROVE  w \in writes \/ \E e \in Calls : target[e] = f /\ pc[e] \in Before[w]
  BY DEF WritersOf, Serving, Before, Writes
<1>1. CASE d = c
  BY <1>1 DEF Adds
<1>2. CASE d # c
  BY <1>2 DEF OnlyMoves
<1> QED
  BY <1>1, <1>2

\* A refresh is nothing to what requests may write.
LEMMA WritersStay ==
  ASSUME NEW c \in Calls, OnlyMoves(c), WritesNothing(c), NEW f \in Files
  PROVE  WritersOf(f)' = WritersOf(f)
<1>1. \A w \in Writes : Serving(f, Before[w])' <=> Serving(f, Before[w])
  BY DEF WritesNothing, OnlyMoves, Serving
<1> QED
  BY <1>1 DEF WritersOf, Writes, Before

\* A request that is not a refresh leaves what refreshes have read, one that ends
\* takes what it has read with it.
LEMMA ReadsKept ==
  ASSUME NEW c \in Calls, OnlyMoves(c), NEW f \in Files, pc'[c] # "refresh_merge"
  PROVE  /\ RowsRead(f)' \in SUBSET RowsRead(f)
         /\ pc[c] # "refresh_merge" => RowsRead(f)' = RowsRead(f)
BY DEF OnlyMoves, RowsRead

\* A step that changes neither the record nor the row, and allows nothing more, is
\* one the life of the file allows.
LEMMA LeaveStep ==
  ASSUME NEW f \in Files, records'[f] = records[f], documents'[f] = documents[f],
         f \in issued' <=> f \in issued, Sent(f)' <=> Sent(f),
         RowsRead(f)' \in SUBSET RowsRead(f), WritersOf(f)' \in SUBSET WritersOf(f)
  PROVE  Life(f)!Next
BY DEF Life!Next, Life!Leave, Life!Then, Sent

LEMMA LifeInit == ASSUME Init, NEW f \in Files PROVE Life(f)!Init
<1>1. RowsRead(f) = {} /\ WritersOf(f) = {}
  BY DEF Init, RowsRead, WritersOf, Serving, Before, Writes
<1>2. records[f] = "absent" /\ documents[f] = "no_row" /\ f \notin issued
  BY DEF Init, NoRows
<1>3. ~ \E t \in Tasks : messages[t] = f
  BY FilesAssumption DEF Init
<1> QED
  BY <1>1, <1>2, <1>3 DEF Life!Init

\* A request for another file is nothing to f.
LEMMA OtherFile ==
  ASSUME TypeOK, NEW c \in Calls, OnlyMoves(c), NEW f \in Files,
         target'[c] # f, pc'[c] # "refresh_merge", records'[f] = records[f],
         documents' = documents, f \in issued' <=> f \in issued, Sent(f)' <=> Sent(f)
  PROVE  Life(f)!Next
<1>1. WritersOf(f)' \in SUBSET (WritersOf(f) \union {})
  <2>1. Adds(c, f, {})
    BY DEF Adds
  <2> QED
    BY <2>1, WritersGrowBy
<1>2. RowsRead(f)' \in SUBSET RowsRead(f)
  BY ReadsKept
<1> QED
  BY <1>1, <1>2, LeaveStep

\* A request past its guard has a record to write to: only a restart drops one,
\* and it ends every request.
RequestsHaveRecords ==
  \A c \in Calls : pc[c] \notin {"idle", "refresh_merge"} => records[target[c]] # "absent"

LEMMA RequestsHaveRecordsStep ==
  TypeOK /\ RequestsHaveRecords /\ [Next]_vars => RequestsHaveRecords'
<1> SUFFICES ASSUME TypeOK, RequestsHaveRecords, [Next]_vars PROVE RequestsHaveRecords'
  OBVIOUS
<1> USE DEF TypeOK, RequestsHaveRecords, Start, Goto, Return, Transition
<1>1. ASSUME NEW c \in Calls, RefreshRead(c) PROVE RequestsHaveRecords'
  BY <1>1 DEF RefreshRead
<1>2. ASSUME NEW c \in Calls, NEW f \in Files, UploadCreate(c, f) PROVE RequestsHaveRecords'
  BY <1>2 DEF UploadCreate
<1>3. ASSUME NEW c \in Calls, NEW f \in Files, ReprocessRead(c, f) PROVE RequestsHaveRecords'
  BY <1>3 DEF ReprocessRead, Named
<1>4. ASSUME NEW c \in Calls, NEW f \in Files, DeleteRead(c, f) PROVE RequestsHaveRecords'
  BY <1>4 DEF DeleteRead, Named
<1>5. ASSUME NEW c \in Calls, UploadPut(c) PROVE RequestsHaveRecords'
  BY <1>5 DEF UploadPut
<1>6. ASSUME NEW c \in Calls, UploadPutRaises(c) PROVE RequestsHaveRecords'
  BY <1>6 DEF UploadPutRaises
<1>7. ASSUME NEW c \in Calls, UploadQueue(c) PROVE RequestsHaveRecords'
  BY <1>7 DEF UploadQueue
<1>8. ASSUME NEW c \in Calls, Enqueue(c) PROVE RequestsHaveRecords'
  BY <1>8 DEF Enqueue
<1>9. ASSUME NEW c \in Calls, EnqueueRaises(c) PROVE RequestsHaveRecords'
  BY <1>9 DEF EnqueueRaises
<1>10. ASSUME NEW c \in Calls, ReprocessWrite(c) PROVE RequestsHaveRecords'
  BY <1>10 DEF ReprocessWrite
<1>11. ASSUME NEW c \in Calls, DeleteMark(c) PROVE RequestsHaveRecords'
  BY <1>11 DEF DeleteMark
<1>12. ASSUME NEW c \in Calls, DeleteCheck(c) PROVE RequestsHaveRecords'
  BY <1>12 DEF DeleteCheck
<1>13. ASSUME NEW c \in Calls, DeleteUnlink(c) PROVE RequestsHaveRecords'
  BY <1>13 DEF DeleteUnlink
<1>14. ASSUME NEW c \in Calls, DeleteUnlinkTooLate(c) PROVE RequestsHaveRecords'
  BY <1>14 DEF DeleteUnlinkTooLate
<1>15. ASSUME NEW c \in Calls, DeleteUnlinkRaises(c) PROVE RequestsHaveRecords'
  BY <1>15 DEF DeleteUnlinkRaises
<1>16. ASSUME NEW c \in Calls, DeleteTombstone(c) PROVE RequestsHaveRecords'
  BY <1>16 DEF DeleteTombstone
<1>17. ASSUME NEW c \in Calls, RefreshMerge(c) PROVE RequestsHaveRecords'
  BY <1>17 DEF RefreshMerge, Merged, Row, IngestStatus
<1>18. ASSUME Restart PROVE RequestsHaveRecords'
  BY <1>18 DEF Restart
<1>19. ASSUME NEW f \in Files, Ingest(f) PROVE RequestsHaveRecords'
  BY <1>19 DEF Ingest, requests
<1>20. CASE UNCHANGED vars
  BY <1>20 DEF vars, requests
<1> QED
  BY <1>1, <1>2, <1>3, <1>4, <1>5, <1>6, <1>7, <1>8, <1>9, <1>10, <1>11, <1>12,
     <1>13, <1>14, <1>15, <1>16, <1>17, <1>18, <1>19, <1>20
     DEF Next, ApiNext, Request, Continue, Upload, Send, Delete

\* Each step of the API, of its restart or of a worker is one of the life of f.
LEMMA LifeStep ==
  ASSUME TypeOK, RequestsHaveRecords, [Next]_vars, NEW f \in Files
  PROVE  [Life(f)!Next]_(Life(f)!vars)
<1> SUFFICES Life(f)!Next \/ UNCHANGED Life(f)!vars
  OBVIOUS
<1> USE DEF TypeOK, Start, Goto, Return, Transition
<1>1. ASSUME NEW c \in Calls, RefreshRead(c) PROVE Life(f)!Next
  <2>1. RowsRead(f)' = RowsRead(f) \union {documents[f]}
    BY <1>1 DEF RefreshRead, RowsRead
  <2>2. WritersOf(f)' = WritersOf(f)
    <3>1. OnlyMoves(c) /\ WritesNothing(c)
      BY <1>1, Befores DEF RefreshRead, OnlyMoves, WritesNothing
    <3> QED
      BY <3>1, WritersStay
  <2> QED
    BY <1>1, <2>1, <2>2 DEF RefreshRead, Life!Next, Life!Read
<1>2. ASSUME NEW c \in Calls, NEW g \in Files, UploadCreate(c, g) PROVE Life(f)!Next
  <2>1. OnlyMoves(c) /\ target'[c] = g
    BY <1>2 DEF UploadCreate, OnlyMoves
  <2>2. CASE f # g
    BY <1>2, <2>1, <2>2, OtherFile DEF UploadCreate, Sent
  <2>3. CASE f = g
    <3>1. WritersOf(f)' \in SUBSET (WritersOf(f) \union {"queue"})
      <4>1. Adds(c, f, {"queue"})
        BY <1>2, Befores DEF UploadCreate, Adds
      <4> QED
        BY <2>1, <4>1, WritersGrowBy
    <3>2. RowsRead(f)' = RowsRead(f)
      BY <1>2, <2>1, ReadsKept DEF UploadCreate
    <3> QED
      BY <1>2, <2>3, <3>1, <3>2 DEF UploadCreate, Life!Next, Life!Upload, Life!Then
  <2> QED
    BY <2>2, <2>3
<1>3. ASSUME NEW c \in Calls, NEW g \in Files, ReprocessRead(c, g) PROVE Life(f)!Next
  <2>1. OnlyMoves(c) /\ target'[c] = g
    BY <1>3 DEF ReprocessRead, OnlyMoves
  <2>2. CASE f # g
    BY <1>3, <2>1, <2>2, OtherFile DEF ReprocessRead, Sent
  <2>3. CASE f = g
    <3>1. WritersOf(f)' \in SUBSET (WritersOf(f) \union {"mark", "queue"})
      <4>1. Adds(c, f, {"mark", "queue"})
        BY <1>3, Befores DEF ReprocessRead, Adds
      <4> QED
        BY <2>1, <4>1, WritersGrowBy
    <3>2. RowsRead(f)' = RowsRead(f)
      BY <1>3, <2>1, ReadsKept DEF ReprocessRead
    <3> QED
      BY <1>3, <2>3, <3>1, <3>2 DEF ReprocessRead, Named, Life!Next, Life!Accept, Life!Then
  <2> QED
    BY <2>2, <2>3
<1>4. ASSUME NEW c \in Calls, NEW g \in Files, DeleteRead(c, g) PROVE Life(f)!Next
  <2>1. OnlyMoves(c) /\ target'[c] = g
    BY <1>4 DEF DeleteRead, OnlyMoves
  <2>2. CASE f # g
    BY <1>4, <2>1, <2>2, OtherFile DEF DeleteRead, Sent
  <2>3. CASE f = g
    <3>1. WritersOf(f)' \in SUBSET (WritersOf(f) \union {"mark"})
      <4>1. Adds(c, f, {"mark"})
        BY <1>4, Befores DEF DeleteRead, Adds
      <4> QED
        BY <2>1, <4>1, WritersGrowBy
    <3>2. RowsRead(f)' = RowsRead(f)
      BY <1>4, <2>1, ReadsKept DEF DeleteRead
    <3> QED
      BY <1>4, <2>3, <3>1, <3>2 DEF DeleteRead, Named, Life!Next, Life!Accept, Life!Then
  <2> QED
    BY <2>2, <2>3
<1>5. ASSUME NEW c \in Calls, UploadPut(c) PROVE Life(f)!Next
  <2>1. OnlyMoves(c) /\ target[c] \in Files
    BY <1>5 DEF UploadPut, OnlyMoves
  <2>2. WritersOf(f)' \in SUBSET (WritersOf(f) \union {})
    <3>1. Adds(c, f, {})
      BY <1>5, Befores DEF UploadPut, Adds
    <3> QED
      BY <2>1, <3>1, WritersGrowBy
  <2>3. RowsRead(f)' \in SUBSET RowsRead(f)
    BY <1>5, <2>1, ReadsKept DEF UploadPut
  <2> QED
    BY <1>5, <2>2, <2>3, LeaveStep DEF UploadPut, Sent
<1>6. ASSUME NEW c \in Calls, UploadPutRaises(c) PROVE Life(f)!Next
  <2>1. OnlyMoves(c) /\ target[c] \in Files
    BY <1>6 DEF UploadPutRaises, OnlyMoves
  <2>2. WritersOf(f)' \in SUBSET (WritersOf(f) \union {})
    <3>1. Adds(c, f, {})
      BY <1>6, Befores DEF UploadPutRaises, Adds
    <3> QED
      BY <2>1, <3>1, WritersGrowBy
  <2>3. RowsRead(f)' \in SUBSET RowsRead(f)
    BY <1>6, <2>1, ReadsKept DEF UploadPutRaises
  <2> QED
    BY <1>6, <2>2, <2>3, LeaveStep DEF UploadPutRaises, Sent
<1>7. ASSUME NEW c \in Calls, UploadQueue(c) PROVE Life(f)!Next
  <2>1. OnlyMoves(c) /\ target[c] \in Files
    BY <1>7 DEF UploadQueue, OnlyMoves
  <2>2. CASE target[c] # f
    BY <1>7, <2>1, <2>2, OtherFile DEF UploadQueue, Sent
  <2>3. CASE target[c] = f
    <3>1. WritersOf(f)' \in SUBSET (WritersOf(f) \union {"send"})
      <4>1. Adds(c, f, {"send"})
        BY <1>7, Befores DEF UploadQueue, Adds
      <4> QED
        BY <2>1, <4>1, WritersGrowBy
    <3>2. RowsRead(f)' = RowsRead(f)
      BY <1>7, <2>1, ReadsKept DEF UploadQueue
    <3>3. "queue" \in WritersOf(f)
      BY <1>7, <2>3, Befores DEF UploadQueue, WritersOf, Serving
    <3> QED
      BY <1>7, <2>3, <3>1, <3>2, <3>3 DEF UploadQueue, RequestsHaveRecords, Life!Next, Life!Queue, Life!Then
  <2> QED
    BY <2>2, <2>3
<1>8. ASSUME NEW c \in Calls, Enqueue(c) PROVE Life(f)!Next
  <2>1. OnlyMoves(c) /\ target[c] \in Files
    BY <1>8 DEF Enqueue, OnlyMoves
  <2>2. WritersOf(f)' \in SUBSET (WritersOf(f) \union {})
    <3>1. Adds(c, f, {})
      BY <1>8, Befores DEF Enqueue, Adds
    <3> QED
      BY <2>1, <3>1, WritersGrowBy
  <2>3. RowsRead(f)' = RowsRead(f)
    BY <1>8, <2>1, ReadsKept DEF Enqueue
  <2>4. CASE target[c] # f
    BY <1>8, <2>2, <2>3, <2>4, LeaveStep, FilesAssumption DEF Enqueue, Sent
  <2>5. CASE target[c] = f
    <3>1. "send" \in WritersOf(f)
      BY <1>8, <2>5, Befores DEF Enqueue, WritersOf, Serving
    <3> QED
      BY <1>8, <2>2, <2>3, <2>5, <3>1 DEF Enqueue, RequestsHaveRecords, Life!Next, Life!Send, Life!Then
  <2> QED
    BY <2>4, <2>5
<1>9. ASSUME NEW c \in Calls, EnqueueRaises(c) PROVE Life(f)!Next
  <2>1. OnlyMoves(c) /\ target[c] \in Files
    BY <1>9 DEF EnqueueRaises, OnlyMoves
  <2>2. WritersOf(f)' \in SUBSET (WritersOf(f) \union {})
    <3>1. Adds(c, f, {})
      BY <1>9, Befores DEF EnqueueRaises, Adds
    <3> QED
      BY <2>1, <3>1, WritersGrowBy
  <2>3. RowsRead(f)' \in SUBSET RowsRead(f)
    BY <1>9, <2>1, ReadsKept DEF EnqueueRaises
  <2> QED
    BY <1>9, <2>2, <2>3, LeaveStep DEF EnqueueRaises, Sent
<1>10. ASSUME NEW c \in Calls, ReprocessWrite(c) PROVE Life(f)!Next
  <2>1. OnlyMoves(c) /\ target[c] \in Files
    BY <1>10 DEF ReprocessWrite, OnlyMoves
  <2>2. CASE target[c] # f
    BY <1>10, <2>1, <2>2, OtherFile DEF ReprocessWrite, Sent
  <2>3. CASE target[c] = f
    <3>1. WritersOf(f)' \in SUBSET (WritersOf(f) \union {"send"})
      <4>1. Adds(c, f, {"send"})
        BY <1>10, Befores DEF ReprocessWrite, Adds
      <4> QED
        BY <2>1, <4>1, WritersGrowBy
    <3>2. RowsRead(f)' = RowsRead(f)
      BY <1>10, <2>1, ReadsKept DEF ReprocessWrite
    <3>3. "queue" \in WritersOf(f)
      BY <1>10, <2>3, Befores DEF ReprocessWrite, WritersOf, Serving
    <3> QED
      BY <1>10, <2>3, <3>1, <3>2, <3>3 DEF ReprocessWrite, RequestsHaveRecords, Life!Next, Life!Queue, Life!Then
  <2> QED
    BY <2>2, <2>3
<1>11. ASSUME NEW c \in Calls, DeleteMark(c) PROVE Life(f)!Next
  <2>1. OnlyMoves(c) /\ target[c] \in Files
    BY <1>11 DEF DeleteMark, OnlyMoves
  <2>2. CASE target[c] # f
    BY <1>11, <2>1, <2>2, OtherFile DEF DeleteMark, Sent
  <2>3. CASE target[c] = f
    <3>1. WritersOf(f)' \in SUBSET (WritersOf(f) \union {"tombstone"})
      <4>1. Adds(c, f, {"tombstone"})
        BY <1>11, Befores DEF DeleteMark, Adds
      <4> QED
        BY <2>1, <4>1, WritersGrowBy
    <3>2. RowsRead(f)' = RowsRead(f)
      BY <1>11, <2>1, ReadsKept DEF DeleteMark
    <3>3. "mark" \in WritersOf(f)
      BY <1>11, <2>3, Befores DEF DeleteMark, WritersOf, Serving
    <3> QED
      BY <1>11, <2>3, <3>1, <3>2, <3>3 DEF DeleteMark, RequestsHaveRecords, Life!Next, Life!MarkDeleting, Life!Then
  <2> QED
    BY <2>2, <2>3
<1>12. ASSUME NEW c \in Calls, DeleteCheck(c) PROVE Life(f)!Next
  <2>1. OnlyMoves(c) /\ target[c] \in Files
    BY <1>12 DEF DeleteCheck, OnlyMoves
  <2>2. WritersOf(f)' \in SUBSET (WritersOf(f) \union {})
    <3>1. Adds(c, f, {})
      BY <1>12, Befores DEF DeleteCheck, Adds
    <3> QED
      BY <2>1, <3>1, WritersGrowBy
  <2>3. RowsRead(f)' \in SUBSET RowsRead(f)
    BY <1>12, <2>1, ReadsKept DEF DeleteCheck
  <2> QED
    BY <1>12, <2>2, <2>3, LeaveStep DEF DeleteCheck, Sent
<1>13. ASSUME NEW c \in Calls, DeleteUnlink(c) PROVE Life(f)!Next
  <2>1. OnlyMoves(c) /\ target[c] \in Files
    BY <1>13 DEF DeleteUnlink, OnlyMoves
  <2>2. WritersOf(f)' \in SUBSET (WritersOf(f) \union {})
    <3>1. Adds(c, f, {})
      BY <1>13, Befores DEF DeleteUnlink, Adds
    <3> QED
      BY <2>1, <3>1, WritersGrowBy
  <2>3. RowsRead(f)' \in SUBSET RowsRead(f)
    BY <1>13, <2>1, ReadsKept DEF DeleteUnlink
  <2> QED
    BY <1>13, <2>2, <2>3, LeaveStep DEF DeleteUnlink, Sent
<1>14. ASSUME NEW c \in Calls, DeleteUnlinkTooLate(c) PROVE Life(f)!Next
  <2>1. OnlyMoves(c) /\ target[c] \in Files
    BY <1>14 DEF DeleteUnlinkTooLate, OnlyMoves
  <2>2. WritersOf(f)' \in SUBSET (WritersOf(f) \union {})
    <3>1. Adds(c, f, {})
      BY <1>14, Befores DEF DeleteUnlinkTooLate, Adds
    <3> QED
      BY <2>1, <3>1, WritersGrowBy
  <2>3. RowsRead(f)' \in SUBSET RowsRead(f)
    BY <1>14, <2>1, ReadsKept DEF DeleteUnlinkTooLate
  <2> QED
    BY <1>14, <2>2, <2>3, LeaveStep DEF DeleteUnlinkTooLate, Sent
<1>15. ASSUME NEW c \in Calls, DeleteUnlinkRaises(c) PROVE Life(f)!Next
  <2>1. OnlyMoves(c) /\ target[c] \in Files
    BY <1>15 DEF DeleteUnlinkRaises, OnlyMoves
  <2>2. WritersOf(f)' \in SUBSET (WritersOf(f) \union {})
    <3>1. Adds(c, f, {})
      BY <1>15, Befores DEF DeleteUnlinkRaises, Adds
    <3> QED
      BY <2>1, <3>1, WritersGrowBy
  <2>3. RowsRead(f)' \in SUBSET RowsRead(f)
    BY <1>15, <2>1, ReadsKept DEF DeleteUnlinkRaises
  <2> QED
    BY <1>15, <2>2, <2>3, LeaveStep DEF DeleteUnlinkRaises, Sent
<1>16. ASSUME NEW c \in Calls, DeleteTombstone(c) PROVE Life(f)!Next
  <2>1. OnlyMoves(c) /\ target[c] \in Files
    BY <1>16 DEF DeleteTombstone, OnlyMoves
  <2>2. WritersOf(f)' \in SUBSET (WritersOf(f) \union {})
    <3>1. Adds(c, f, {})
      BY <1>16, Befores DEF DeleteTombstone, Adds
    <3> QED
      BY <2>1, <3>1, WritersGrowBy
  <2>3. RowsRead(f)' = RowsRead(f)
    BY <1>16, <2>1, ReadsKept DEF DeleteTombstone
  <2>4. CASE target[c] # f
    BY <1>16, <2>2, <2>3, <2>4, LeaveStep DEF DeleteTombstone, Sent
  <2>5. CASE target[c] = f
    <3>1. "tombstone" \in WritersOf(f)
      BY <1>16, <2>5, Befores DEF DeleteTombstone, WritersOf, Serving
    <3> QED
      BY <1>16, <2>2, <2>3, <2>5, <3>1 DEF DeleteTombstone, RequestsHaveRecords, Life!Next, Life!Tombstone, Life!Then
  <2> QED
    BY <2>4, <2>5
<1>17. ASSUME NEW c \in Calls, RefreshMerge(c) PROVE Life(f)!Next
  <2>1. OnlyMoves(c)
    BY <1>17 DEF RefreshMerge, OnlyMoves
  <2>2. WritersOf(f)' = WritersOf(f)
    <3>1. WritesNothing(c)
      BY <1>17, Befores DEF RefreshMerge, WritesNothing
    <3> QED
      BY <2>1, <3>1, WritersStay
  <2>3. RowsRead(f)' \in SUBSET RowsRead(f)
    BY <1>17, <2>1, ReadsKept DEF RefreshMerge
  <2>4. CASE records'[f] = records[f]
    BY <1>17, <2>2, <2>3, <2>4, LeaveStep DEF RefreshMerge, Sent
  <2>5. CASE records'[f] # records[f]
    <3>1. records'[f] = fetched[c][f] /\ fetched[c][f] # "no_row"
          /\ records[f] \notin {"absent", "deleting", "deleted"}
      BY <1>17, <2>5 DEF RefreshMerge, Merged
    <3>2. fetched[c][f] \in RowsRead(f)
      BY <1>17 DEF RefreshMerge, RowsRead
    <3> QED
      BY <1>17, <2>2, <2>3, <3>1, <3>2 DEF RefreshMerge, Life!Next, Life!Show
  <2> QED
    BY <2>4, <2>5
<1>18. ASSUME Restart PROVE Life(f)!Next
  <2>1. WritersOf(f)' = {}
    <3>1. \A w \in Writes : ~ Serving(f, Before[w])'
      BY <1>18, Befores DEF Restart, Serving
    <3> QED
      BY <3>1 DEF WritersOf, Writes, Before
  <2>2. RowsRead(f)' = {}
    BY <1>18 DEF Restart, RowsRead
  <2> QED
    BY <1>18, <2>1, <2>2 DEF Restart, Life!Next, Life!Forget
<1>19. ASSUME NEW g \in Files, Ingest(g) PROVE Life(f)!Next
  <2>1. WritersOf(f)' = WritersOf(f)
    BY <1>19 DEF Ingest, requests, WritersOf, Serving
  <2>2. RowsRead(f)' = RowsRead(f)
    BY <1>19 DEF Ingest, requests, RowsRead
  <2>3. CASE f = g
    <3>1. documents'[f] \in IngestStatus
      BY <1>19, <2>3, WritesAssumption DEF Ingest
    <3> QED
      BY <1>19, <2>1, <2>2, <2>3, <3>1 DEF Ingest, Life!Next, Life!Report, IngestStatus, Life!IngestStatus
  <2>4. CASE f # g
    BY <1>19, <2>1, <2>2, <2>4, LeaveStep DEF Ingest, Sent
  <2> QED
    BY <2>3, <2>4
<1>20. CASE UNCHANGED vars
  <2>1. WritersOf(f)' = WritersOf(f)
    BY <1>20 DEF vars, requests, WritersOf, Serving
  <2> QED
    BY <1>20, <2>1 DEF vars, requests, Life!vars, RowsRead
<1> QED
  BY <1>1, <1>2, <1>3, <1>4, <1>5, <1>6, <1>7, <1>8, <1>9, <1>10, <1>11, <1>12,
     <1>13, <1>14, <1>15, <1>16, <1>17, <1>18, <1>19, <1>20
     DEF Next, ApiNext, Request, Continue, Upload, Send, Delete

\* The files service keeps for each file the life that FileLife allows, for any number
\* of files, requests and tasks and with every fault (service.py 34-198,
\* repository.py 68-123, queue.py 105-155).
THEOREM LibraryKeepsLives == Spec => LivesKept
<1>1. Init => \A f \in Files : Life(f)!Init
  BY LifeInit
<1>2. TypeOK /\ RequestsHaveRecords /\ [Next]_vars => \A f \in Files : [Life(f)!Next]_(Life(f)!vars)
  BY LifeStep
<1>3. Init => RequestsHaveRecords
  BY DEF Init, RequestsHaveRecords
<1> QED
  BY <1>1, <1>2, <1>3, LibraryTyping, RequestsHaveRecordsStep, PTL DEF Spec, LivesKept

\* A file that has been uploaded and has no record now is given none, whoever is
\* still being served: the steps that give one in FileLife start from an id that was
\* not drawn or from a record.
THEOREM LibraryForgottenStay == Spec => ForgottenStay
<1>1. Init => RequestsHaveRecords
  BY DEF Init, RequestsHaveRecords
<1>2. TypeOK /\ RequestsHaveRecords /\ [Next]_vars =>
        \A f \in Files : f \in issued /\ records[f] = "absent" => records'[f] = "absent"
  <2> SUFFICES ASSUME TypeOK, RequestsHaveRecords, [Next]_vars, NEW f \in Files,
                      f \in issued, records[f] = "absent"
               PROVE  records'[f] = "absent"
    OBVIOUS
  <2>1. [Life(f)!Next]_(Life(f)!vars)
    BY LifeStep
  <2> QED
    BY <2>1
       DEF Life!Next, Life!vars, Life!Upload, Life!Accept, Life!Queue, Life!Send, Life!MarkDeleting,
           Life!Tombstone, Life!Report, Life!Read, Life!Show, Life!Leave, Life!Forget
<1> QED
  BY <1>1, <1>2, LibraryTyping, RequestsHaveRecordsStep, PTL DEF Spec, ForgottenStay
=============================================================================
