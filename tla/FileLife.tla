------------------------------ MODULE FileLife ------------------------------
(***************************************************************************)
(* What the rest of the system may rely on about one file: its record, its *)
(* row, and what requests under way may yet do to the record.  Which       *)
(* requests there are, where their bytes go and who sends their tasks does *)
(* not show.                                                               *)
(***************************************************************************)
EXTENDS FileStatus

VARIABLES
  record,   \* the status in the API's record, or "absent"
  row,      \* the status in the workers' row, or "no_row"
  drawn,    \* whether an upload has drawn the file's id
  sent,     \* whether a task for the file was ever sent
  reads,    \* the rows that refreshes have read and not yet merged
  writers   \* what requests under way have been allowed to write

vars == <<record, row, drawn, sent, reads, writers>>

Init ==
  /\ record = "absent" /\ row = "no_row"
  /\ ~ drawn /\ ~ sent
  /\ reads = {} /\ writers = {}

\* A request is replaced by what it may still do; any other may leave.
Then(next) == writers' \in SUBSET (writers \union next)

\* An id is drawn once: a record that is forgotten does not come back.
Upload ==
  /\ ~ drawn /\ drawn'
  /\ record' = "uploaded"
  /\ Then({"queue"})
  /\ UNCHANGED <<row, sent, reads>>

\* A reprocess needs a record that is not deleted, a delete any record.
Accept ==
  /\ record # "absent"
  /\ Then(IF record = "deleted" THEN {"mark"} ELSE {"mark", "queue"})
  /\ UNCHANGED <<record, row, drawn, sent, reads>>

\* What was allowed when the request came is done whatever has happened since, but to
\* a record that there still is.
Queue ==
  /\ "queue" \in writers /\ record # "absent"
  /\ record' = "queued"
  /\ Then({"send"})
  /\ UNCHANGED <<row, drawn, sent, reads>>

Send ==
  /\ "send" \in writers /\ record # "absent"
  /\ sent'
  /\ Then({})
  /\ UNCHANGED <<record, row, drawn, reads>>

MarkDeleting ==
  /\ "mark" \in writers /\ record # "absent"
  /\ record' = "deleting"
  /\ Then({"tombstone"})
  /\ UNCHANGED <<row, drawn, sent, reads>>

Tombstone ==
  /\ "tombstone" \in writers /\ record # "absent"
  /\ record' = "deleted"
  /\ Then({})
  /\ UNCHANGED <<row, drawn, sent, reads>>

\* Workers write rows of files they were sent a task for.
Report ==
  /\ sent
  /\ row' \in IngestStatus
  /\ UNCHANGED <<record, drawn, sent, reads, writers>>

Read ==
  /\ reads' = reads \union {row}
  /\ UNCHANGED <<record, row, drawn, sent, writers>>

\* A refresh shows what it has read, however old, but never over a delete.
Show ==
  /\ record \notin {"absent", "deleting", "deleted"}
  /\ record' \in reads \ {"no_row"}
  /\ reads' \in SUBSET reads
  /\ UNCHANGED <<row, drawn, sent, writers>>

\* A request ends without another write.
Leave ==
  /\ reads' \in SUBSET reads
  /\ Then({})
  /\ UNCHANGED <<record, row, drawn, sent>>

\* The API forgets the record and every request under way.
Forget ==
  /\ record' = "absent"
  /\ reads' = {} /\ writers' = {}
  /\ UNCHANGED <<row, drawn, sent>>

Next ==
  \/ Upload \/ Accept \/ Queue \/ Send \/ MarkDeleting \/ Tombstone
  \/ Report \/ Read \/ Show \/ Leave \/ Forget

Spec == Init /\ [][Next]_vars
=============================================================================
