----------------------------- MODULE FileStatus -----------------------------
(***************************************************************************)
(* The status vocabulary that the API and the workers share.  The API      *)
(* keeps a status in its in-memory file record, the worker keeps one in    *)
(* the row of ingestion_documents, and the record copies the row.          *)
(***************************************************************************)

\* What a worker may write into a document row.
IngestStatus ==
  {"queued", "parsing", "OCR_fallback", "chunking", "embedding", "indexed", "failed"}

\* What only the API writes into a file record.
ApiStatus == {"uploaded", "deleting", "deleted"}

Status == IngestStatus \union ApiStatus

\* A row of ingestion_documents as a reader sees it.  error_message is not kept
\* apart: every UPDATE overwrites it, and passes one exactly with "failed".
Row == IngestStatus \union {"no_row"}
=============================================================================
