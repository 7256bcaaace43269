--------------------------- MODULE MCUploadAndAsk ---------------------------
(* UploadAndAsk on small instances: see the README for the bounds. *)
EXTENDS UploadAndAsk, TLC

MCBatch == [r \in Requests |-> Files]
\* One file that others use too, and one whose ingestion may fail.
CONSTANTS f1, f2
MCWorkerWrites == (f1 :> {"indexed"}) @@ (f2 :> {"indexed", "failed"})
=============================================================================
