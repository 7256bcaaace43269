------------------------- MODULE MCIngestionSystem -------------------------
(* IngestionSystem on small instances: see the README for the bounds. *)
EXTENDS IngestionSystem, TLC

MCOutputs    == {"docling", "ocr"}
MCChunkCount == [o \in MCOutputs |-> 1]
=============================================================================
