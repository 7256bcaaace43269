------------------------- MODULE MCIngestionWorker -------------------------
(* IngestionWorker on small instances: see the README for the bounds. *)
EXTENDS IngestionWorker, TLC

\* Two parsers that differ, a parse without chunks, and the OCR text.
MCOutputs    == {"docling", "fallback", "empty", "ocr"}
MCChunkCount == [o \in MCOutputs |-> CASE o = "docling" -> 2 [] o = "empty" -> 0 [] OTHER -> 1]

TaskSymmetry == Permutations(Tasks) \union Permutations(Workers)
=============================================================================
