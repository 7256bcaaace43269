------------------------- MODULE MCIndexingPipeline -------------------------
(* IndexingPipeline on small instances: see the README for the bounds. *)
EXTENDS IndexingPipeline

\* Windows without and with overlap, the largest overlap allowed, one that is refused,
\* a minimum above the maximum, which drops all but the last window, and overlaps below
\* zero: one that steps over the end of the text, windows of no characters, which the
\* chunker never gets past, and a window size below zero, which slices from the end.
Chunking(max, overlap, min) ==
  [max_chars |-> max, overlap_chars |-> overlap, min_chunk_chars |-> min]
MCConfigs == {Chunking(3, 0, 1), Chunking(3, 1, 2), Chunking(3, 2, 3), Chunking(2, 2, 1), Chunking(2, 3, 1),
              Chunking(2, 1, 3), Chunking(2, -5, 1), Chunking(0, -1, 1), Chunking(-3, -20, 0)}

\* A long section, one that fits between an empty and a short one, none at all.
MCContents == {<<7>>, <<0, 3, 1>>, <<>>}
=============================================================================
