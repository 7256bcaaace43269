\* Two workers, two tasks of one file, no fault at all.
SPECIFICATION Spec
CONSTANTS
  Files = {f1}
  Tasks = {t1, t2}
  NoFile = NoFile
  Workers = {w1, w2}
  NoTask = NoTask
  Outputs <- MCOutputs
  OcrOutput = "ocr"
  ChunkCount <- MCChunkCount
  NoOutput = "none"
  Scanned = {f1}
  MaxRetries = 1
  ReadFaults = FALSE
  ParseFaults = FALSE
  DbFaults = FALSE
  Crashes = FALSE
SYMMETRY TaskSymmetry
CHECK_DEADLOCK FALSE
INVARIANTS
  IndexedMeansSearchable
