\* What the documentation says, against the composition.
SPECIFICATION Spec
CONSTANTS
  Files = {f1}
  Calls = {c1, c2}
  Tasks = {t1, t2}
  NoFile = NoFile
  StorageFaults = FALSE
  DispatchFaults = FALSE
  Workers = {w1}
  NoTask = NoTask
  Outputs <- MCOutputs
  OcrOutput = "ocr"
  ChunkCount <- MCChunkCount
  NoOutput = "none"
  Scanned = {}
  MaxRetries = 1
  ReadFaults = FALSE
  ParseFaults = FALSE
  DbFaults = FALSE
  Crashes = FALSE
INVARIANTS
  DeletedIsNotRetrievable
