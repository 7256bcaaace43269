\* Two workers on tasks of one file, every fault and crashes.
SPECIFICATION Spec
CONSTANTS
  Files = {f1}
  Tasks = {t1, t2}
  NoFile = NoFile
  Workers = {w1, w2}
  NoTask = NoTask
  Outputs <- MCOutputs
  OcrOutput = "ocr"
  ChunkCount <- MCChunkCount
  NoOutput = "none"
  Scanned = {f1}
  MaxRetries = 1
  ReadFaults = TRUE
  ParseFaults = TRUE
  DbFaults = TRUE
  Crashes = TRUE
SYMMETRY TaskSymmetry
CHECK_DEADLOCK FALSE
INVARIANTS
  WorkerTypeOK
  ChunksAreWhole
  SearchableUnlessOverlapped
PROPERTIES
  PublishedUnlessOverlapped
