\* One worker, two files, the database up and no crash.
SPECIFICATION FairSpec
CONSTANTS
  Files = {f1, f2}
  Tasks = {t1, t2}
  NoFile = NoFile
  Workers = {w1}
  NoTask = NoTask
  Outputs <- MCOutputs
  OcrOutput = "ocr"
  ChunkCount <- MCChunkCount
  NoOutput = "none"
  Scanned = {f2}
  MaxRetries = 3
  ReadFaults = TRUE
  ParseFaults = TRUE
  DbFaults = FALSE
  Crashes = FALSE
CHECK_DEADLOCK FALSE
PROPERTIES
  PublishedWhole
  TasksEnd
  DocumentSettles
