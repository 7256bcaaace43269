\* What the documentation says: one file, one poll at a time, nothing fails.
SPECIFICATION FairSpec
CONSTANTS
  Files = {f1, f2}
  NoFile = NoFile
  Requests = {r1}
  Batch <- MCBatch
  Polls = {p1}
  NoRequest = NoRequest
  f1 = f1
  f2 = f2
  WorkerWrites <- MCWorkerWrites
  Shared = {f1}
  UploadFaults = FALSE
  DeleteFaults = FALSE
  DbFaults = FALSE
  AskFaults = FALSE
PROPERTIES
  DeletedIsNotAsked
