\* One request for a batch of two files, two polls at once, every fault.
SPECIFICATION FairSpec
CONSTANTS
  Files = {f1, f2}
  NoFile = NoFile
  Requests = {r1}
  Batch <- MCBatch
  Polls = {p1, p2}
  NoRequest = NoRequest
  f1 = f1
  f2 = f2
  WorkerWrites <- MCWorkerWrites
  Shared = {f1}
  UploadFaults = TRUE
  DeleteFaults = TRUE
  DbFaults = TRUE
  AskFaults = TRUE
INVARIANTS
  AskedInTime
  FailedForReason
PROPERTIES
  LifeCycleUnlessRaced
  RefusedBatchDeleted
  RequestsEnd
