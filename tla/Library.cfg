\* Two requests at once on one file, every storage and dispatch fault.
SPECIFICATION FairSpec
CONSTANTS
  Files = {f1}
  Calls = {c1, c2}
  Tasks = {t1, t2}
  NoFile = NoFile
  WorkerWrites = {"parsing", "indexed", "failed"}
  StorageFaults = TRUE
  DispatchFaults = TRUE
INVARIANTS
  TypeOK
  DeletedObjectGone
  NoAbandonedRecord
PROPERTIES
  RecordConverges
  LivesKept
