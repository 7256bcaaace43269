\* Two runs of one document, one after the other or at once, every fault.
SPECIFICATION FairSpec
CONSTANTS
  Runs = {r1, r2}
  Documents = {d1}
  NoRun = NoRun
  NoDocument = NoDocument
  Contents <- MCContents
  Configs <- MCConfigs
  EmbedFaults = TRUE
  StoreFaults = TRUE
INVARIANTS
  EverySectionCovered
  WindowsOverlap
  IndexedInBoth
  StoresAgree
PROPERTIES
  ChunkerAdvances
  StatusMovesOn
  RunsEnd
CHECK_DEADLOCK FALSE
