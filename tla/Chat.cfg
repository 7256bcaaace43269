\* The load of the page and up to three moves, two polls at once, at most one mishap.
SPECIFICATION FairSpec
CONSTANTS
  FlowCount = 4
  w1 = w1
  w2 = w2
  w3 = w3
  f1 = f1
  f2 = f2
  g = g
  Flows <- MCFlows
  Sessions <- MCSessions
  NoSession = NoSession
  Workspaces = {w1, w2, w3}
  NoWorkspace = NoWorkspace
  WorkspaceGiven <- MCWorkspaceGiven
  Files = {f1, f2, g}
  WorkspaceOfFile <- MCWorkspaceOfFile
  Libraries <- MCLibraries
  TopK = 2
  MaxMishaps = 1
  Polls = {p1, p2}
  Home = w1
  Plans <- MCPlans
INVARIANTS
  UpdatedWithNewest
  EndShown
  OneSessionShown
  ThreadStored
PROPERTIES
  ConversationsKept
  PollingEnds
  SendingEnds
CHECK_DEADLOCK FALSE
