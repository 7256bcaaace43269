\* Eight plans of three requests; three instants or one restart in some of them.
SPECIFICATION FairSpec
CONSTANTS
  Requests = {r1, r2, r3}
  NoRequest = NoRequest
  r1 = r1
  r2 = r2
  r3 = r3
  w1 = w1
  w2 = w2
  w3 = w3
  Workspaces = {w1, w2, w3}
  SeedWorkspaces <- MCSeedWorkspaces
  Endpoints <- MCEndpoints
  Plans <- MCPlans
  SessionTtl = 1
  MaxTime = 2
  MaxRestarts = 1
  Files = {f1, f2}
  NoFile = NoFile
  SeedSettings <- MCSeedSettings
  Patches <- MCPatches
INVARIANTS
  NoExpiredSession
  RefusedForReason
  ListsAllWorkspaces
  SettingsUsable
  UpdatesKept
  EveryEnqueueListed
PROPERTIES
  RequestsAnswered
CHECK_DEADLOCK FALSE
