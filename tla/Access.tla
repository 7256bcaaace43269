------------------------------- MODULE Access -------------------------------
(***************************************************************************)
(* How a request gets in: the authentication service, built and seeded by  *)
(* the first request that needs it, login sessions that expire, workspace  *)
(* membership.  FastAPI resolves each of a request's dependencies in a     *)
(* pool thread, so the steps of requests interleave; the repository's lock *)
(* is taken by its writers and not by its readers.                         *)
(*                                                                         *)
(* The seed user is the only one there is: nothing else creates,           *)
(* deactivates or removes a user or a membership.  A token is named after  *)
(* the login request that created it.                                      *)
(***************************************************************************)
EXTENDS Integers, Sequences

CONSTANTS
  Requests,
  NoRequest,
  Workspaces,
  SeedWorkspaces,  \* the workspaces of the seed user, in the order of the settings
  Endpoints,       \* the endpoints that ask for a workspace
  Plans,           \* bound: what the requests ask for, when, and after how many restarts
  SessionTtl,      \* session_ttl_minutes
  MaxTime,         \* bound: the last instant
  MaxRestarts      \* bound: restarts of the API process

ASSUME RequestsAssumption   == NoRequest \notin Requests
ASSUME WorkspacesAssumption == SeedWorkspaces \in Seq(Workspaces)
ASSUME EndpointsAssumption  == {"login", "me"} \intersect Endpoints = {}
ASSUME PlansAssumption ==
  Plans \subseteq
    [endpoint  : [Requests -> Endpoints \union {"login", "me"}],
     workspace : [Requests -> Workspaces],
     now       : Nat,
     restarts  : 0 .. MaxRestarts]
ASSUME TimeAssumption       == SessionTtl \in Nat \ {0} /\ MaxTime \in Nat /\ MaxRestarts \in Nat

VARIABLES
  now,          \* the clock
  service,      \* whether _AUTH_SERVICE is set
  user,         \* whether the repository holds the seed user
  memberships,  \* the workspaces it is a member of
  holder,       \* the request inside put_membership, which has the lock for two steps
  sessions,     \* the tokens the repository holds
  expires,      \* the expiry of each token
  at,           \* the call each request performs next
  endpoint,     \* what it asks for
  token,        \* the token it presents
  workspace,    \* the workspace it names
  seeded,       \* how many workspaces it has seeded
  clock,        \* the instant it read before purging expired sessions
  listed,       \* the workspaces its answer lists
  outcome,      \* its answer
  restarts,     \* how often the process was restarted
  builders,     \* history: the requests of this process that found no service
  rebuilt,      \* history: whether two of one process did
  dropped       \* history: the tokens a restart dropped

repository == <<service, user, memberships, holder, sessions>>
given == <<endpoint, token, workspace>>
local == <<seeded, clock, listed>>
accessHistory == <<restarts, builders, rebuilt, dropped>>
accessVars == <<now, repository, expires, at, given, local, outcome, accessHistory>>

Outcomes == {"none", "ok", "401", "403", "400", "gone"}
EntrySteps ==
  {"start", "get_service", "put_user", "put_membership", "append_membership", "enter",
   "put_session", "purge", "get_session"}
AccessSteps == EntrySteps \union {"authorize", "list", "handler", "ended"}

AccessTypeOK ==
  /\ now         \in Nat
  /\ service     \in BOOLEAN
  /\ user        \in BOOLEAN
  /\ memberships \in SUBSET Workspaces
  /\ holder      \in Requests \union {NoRequest}
  /\ sessions    \in SUBSET Requests
  /\ expires     \in [Requests -> Nat]
  /\ endpoint    \in [Requests -> Endpoints \union {"login", "me"}]
  /\ token       \in [Requests -> Requests \union {NoRequest}]
  /\ workspace   \in [Requests -> Workspaces]
  /\ seeded      \in [Requests -> 0 .. Len(SeedWorkspaces)]
  /\ clock       \in [Requests -> Nat]
  /\ listed      \in [Requests -> SUBSET Workspaces]
  /\ outcome     \in [Requests -> Outcomes]
  /\ restarts    \in 0 .. MaxRestarts
  /\ builders    \in SUBSET Requests
  /\ rebuilt     \in BOOLEAN
  /\ dropped     \in SUBSET Requests

AccessInit ==
  /\ service     = FALSE
  /\ user        = FALSE
  /\ memberships = {}
  /\ holder      = NoRequest
  /\ sessions    = {}
  /\ expires     = [r \in Requests |-> 0]
  /\ at          = [r \in Requests |-> "start"]
  /\ \E plan \in Plans :
       /\ endpoint = plan.endpoint /\ workspace = plan.workspace
       /\ now = plan.now /\ restarts = plan.restarts
  /\ token       = [r \in Requests |-> NoRequest]
  /\ seeded      = [r \in Requests |-> 0]
  /\ clock       = [r \in Requests |-> 0]
  /\ listed      = [r \in Requests |-> {}]
  /\ outcome     = [r \in Requests |-> "none"]
  /\ builders    = {}
  /\ rebuilt     = FALSE
  /\ dropped     = {}

-----------------------------------------------------------------------------
Goto(r, call) == at' = [at EXCEPT ![r] = call]

Answer(r, o) ==
  /\ at' = [at EXCEPT ![r] = "ended"]
  /\ outcome' = [outcome EXCEPT ![r] = o]

\* A client presents a token a login gave it, or one that was never valid.
Begin(r, t) ==
  /\ at[r] = "start"
  /\ t # NoRequest => endpoint[t] = "login" /\ outcome[t] = "ok"
  /\ endpoint[r] = "login" => t = NoRequest
  /\ Goto(r, "get_service")
  /\ token' = [token EXCEPT ![r] = t]
  /\ UNCHANGED <<now, repository, expires, endpoint, workspace, local, outcome, accessHistory>>

(* get_auth_service and ensure_seed_user *)

GetService(r) ==
  /\ at[r] = "get_service"
  /\ IF service
       THEN Goto(r, "enter") /\ UNCHANGED <<builders, rebuilt>>
       ELSE /\ Goto(r, "put_user")
            /\ builders' = builders \union {r}
            /\ rebuilt' = (rebuilt \/ builders # {})
  /\ UNCHANGED <<now, repository, expires, given, local, outcome, restarts, dropped>>

\* A second builder finds the user or puts the same one again.
\* (Faulty variant first: the service is published before it is seeded.)
PutUserPublished(r) ==
  /\ at[r] = "put_user"
  /\ holder = NoRequest
  /\ user' = TRUE
  /\ service' = TRUE
  /\ Goto(r, "put_membership")
  /\ UNCHANGED <<now, memberships, holder, sessions, expires, given, local, outcome,
                 accessHistory>>

PutUser(r) ==
  /\ at[r] = "put_user"
  /\ holder = NoRequest
  /\ user' = TRUE
  /\ Goto(r, "put_membership")
  /\ UNCHANGED <<now, service, memberships, holder, sessions, expires, given, local, outcome,
                 accessHistory>>

\* put_membership first filters the old membership out of a new list ...
PutMembership(r) ==
  /\ at[r] = "put_membership"
  /\ seeded[r] < Len(SeedWorkspaces)
  /\ holder = NoRequest
  /\ holder' = r
  /\ memberships' = memberships \ {SeedWorkspaces[seeded[r] + 1]}
  /\ Goto(r, "append_membership")
  /\ UNCHANGED <<now, service, user, sessions, expires, given, local, outcome, accessHistory>>

\* ... and then appends the new one: readers in between find neither.
\* (Faulty variant first: the lock is not given back.)
AppendMembershipLocked(r) ==
  /\ at[r] = "append_membership"
  /\ memberships' = memberships \union {SeedWorkspaces[seeded[r] + 1]}
  /\ seeded' = [seeded EXCEPT ![r] = @ + 1]
  /\ Goto(r, "put_membership")
  /\ UNCHANGED <<now, service, user, holder, sessions, expires, given, clock, listed, outcome,
                 accessHistory>>

AppendMembership(r) ==
  /\ at[r] = "append_membership"
  /\ holder' = NoRequest
  /\ memberships' = memberships \union {SeedWorkspaces[seeded[r] + 1]}
  /\ seeded' = [seeded EXCEPT ![r] = @ + 1]
  /\ Goto(r, "put_membership")
  /\ UNCHANGED <<now, service, user, sessions, expires, given, clock, listed, outcome,
                 accessHistory>>

SetService(r) ==
  /\ at[r] = "put_membership"
  /\ seeded[r] = Len(SeedWorkspaces)
  /\ service' = TRUE
  /\ Goto(r, "enter")
  /\ UNCHANGED <<now, user, memberships, holder, sessions, expires, given, local, outcome,
                 accessHistory>>

\* The service reads the clock: login after the password, authentication first.
Enter(r) ==
  /\ at[r] = "enter"
  /\ clock' = [clock EXCEPT ![r] = now]
  /\ Goto(r, IF endpoint[r] = "login" THEN "put_session" ELSE "purge")
  /\ UNCHANGED <<now, repository, expires, given, seeded, listed, outcome, accessHistory>>

(* AuthService.login *)

\* A wrong e-mail address or password.
LoginRefused(r) ==
  /\ at[r] = "enter" /\ endpoint[r] = "login"
  /\ Answer(r, "401")
  /\ UNCHANGED <<now, repository, expires, given, local, accessHistory>>

PutSession(r) ==
  /\ at[r] = "put_session"
  /\ holder = NoRequest
  /\ sessions' = sessions \union {r}
  /\ expires' = [expires EXCEPT ![r] = clock[r] + SessionTtl]
  /\ Goto(r, "list")
  /\ UNCHANGED <<now, service, user, memberships, holder, given, local, outcome, accessHistory>>

\* The end of login and of /me: without the lock.
ListWorkspaces(r) ==
  /\ at[r] = "list"
  /\ listed' = [listed EXCEPT ![r] = memberships]
  /\ Answer(r, "ok")
  /\ UNCHANGED <<now, repository, expires, given, seeded, clock, accessHistory>>

(* AuthService.authenticate_token and authorize_workspace *)

\* The instant was read before the lock was asked for.
\* (Faulty variants first: a session is kept at the very instant it expires; the
\* purge takes with it the sessions that are about to expire.)
PurgeLater(r) ==
  /\ at[r] = "purge"
  /\ holder = NoRequest
  /\ sessions' = {t \in sessions : expires[t] >= clock[r]}
  /\ Goto(r, "get_session")
  /\ UNCHANGED <<now, service, user, memberships, holder, expires, given, local, outcome,
                 accessHistory>>

PurgeEarly(r) ==
  /\ at[r] = "purge"
  /\ holder = NoRequest
  /\ sessions' = {t \in sessions : expires[t] > clock[r] + 1}
  /\ Goto(r, "get_session")
  /\ UNCHANGED <<now, service, user, memberships, holder, expires, given, local, outcome,
                 accessHistory>>

Purge(r) ==
  /\ at[r] = "purge"
  /\ holder = NoRequest
  /\ sessions' = {t \in sessions : expires[t] > clock[r]}
  /\ Goto(r, "get_session")
  /\ UNCHANGED <<now, service, user, memberships, holder, expires, given, local, outcome,
                 accessHistory>>

Known(r) == token[r] \in sessions /\ user

GetSession(r) ==
  /\ at[r] = "get_session"
  /\ Known(r)
  /\ Goto(r, IF endpoint[r] = "me" THEN "list" ELSE "authorize")
  /\ UNCHANGED <<now, repository, expires, given, local, outcome, accessHistory>>

SessionRefused(r) ==
  /\ at[r] = "get_session"
  /\ ~ Known(r)
  /\ sessions' = sessions \ {token[r]}
  /\ Answer(r, "401")
  /\ UNCHANGED <<now, service, user, memberships, holder, expires, given, local, accessHistory>>

Authorize(r) ==
  /\ at[r] = "authorize"
  /\ IF workspace[r] \in memberships
       THEN Goto(r, "handler") /\ UNCHANGED outcome
       ELSE Answer(r, "403")
  /\ UNCHANGED <<now, repository, expires, given, local, accessHistory>>

-----------------------------------------------------------------------------
Tick ==
  /\ now < MaxTime
  /\ now' = now + 1
  /\ UNCHANGED <<repository, expires, at, given, local, outcome, accessHistory>>

\* The process is restarted: everything it holds is in memory.  Requests under way
\* get no answer.
Restart ==
  /\ restarts < MaxRestarts
  /\ restarts' = restarts + 1
  /\ service' = FALSE /\ user' = FALSE /\ memberships' = {} /\ holder' = NoRequest
  /\ sessions' = {}
  /\ dropped' = dropped \union sessions
  /\ builders' = {}
  /\ at' = [r \in Requests |-> IF at[r] = "start" THEN "start" ELSE "ended"]
  /\ outcome' = [r \in Requests |->
       IF at[r] \in {"start", "ended"} THEN outcome[r] ELSE "gone"]
  /\ UNCHANGED <<now, expires, given, local, rebuilt>>

AccessStep(r) ==
  \/ GetService(r) \/ PutUser(r) \/ PutMembership(r) \/ AppendMembership(r) \/ SetService(r)
  \/ Enter(r) \/ LoginRefused(r) \/ PutSession(r) \/ ListWorkspaces(r)
  \/ Purge(r) \/ GetSession(r) \/ SessionRefused(r) \/ Authorize(r)

AccessBegins == \E r \in Requests, t \in Requests \union {NoRequest} : Begin(r, t)

-----------------------------------------------------------------------------
(* Properties *)

Seed == {SeedWorkspaces[i] : i \in 1 .. Len(SeedWorkspaces)}

Authenticated(r) ==
  /\ endpoint[r] # "login"
  /\ at[r] \notin EntrySteps
  /\ outcome[r] \notin {"401", "gone"}

\* A request gets past authentication only with a session that had not expired when
\* the request arrived there, whatever is purged meanwhile.
\* (AuthService.authenticate_token)
NoExpiredSession ==
  \A r \in Requests : Authenticated(r) =>
    token[r] \in Requests /\ expires[token[r]] > clock[r]

\* A request is refused only for a reason its client can see: no valid token, one that
\* has expired, one a restart has dropped, or a workspace that is not the user's.  Only
\* a service built by two requests at once can refuse a member.
\* (InMemoryAuthRepository.purge_expired_sessions, put_membership, get_auth_service)
RefusedForReason ==
  \A r \in Requests : endpoint[r] # "login" =>
    /\ outcome[r] = "401" =>
         token[r] = NoRequest \/ expires[token[r]] <= now \/ token[r] \in dropped
    /\ outcome[r] = "403" =>
         workspace[r] \notin Seed \/ rebuilt

\* Whoever logs in is told all their workspaces, unless two requests built the service
\* at once.  (AuthService.login, put_membership)
ListsAllWorkspaces ==
  \A r \in Requests : (at[r] = "ended" /\ outcome[r] = "ok" /\ endpoint[r] \in {"login", "me"}) =>
    listed[r] = Seed \/ rebuilt
=============================================================================
