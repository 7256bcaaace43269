------------------------- MODULE AdminConsoleProofs -------------------------
(***************************************************************************)
(* Proofs about AdminConsole and the Access it extends, for any number of  *)
(* requests, workspaces, files and restarts, every seed and every update.  *)
(***************************************************************************)
EXTENDS AdminConsole, TLAPS

\* What a request in the middle of a step has prepared for it.
Placed ==
  \A r \in Requests :
    /\ at[r] = "append_membership" => seeded[r] < Len(SeedWorkspaces)
    /\ Enqueuing(r) => file[r] \in Files

Typed == ConsoleTypeOK /\ Placed

LEMMA SeedFacts ==
  /\ Len(SeedWorkspaces) \in Nat
  /\ \A i \in 1 .. Len(SeedWorkspaces) : SeedWorkspaces[i] \in Workspaces
BY WorkspacesAssumption

LEMMA MergedTyped ==
  ASSUME NEW s \in Settings, NEW p \in Patches
  PROVE  Merged(s, p) \in Settings
BY SettingsAssumption DEF Settings, Merged, Fields

LEMMA ReplaceTyped ==
  ASSUME NEW S \in Seq(Job), NEW j \in Job
  PROVE  [S EXCEPT ![Len(S)] = j] \in Seq(Job)
<1>1. S \in [1 .. Len(S) -> Job] /\ Len(S) \in Nat
  OBVIOUS
<1>2. [S EXCEPT ![Len(S)] = j] \in [1 .. Len(S) -> Job]
  BY <1>1
<1> QED
  BY <1>1, <1>2

LEMMA TypeInit == Init => Typed
<1> SUFFICES ASSUME Init PROVE Typed
  OBVIOUS
<1>1. AccessTypeOK
  <2>1. PICK plan \in Plans : /\ endpoint = plan.endpoint /\ workspace = plan.workspace
                              /\ now = plan.now /\ restarts = plan.restarts
    BY DEF Init, AccessInit
  <2>2. /\ endpoint \in [Requests -> Endpoints \union {"login", "me"}]
        /\ workspace \in [Requests -> Workspaces] /\ now \in Nat /\ restarts \in 0 .. MaxRestarts
    BY <2>1, PlansAssumption
  <2>3. seeded \in [Requests -> 0 .. Len(SeedWorkspaces)]
    BY SeedFacts DEF Init, AccessInit
  <2> QED
    BY <2>2, <2>3 DEF Init, AccessInit, AccessTypeOK, Outcomes
<1>2. <<>> \in Seq(Job) /\ <<>> \in Seq(Requests)
  OBVIOUS
<1> QED
  BY <1>1, <1>2, SettingsAssumption DEF Init, AccessInit, Typed, ConsoleTypeOK, Placed, AccessSteps,
     EntrySteps, Enqueuing

LEMMA AccessTypeStep ==
  ASSUME Typed, NEW r \in Requests, AccessStep(r), UNCHANGED consoleVars
  PROVE  Typed'
<1> USE DEF Typed, ConsoleTypeOK, AccessTypeOK, Placed, Enqueuing, Goto, Answer, consoleVars,
            console, consoleHistory, repository, given, local, accessHistory, AccessSteps,
            EntrySteps, Outcomes
<1>1. CASE GetService(r)
  <2>1. CASE service
    <3>1. UNCHANGED <<builders, rebuilt>> /\ at' = [at EXCEPT ![r] = "enter"]
      BY <1>1, <2>1 DEF GetService
    <3>2. UNCHANGED <<now, repository, expires, given, local, outcome, restarts, dropped>>
      BY <1>1 DEF GetService
    <3> QED
      BY <3>1, <3>2
  <2>2. CASE ~ service
    <3>1. /\ rebuilt' \in BOOLEAN /\ builders' \in SUBSET Requests
          /\ at' = [at EXCEPT ![r] = "put_user"]
      BY <1>1, <2>2 DEF GetService
    <3>2. UNCHANGED <<now, repository, expires, given, local, outcome, restarts, dropped>>
      BY <1>1 DEF GetService
    <3> QED
      BY <3>1, <3>2
  <2> QED
    BY <2>1, <2>2
<1>2. CASE PutUser(r)
  BY <1>2 DEF PutUser
<1>3. CASE PutMembership(r)
  BY <1>3 DEF PutMembership
<1>4. CASE AppendMembership(r)
  <2>1. seeded[r] + 1 \in 0 .. Len(SeedWorkspaces) /\ SeedWorkspaces[seeded[r] + 1] \in Workspaces
    BY <1>4, SeedFacts DEF AppendMembership
  <2> QED
    BY <1>4, <2>1 DEF AppendMembership
<1>5. CASE SetService(r)
  BY <1>5 DEF SetService
<1>6. CASE Enter(r)
  BY <1>6 DEF Enter
<1>7. CASE LoginRefused(r)
  BY <1>7 DEF LoginRefused
<1>8. CASE PutSession(r)
  <2>1. clock[r] + SessionTtl \in Nat
    BY TimeAssumption
  <2> QED
    BY <1>8, <2>1 DEF PutSession
<1>9. CASE ListWorkspaces(r)
  BY <1>9 DEF ListWorkspaces
<1>10. CASE Purge(r)
  BY <1>10 DEF Purge
<1>11. CASE GetSession(r)
  BY <1>11 DEF GetSession
<1>12. CASE SessionRefused(r)
  BY <1>12 DEF SessionRefused
<1>13. CASE Authorize(r)
  <2>1. CASE workspace[r] \in memberships
    <3>1. UNCHANGED outcome /\ at' = [at EXCEPT ![r] = "handler"]
      BY <1>13, <2>1 DEF Authorize
    <3>2. UNCHANGED <<now, repository, expires, given, local, accessHistory>>
      BY <1>13 DEF Authorize
    <3> QED
      BY <3>1, <3>2
  <2>2. CASE workspace[r] \notin memberships
    <3>1. outcome' \in [Requests -> Outcomes] /\ at' = [at EXCEPT ![r] = "ended"]
      BY <1>13, <2>2 DEF Authorize
    <3>2. UNCHANGED <<now, repository, expires, given, local, accessHistory>>
      BY <1>13 DEF Authorize
    <3> QED
      BY <3>1, <3>2
  <2> QED
    BY <2>1, <2>2
<1> QED
  BY <1>1, <1>2, <1>3, <1>4, <1>5, <1>6, <1>7, <1>8, <1>9, <1>10, <1>11, <1>12, <1>13
  DEF AccessStep

LEMMA ConsoleTypeStep ==
  ASSUME Typed, NEW r \in Requests, ConsoleStep(r)
  PROVE  Typed'
<1> USE DEF Typed, ConsoleTypeOK, AccessTypeOK, Placed, Enqueuing, Goto, Answer, consoleVars, console,
            consoleHistory, repository, given, local, accessHistory, unchangedAccess, Outcomes,
            ConsoleSteps
<1>1. CASE Resolve(r)
  <2>1. GlobalOf(r) \in Globals
    BY DEF GlobalOf, Globals
  <2>2. CASE built[GlobalOf(r)] # NoRequest
    <3>1. UNCHANGED <<finders, twice>> /\ at' = [at EXCEPT ![r] = "take"]
      BY <1>1, <2>2 DEF Resolve
    <3>2. UNCHANGED <<unchangedAccess, outcome, console, acked, order, crossed>>
      BY <1>1 DEF Resolve
    <3> QED
      BY <3>1, <3>2
  <2>3. CASE built[GlobalOf(r)] = NoRequest
    <3>1. finders' = [finders EXCEPT ![GlobalOf(r)] = finders[GlobalOf(r)] \union {r}]
          /\ twice' \in {twice, twice \union {GlobalOf(r)}}
          /\ at' = [at EXCEPT ![r] = "assign"]
      BY <1>1, <2>3 DEF Resolve
    <3>2. finders' \in [Globals -> SUBSET Requests] /\ twice' \in SUBSET Globals
      BY <2>1, <3>1
    <3>3. UNCHANGED <<unchangedAccess, outcome, console, acked, order, crossed>>
      BY <1>1 DEF Resolve
    <3> QED
      BY <3>1, <3>2, <3>3
  <2> QED
    BY <2>2, <2>3
<1>2. CASE Assign(r)
  BY <1>2 DEF Assign
<1>3. CASE Take(r)
  <2>1. GlobalOf(r) \in Globals
    BY DEF GlobalOf, Globals
  <2>2. held' \in [Requests -> [Globals -> Requests \union {NoRequest}]]
    BY <1>3, <2>1 DEF Take
  <2> QED
    BY <1>3, <2>2 DEF Take, AccessSteps
<1>4. CASE Show(r)
  BY <1>4 DEF Show, AccessSteps
<1>5. ASSUME NEW p \in Patches, Update(r, p) PROVE Typed'
  <2>1. acked' \in Settings
    BY <1>5, MergedTyped DEF Update, Merged
  <2>2. settings' \in [Requests -> Settings]
    <3>1. CASE held[r]["store"] \in Requests
      BY <1>5, <3>1, MergedTyped DEF Update
    <3>2. CASE held[r]["store"] \notin Requests
      BY <1>5, <3>2 DEF Update
    <3> QED
      BY <3>1, <3>2
  <2> QED
    BY <1>5, <2>1, <2>2 DEF Update, AccessSteps
<1>6. ASSUME NEW p \in Patches, UpdateRefused(r, p) PROVE Typed'
  BY <1>6 DEF UpdateRefused, AccessSteps
<1>7. ASSUME NEW f \in Files, AppendJob(r, f) PROVE Typed'
  <2>1. order' \in Seq(Requests)
    BY <1>7 DEF AppendJob
  <2>2. jobs' \in [Requests -> Seq(Job)]
    <3> DEFINE j == [call |-> r, file |-> f, outcome |-> "none"]
    <3>1. j \in Job
      BY DEF Job
    <3>2. jobs' = [jobs EXCEPT ![held[r]["queue"]] = Append(@, j)]
      BY <1>7 DEF AppendJob
    <3> HIDE DEF j
    <3>3. CASE held[r]["queue"] \in Requests
      <4>1. Append(jobs[held[r]["queue"]], j) \in Seq(Job)
        BY <3>1, <3>3
      <4> QED
        BY <3>2, <4>1
    <3>4. CASE held[r]["queue"] \notin Requests
      BY <3>2, <3>4
    <3> QED
      BY <3>3, <3>4
  <2> QED
    BY <1>7, <2>1, <2>2 DEF AppendJob
<1>8. ASSUME NEW o \in {"sent", "error"}, SendTask(r, o) PROVE Typed'
  BY <1>8 DEF SendTask
<1>9. CASE ReplaceLast(r)
  <2>1. jobs' \in [Requests -> Seq(Job)]
    <3> DEFINE j == [call |-> r, file |-> file[r], outcome |-> sent[r]]
    <3>1. j \in Job
      BY <1>9 DEF Job, ReplaceLast
    <3>2. jobs' = [jobs EXCEPT ![held[r]["queue"]] = [@ EXCEPT ![Len(@)] = j]]
      BY <1>9 DEF ReplaceLast
    <3> HIDE DEF j
    <3> QED
      BY <3>1, <3>2, ReplaceTyped
  <2> QED
    BY <1>9, <2>1 DEF ReplaceLast, AccessSteps
<1> QED
  BY <1>1, <1>2, <1>3, <1>4, <1>5, <1>6, <1>7, <1>8, <1>9 DEF ConsoleStep

LEMMA TypeStep == Typed /\ [Next]_vars => Typed'
<1> SUFFICES ASSUME Typed, [Next]_vars PROVE Typed'
  OBVIOUS
<1>1. ASSUME NEW r \in Requests, Step(r) PROVE Typed'
  BY <1>1, AccessTypeStep, ConsoleTypeStep DEF Step
<1> USE DEF Typed, ConsoleTypeOK, AccessTypeOK, Placed, Enqueuing, Goto, consoleVars, console,
            consoleHistory, repository, given, local, accessHistory, AccessSteps, EntrySteps
<1>2. ASSUME NEW r \in Requests, NEW t \in Requests \union {NoRequest}, Begin(r, t),
             UNCHANGED consoleVars
      PROVE  Typed'
  BY <1>2 DEF Begin
<1>3. CASE Tick /\ UNCHANGED consoleVars
  BY <1>3 DEF Tick
<1>4. CASE RestartConsole
  <2>1. restarts' \in 0 .. MaxRestarts
    BY <1>4, TimeAssumption DEF RestartConsole, Restart
  <2>2. /\ at' \in [Requests -> AccessSteps \union ConsoleSteps]
        /\ outcome' \in [Requests -> Outcomes]
        /\ \A r \in Requests : at'[r] \in {"start", "ended"}
    BY <1>4 DEF RestartConsole, Restart, Outcomes
  <2>3. /\ acked' \in Settings /\ order' \in Seq(Requests) /\ dropped' \in SUBSET Requests
        /\ built' \in [Globals -> Requests \union {NoRequest}]
        /\ finders' \in [Globals -> SUBSET Requests]
    BY <1>4, SettingsAssumption DEF RestartConsole, Restart
  <2> QED
    BY <1>4, <2>1, <2>2, <2>3 DEF RestartConsole, Restart
<1>5. CASE UNCHANGED vars
  BY <1>5 DEF vars, accessVars
<1> QED
  BY <1>1, <1>2, <1>3, <1>4, <1>5 DEF Next, AccessBegins

LEMMA TypedAlways == Spec => []Typed
<1> QED
  BY TypeInit, TypeStep, PTL DEF Spec

\* The types of the API's memory and of every request, whatever the requests and the
\* restarts.  (AuthService, AdminSettingsStore, CeleryDispatchingIngestionQueue)
THEOREM AdminTyping == Spec => []ConsoleTypeOK
<1>1. Typed => ConsoleTypeOK
  BY DEF Typed
<1> QED
  BY <1>1, TypedAlways, PTL

-----------------------------------------------------------------------------
(* Settings *)

LEMMA UsableStep == Typed /\ SettingsUsable /\ [Next]_vars => SettingsUsable'
<1> SUFFICES ASSUME Typed, SettingsUsable, [Next]_vars PROVE SettingsUsable'
  OBVIOUS
<1>1. ASSUME NEW r \in Requests, NEW p \in Patches, Update(r, p) PROVE SettingsUsable'
  <2>1. settings \in [Requests -> Settings] /\ Consistent(Merged(settings[held[r]["store"]], p))
    BY <1>1 DEF Typed, ConsoleTypeOK, Update, Accepted
  <2>2. settings' = [settings EXCEPT ![held[r]["store"]] = Merged(settings[held[r]["store"]], p)]
    BY <1>1 DEF Update
  <2> QED
    BY <2>1, <2>2 DEF SettingsUsable
<1>2. CASE UNCHANGED settings
  BY <1>2 DEF SettingsUsable
<1>3. (\E r \in Requests, p \in Patches : Update(r, p)) \/ UNCHANGED settings
  BY DEF Next, Step, ConsoleStep, Resolve, Assign, Take, Show, UpdateRefused, AppendJob, SendTask,
     ReplaceLast, RestartConsole, vars, consoleVars, console
<1> QED
  BY <1>1, <1>2, <1>3

\* Every store is usable after any sequence of updates by any number of requests.
\* (AdminSettingsStore.update)
THEOREM AdminSettingsUsable == Spec => []SettingsUsable
<1>1. Init => SettingsUsable
  BY SettingsAssumption DEF Init, SettingsUsable
<1> QED
  BY <1>1, TypedAlways, UsableStep, PTL DEF Spec

-----------------------------------------------------------------------------
(* Sessions *)

\* A token was given by a login that is over; past the purge, those still held had not
\* expired when the request arrived.
Tokens ==
  \A r \in Requests :
    /\ outcome[r] # "none" => at[r] = "ended"
    /\ token[r] # NoRequest => token[r] \in Requests /\ at[token[r]] = "ended"
    /\ (at[r] = "get_session" /\ token[r] \in sessions) => expires[token[r]] > clock[r]
    /\ at[r] = "put_session" => endpoint[r] = "login"

Admitted == Typed /\ Tokens /\ NoExpiredSession

LEMMA AdmittedInit == Init => Admitted
BY TypeInit DEF Init, AccessInit, Admitted, Tokens, NoExpiredSession, Authenticated, EntrySteps

\* A step of request r that purges nothing, creates no session and reads no clock.
LEMMA AdmittedKept ==
  ASSUME Admitted, NEW r \in Requests, at[r] \notin {"start", "ended"},
         UNCHANGED <<expires, token, clock, endpoint>>, sessions' \subseteq sessions,
         \A q \in Requests \ {r} : at'[q] = at[q] /\ outcome'[q] = outcome[q],
         at'[r] \notin {"get_session", "put_session"},
         outcome'[r] # outcome[r] => at'[r] = "ended",
         Authenticated(r)' => Authenticated(r) \/ (at[r] = "get_session" /\ token[r] \in sessions)
  PROVE  (Tokens /\ NoExpiredSession)'
<1>1. outcome[r] = "none"
  BY DEF Admitted, Tokens
<1>2. Tokens'
  BY <1>1 DEF Admitted, Tokens
<1>3. ASSUME NEW q \in Requests, Authenticated(q)'
      PROVE  token[q] \in Requests /\ expires[token[q]] > clock[q]
  <2>1. CASE q # r
    <3>1. Authenticated(q)
      BY <1>3, <2>1 DEF Authenticated
    <3> QED
      BY <3>1 DEF Admitted, NoExpiredSession
  <2>2. CASE q = r
    BY <1>3, <2>2 DEF Admitted, NoExpiredSession, Tokens, Typed, ConsoleTypeOK, AccessTypeOK
  <2> QED
    BY <2>1, <2>2
<1> QED
  BY <1>2, <1>3 DEF NoExpiredSession

LEMMA AdmittedStep == Admitted /\ [Next]_vars => Admitted'
<1> SUFFICES ASSUME Admitted, [Next]_vars PROVE Admitted'
  OBVIOUS
<1>1. Typed /\ Typed' /\ Tokens /\ NoExpiredSession
  BY TypeStep DEF Admitted
<1>2. /\ at \in [Requests -> AccessSteps \union ConsoleSteps] /\ outcome \in [Requests -> Outcomes]
      /\ clock \in [Requests -> Nat] /\ expires \in [Requests -> Nat]
      /\ sessions \in SUBSET Requests /\ token \in [Requests -> Requests \union {NoRequest}]
  BY <1>1 DEF Typed, ConsoleTypeOK, AccessTypeOK
<1> USE DEF Goto, Answer, repository, given, local, accessHistory
<1>3. ASSUME NEW r \in Requests,
             GetService(r) \/ PutUser(r) \/ PutMembership(r) \/ AppendMembership(r) \/ SetService(r)
      PROVE  (Tokens /\ NoExpiredSession)'
  <2>1. /\ at[r] \notin {"start", "ended"}
        /\ UNCHANGED <<expires, token, clock, endpoint, sessions, outcome>>
        /\ \A q \in Requests \ {r} : at'[q] = at[q]
        /\ at'[r] \in {"enter", "put_user", "put_membership", "append_membership"}
    BY <1>2, <1>3 DEF GetService, PutUser, PutMembership, AppendMembership, SetService
  <2>2. ~ Authenticated(r)'
    BY <2>1 DEF Authenticated, EntrySteps
  <2> QED
    BY <2>1, <2>2, AdmittedKept
<1>4. ASSUME NEW r \in Requests, Enter(r) PROVE (Tokens /\ NoExpiredSession)'
  <2>1. /\ UNCHANGED <<expires, token, endpoint, sessions, outcome>> /\ at[r] = "enter"
        /\ \A q \in Requests \ {r} : at'[q] = at[q] /\ clock'[q] = clock[q]
        /\ at'[r] \in {"put_session", "purge"}
        /\ at'[r] = "put_session" => endpoint[r] = "login"
    BY <1>2, <1>4 DEF Enter
  <2> QED
    BY <1>1, <2>1 DEF Tokens, NoExpiredSession, Authenticated, EntrySteps
<1>5. ASSUME NEW r \in Requests, PutSession(r) PROVE (Tokens /\ NoExpiredSession)'
  <2>1. /\ UNCHANGED <<token, clock, endpoint, outcome>> /\ at[r] = "put_session"
        /\ sessions' = sessions \union {r}
        /\ \A q \in Requests \ {r} : at'[q] = at[q] /\ expires'[q] = expires[q]
        /\ at'[r] = "list"
    BY <1>2, <1>5 DEF PutSession
  <2>2. \A q \in Requests : token[q] # r
    BY <1>1, <2>1, RequestsAssumption DEF Tokens
  <2>3. \A q \in Requests : token[q] \in Requests => expires'[token[q]] = expires[token[q]]
    BY <2>1, <2>2
  <2>4. Tokens'
    BY <1>1, <1>2, <2>1, <2>2, <2>3 DEF Tokens
  <2>5. \A q \in Requests : Authenticated(q)' => Authenticated(q) \/ q = r
    BY <2>1 DEF Authenticated
  <2>6. endpoint[r] = "login"
    BY <1>1, <2>1 DEF Tokens
  <2>7. NoExpiredSession'
    BY <1>1, <2>1, <2>3, <2>5, <2>6 DEF NoExpiredSession, Authenticated
  <2> QED
    BY <2>4, <2>7
<1>6. ASSUME NEW r \in Requests, Purge(r) PROVE (Tokens /\ NoExpiredSession)'
  <2>1. /\ UNCHANGED <<expires, token, clock, endpoint, outcome>> /\ at[r] = "purge"
        /\ sessions' = {t \in sessions : expires[t] > clock[r]}
        /\ \A q \in Requests \ {r} : at'[q] = at[q]
        /\ at'[r] = "get_session"
    BY <1>2, <1>6 DEF Purge
  <2> QED
    BY <1>1, <2>1 DEF Tokens, NoExpiredSession, Authenticated, EntrySteps
<1>7. ASSUME NEW r \in Requests,
             LoginRefused(r) \/ ListWorkspaces(r) \/ GetSession(r) \/ SessionRefused(r) \/ Authorize(r)
      PROVE  (Tokens /\ NoExpiredSession)'
  <2>1. /\ at[r] \notin {"start", "ended"} /\ UNCHANGED <<expires, token, clock, endpoint>>
        /\ sessions' \subseteq sessions
        /\ \A q \in Requests \ {r} : at'[q] = at[q] /\ outcome'[q] = outcome[q]
        /\ at'[r] \notin {"get_session", "put_session"}
        /\ outcome'[r] # outcome[r] => at'[r] = "ended"
    BY <1>2, <1>7 DEF LoginRefused, ListWorkspaces, GetSession, SessionRefused, Authorize
  <2>2. Authenticated(r)' => Authenticated(r) \/ (at[r] = "get_session" /\ token[r] \in sessions)
    BY <1>1, <1>2, <1>7 DEF LoginRefused, ListWorkspaces, GetSession, SessionRefused, Authorize,
       Authenticated, EntrySteps, Tokens, Known
  <2> QED
    BY <2>1, <2>2, AdmittedKept
<1>8. ASSUME NEW r \in Requests, ConsoleStep(r) PROVE (Tokens /\ NoExpiredSession)'
  <2>1. /\ at[r] \in ConsoleSteps \union {"handler"}
        /\ at'[r] \in ConsoleSteps \union {"handler", "ended"}
        /\ UNCHANGED unchangedAccess
        /\ \A q \in Requests \ {r} : at'[q] = at[q] /\ outcome'[q] = outcome[q]
        /\ outcome'[r] # outcome[r] => at'[r] = "ended"
    BY <1>2, <1>8 DEF ConsoleStep, ConsoleSteps, Resolve, Assign, Take, Show, Update, UpdateRefused,
       AppendJob, SendTask, ReplaceLast
  <2>2. UNCHANGED <<expires, token, clock, endpoint, sessions>>
    BY <2>1 DEF unchangedAccess
  <2>3. Authenticated(r)' => Authenticated(r)
    BY <1>1, <2>1, <2>2 DEF Authenticated, EntrySteps, ConsoleSteps, Tokens
  <2> QED
    BY <2>1, <2>2, <2>3, AdmittedKept DEF ConsoleSteps
<1>9. ASSUME NEW r \in Requests, NEW t \in Requests \union {NoRequest}, Begin(r, t)
      PROVE  (Tokens /\ NoExpiredSession)'
  <2>1. /\ UNCHANGED <<expires, clock, endpoint, sessions, outcome>>
        /\ at[r] = "start" /\ at'[r] = "get_service" /\ token'[r] = t
        /\ t # NoRequest => outcome[t] = "ok"
        /\ \A q \in Requests \ {r} : at'[q] = at[q] /\ token'[q] = token[q]
    BY <1>2, <1>9 DEF Begin
  <2>2. t # NoRequest => at[t] = "ended"
    BY <1>1, <2>1 DEF Tokens
  <2> QED
    BY <1>1, <2>1, <2>2 DEF Tokens, NoExpiredSession, Authenticated, EntrySteps
<1>10. CASE Restart
  <2>1. /\ UNCHANGED <<expires, token, clock, endpoint>> /\ sessions' = {}
        /\ \A q \in Requests :
             /\ at'[q] = IF at[q] = "start" THEN "start" ELSE "ended"
             /\ outcome'[q] = IF at[q] \in {"start", "ended"} THEN outcome[q] ELSE "gone"
    BY <1>10 DEF Restart
  <2>2. \A q \in Requests : Authenticated(q)' => Authenticated(q)
    BY <2>1 DEF Authenticated, EntrySteps
  <2>3. Tokens'
    BY <1>1, <2>1 DEF Tokens
  <2>4. NoExpiredSession'
    <3> SUFFICES ASSUME NEW q \in Requests, Authenticated(q)'
                 PROVE  token[q] \in Requests /\ expires[token[q]] > clock[q]
      BY <2>1 DEF NoExpiredSession
    <3> QED
      BY <1>1, <2>2 DEF NoExpiredSession
  <2> QED
    BY <1>1, <2>3, <2>4 DEF Admitted
<1>11. CASE UNCHANGED <<at, outcome, expires, token, clock, endpoint, sessions>>
  <2>1. Tokens'
    BY <1>1, <1>11 DEF Tokens
  <2>2. NoExpiredSession'
    BY <1>1, <1>11 DEF NoExpiredSession, Authenticated
  <2> QED
    BY <1>1, <2>1, <2>2 DEF Admitted
<1>12. (Tick \/ UNCHANGED vars) => UNCHANGED <<at, outcome, expires, token, clock,
                                               endpoint, sessions>>
  BY DEF Tick, vars, accessVars
<1> QED
  BY <1>1, <1>3, <1>4, <1>5, <1>6, <1>7, <1>8, <1>9, <1>10, <1>11, <1>12
  DEF Admitted, Next, Step, AccessStep, AccessBegins, RestartConsole

\* No request gets in with an expired session, for any number of requests, whatever they
\* purge under one another's feet, and any number of restarts.  (AuthService.authenticate_token)
THEOREM AdminNoExpiredSession == Spec => []NoExpiredSession
<1>1. Admitted => NoExpiredSession
  BY DEF Admitted
<1> QED
  BY <1>1, AdmittedInit, AdmittedStep, PTL DEF Spec

-----------------------------------------------------------------------------
(* The globals *)

Holding == {"apply", "send", "replace"}

\* A request is past a global when it has an instance of it, or is over.
Past(g, q) ==
  \/ held[q][g] # NoRequest
  \/ at[q] = "take" /\ GlobalOf(q) = g
  \/ at[q] = "ended"

\* As long as no two requests found the same global missing, whoever is about to assign
\* it is the first to, and whoever has taken an instance holds the one that is there.
Globally ==
  \A g \in Globals :
    /\ g \notin twice => \A p, q \in finders[g] : p = q
    /\ \A b \in Requests : built[g] = b => Past(g, b)
    /\ \A q \in Requests :
         /\ (at[q] = "assign" /\ GlobalOf(q) = g) =>
              q \in finders[g] /\ (g \notin twice => built[g] = NoRequest)
         /\ (at[q] = "take" /\ GlobalOf(q) = g) => built[g] # NoRequest
         /\ (at[q] # "ended" /\ held[q][g] # NoRequest) =>
              built[g] # NoRequest /\ (g \notin twice => held[q][g] = built[g])

\* The globals are taken one after the other, the queue last.
Taken ==
  \A q \in Requests :
    /\ held[q]["store"] # NoRequest => at[q] \in ConsoleSteps \union {"handler", "ended"}
    /\ held[q]["queue"] # NoRequest => at[q] \in Holding \union {"ended"}
    /\ at[q] \in Holding => \A g \in Needs(q) : held[q][g] # NoRequest
    /\ \A g \in Globals, h \in Requests : held[q][g] = h => Past(g, h)
    /\ Enqueuing(q) => endpoint[q] \in {"upload", "reprocess"}

\* An instance is as new as long as the request it is named after has not assigned it.
Pristine ==
  \A q \in Requests :
    /\ ~ Past("store", q) => settings[q] = SeedSettings
    /\ ~ Past("queue", q) => jobs[q] = <<>>

Unbuilt ==
  /\ built["store"] = NoRequest => acked = SeedSettings
  /\ built["queue"] = NoRequest => order = <<>>

Once == Typed /\ Globally /\ Taken /\ Pristine /\ Unbuilt

LEMMA OnceInit == Init => Once
<1> SUFFICES ASSUME Init PROVE Once
  OBVIOUS
<1>1. \A q \in Requests : at[q] = "start" /\ \A g \in Globals : held[q][g] = NoRequest
  BY DEF Init, AccessInit
<1>2. \A g \in Globals : built[g] = NoRequest /\ finders[g] = {}
  BY DEF Init
<1>3. Globally
  BY <1>1, <1>2, RequestsAssumption DEF Globally
<1>4. Taken /\ Pristine
  BY <1>1, RequestsAssumption DEF Init, Taken, Pristine, Holding, Enqueuing, Globals
<1> QED
  BY <1>3, <1>4, TypeInit DEF Init, Once, Unbuilt

LEMMA GlobalFacts ==
  ASSUME NEW r \in Requests
  PROVE  /\ GlobalOf(r) \in Globals /\ "store" \in Globals /\ "queue" \in Globals
         /\ GlobalOf(r) = "store" => "store" \in Needs(r) /\ held[r]["store"] = NoRequest
         /\ GlobalOf(r) = "queue" => \A g \in Needs(r) \ {"queue"} : held[r][g] # NoRequest
         /\ "queue" \in Needs(r) /\ Needs(r) \subseteq Globals
BY DEF GlobalOf, Globals, Needs

LEMMA OnceTypes ==
  ASSUME Once
  PROVE  /\ built \in [Globals -> Requests \union {NoRequest}]
         /\ held \in [Requests -> [Globals -> Requests \union {NoRequest}]]
         /\ finders \in [Globals -> SUBSET Requests]
         /\ at \in [Requests -> AccessSteps \union ConsoleSteps]
         /\ settings \in [Requests -> Settings] /\ jobs \in [Requests -> Seq(Job)]
BY DEF Once, Typed, ConsoleTypeOK

\* A step of Access.
LEMMA OnceElsewhere ==
  ASSUME Once, UNCHANGED <<endpoint, consoleVars>>,
         \A q \in Requests : at'[q] = at[q] \/ (at'[q] \notin ConsoleSteps /\
                             at[q] \notin ConsoleSteps \union {"handler", "ended"})
  PROVE  (Globally /\ Taken /\ Pristine /\ Unbuilt)'
<1>1. /\ UNCHANGED <<built, held, settings, jobs, finders, twice, acked, order>>
      /\ \A q \in Requests : GlobalOf(q)' = GlobalOf(q) /\ Needs(q)' = Needs(q)
  BY DEF consoleVars, console, consoleHistory, GlobalOf, Needs
<1>2. \A q \in Requests : /\ at[q] = "ended" => at'[q] = "ended"
                          /\ at[q] \in ConsoleSteps \union {"handler"} => at'[q] = at[q]
                          /\ at'[q] \in ConsoleSteps => at'[q] = at[q]
  OBVIOUS
<1>3. \A g \in Globals, q \in Requests : Past(g, q) => Past(g, q)'
  BY <1>1, <1>2 DEF Past, ConsoleSteps
<1>4. Globally'
  <2> SUFFICES ASSUME NEW g \in Globals
               PROVE  /\ g \notin twice => \A p, q \in finders[g] : p = q
                      /\ \A b \in Requests : built[g] = b => Past(g, b)'
                      /\ \A q \in Requests :
                           /\ (at'[q] = "assign" /\ GlobalOf(q) = g) =>
                                q \in finders[g] /\ (g \notin twice => built[g] = NoRequest)
                           /\ (at'[q] = "take" /\ GlobalOf(q) = g) => built[g] # NoRequest
                           /\ (at'[q] # "ended" /\ held[q][g] # NoRequest) =>
                                built[g] # NoRequest /\ (g \notin twice => held[q][g] = built[g])
    BY <1>1 DEF Globally
  <2>1. \A b \in Requests : built[g] = b => Past(g, b)'
    BY <1>3, OnceTypes DEF Once, Globally
  <2> QED
    BY <1>2, <2>1 DEF Once, Globally, ConsoleSteps
<1>5. Taken'
  <2> SUFFICES ASSUME NEW q \in Requests
               PROVE  /\ held[q]["store"] # NoRequest => at'[q] \in ConsoleSteps \union {"handler", "ended"}
                      /\ held[q]["queue"] # NoRequest => at'[q] \in Holding \union {"ended"}
                      /\ at'[q] \in Holding => \A g \in Needs(q) : held[q][g] # NoRequest
                      /\ \A g \in Globals, h \in Requests : held[q][g] = h => Past(g, h)'
                      /\ Enqueuing(q)' => endpoint[q] \in {"upload", "reprocess"}
    BY <1>1 DEF Taken
  <2>1. \A g \in Globals, h \in Requests : held[q][g] = h => Past(g, h)'
    BY <1>3, OnceTypes DEF Once, Taken
  <2> QED
    BY <1>2, <2>1 DEF Once, Taken, Holding, ConsoleSteps, Enqueuing
<1>6. Pristine'
  BY <1>1, <1>3, GlobalFacts DEF Once, Pristine, Globals
<1>7. Unbuilt'
  BY <1>1 DEF Once, Unbuilt
<1> QED
  BY <1>4, <1>5, <1>6, <1>7

LEMMA OnceResolve ==
  ASSUME Once, NEW r \in Requests, Resolve(r)
  PROVE  (Globally /\ Taken /\ Pristine /\ Unbuilt)'
<1> DEFINE m == GlobalOf(r)
<1>1. /\ UNCHANGED <<endpoint, built, held, settings, jobs, acked, order>> /\ at[r] = "handler"
      /\ \A q \in Requests : GlobalOf(q)' = GlobalOf(q) /\ Needs(q)' = Needs(q)
      /\ \A q \in Requests \ {r} : at'[q] = at[q]
  BY OnceTypes DEF Resolve, Goto, unchangedAccess, given, console, GlobalOf, Needs
<1>2. IF built[m] # NoRequest
        THEN at'[r] = "take" /\ UNCHANGED <<finders, twice>>
        ELSE /\ at'[r] = "assign"
             /\ finders' = [finders EXCEPT ![m] = finders[m] \union {r}]
             /\ twice' = IF finders[m] # {} THEN twice \union {m} ELSE twice
  BY OnceTypes DEF Resolve, Goto
<1>3. m \in Globals
  BY GlobalFacts
<1> HIDE DEF m
<1>4. \A g \in Globals, q \in Requests : Past(g, q) => Past(g, q)'
  BY <1>1 DEF Past
<1>5. \A g \in Globals, b \in Requests : built[g] = b => Past(g, b)'
  BY <1>4, OnceTypes DEF Once, Globally
<1>6. /\ twice \subseteq twice' /\ at'[r] \in {"assign", "take"}
      /\ \A g \in Globals : finders[g] \subseteq finders'[g]
  BY <1>2, <1>3, OnceTypes
<1>7. Globally'
  <2> SUFFICES ASSUME NEW g \in Globals
               PROVE  /\ g \notin twice' => \A p, q \in finders'[g] : p = q
                      /\ \A b \in Requests : built[g] = b => Past(g, b)'
                      /\ \A q \in Requests :
                           /\ (at'[q] = "assign" /\ GlobalOf(q) = g) =>
                                q \in finders'[g] /\ (g \notin twice' => built[g] = NoRequest)
                           /\ (at'[q] = "take" /\ GlobalOf(q) = g) => built[g] # NoRequest
                           /\ (at'[q] # "ended" /\ held[q][g] # NoRequest) =>
                                built[g] # NoRequest /\ (g \notin twice' => held[q][g] = built[g])
    BY <1>1 DEF Globally
  <2>1. g \notin twice' => \A p, q \in finders'[g] : p = q
    BY <1>2, <1>3, OnceTypes DEF Once, Globally
  <2>2. ASSUME NEW q \in Requests \ {r}
        PROVE  /\ (at'[q] = "assign" /\ GlobalOf(q) = g) =>
                    q \in finders'[g] /\ (g \notin twice' => built[g] = NoRequest)
               /\ (at'[q] = "take" /\ GlobalOf(q) = g) => built[g] # NoRequest
               /\ (at'[q] # "ended" /\ held[q][g] # NoRequest) =>
                    built[g] # NoRequest /\ (g \notin twice' => held[q][g] = built[g])
    BY <1>1, <1>6 DEF Once, Globally
  <2>3. /\ (at'[r] = "assign" /\ m = g) => r \in finders'[g] /\ built[g] = NoRequest
        /\ (at'[r] = "take" /\ m = g) => built[g] # NoRequest
    BY <1>2, <1>3, OnceTypes
  <2>4. held[r][g] # NoRequest => built[g] # NoRequest /\ (g \notin twice' => held[r][g] = built[g])
    BY <1>1, <1>6 DEF Once, Globally
  <2> QED
    BY <1>5, <2>1, <2>2, <2>3, <2>4 DEF m
<1>8. Taken'
  <2> SUFFICES ASSUME NEW q \in Requests
               PROVE  /\ held[q]["store"] # NoRequest => at'[q] \in ConsoleSteps \union {"handler", "ended"}
                      /\ held[q]["queue"] # NoRequest => at'[q] \in Holding \union {"ended"}
                      /\ at'[q] \in Holding => \A g \in Needs(q) : held[q][g] # NoRequest
                      /\ \A g \in Globals, h \in Requests : held[q][g] = h => Past(g, h)'
                      /\ Enqueuing(q)' => endpoint[q] \in {"upload", "reprocess"}
    BY <1>1 DEF Taken
  <2>1. \A g \in Globals, h \in Requests : held[q][g] = h => Past(g, h)'
    BY <1>4, OnceTypes DEF Once, Taken
  <2> QED
    BY <1>1, <1>6, <2>1 DEF Once, Taken, Holding, ConsoleSteps, Enqueuing
<1>9. Pristine'
  BY <1>1, <1>4, GlobalFacts DEF Once, Pristine
<1>10. Unbuilt'
  BY <1>1 DEF Once, Unbuilt
<1> QED
  BY <1>7, <1>8, <1>9, <1>10

\* A fresh instance takes the place of none, as long as its builder is the only one.
LEMMA OnceAssign ==
  ASSUME Once, NEW r \in Requests, Assign(r)
  PROVE  (Globally /\ Taken /\ Pristine /\ Unbuilt)'
<1> DEFINE m == GlobalOf(r)
<1>1. /\ UNCHANGED <<endpoint, held, settings, jobs, acked, order, finders, twice>>
      /\ at[r] = "assign" /\ at'[r] = "take"
      /\ \A q \in Requests : GlobalOf(q)' = GlobalOf(q) /\ Needs(q)' = Needs(q)
      /\ \A q \in Requests \ {r} : at'[q] = at[q]
      /\ built'[m] = r /\ \A g \in Globals \ {m} : built'[g] = built[g]
  BY OnceTypes, GlobalFacts DEF Assign, Goto, unchangedAccess, given, consoleHistory, GlobalOf, Needs
<1>2. r # NoRequest /\ m \in Globals
  BY RequestsAssumption, GlobalFacts
<1>3. \A g \in Globals : g = m => Past(g, r)'
  BY <1>1 DEF Past
<1> HIDE DEF m
<1>4. \A g \in Globals, q \in Requests : Past(g, q) => Past(g, q)'
  BY <1>1 DEF Past
<1>5. Globally'
  <2> SUFFICES ASSUME NEW g \in Globals
               PROVE  /\ g \notin twice => \A p, q \in finders[g] : p = q
                      /\ \A b \in Requests : built'[g] = b => Past(g, b)'
                      /\ \A q \in Requests :
                           /\ (at'[q] = "assign" /\ GlobalOf(q) = g) =>
                                q \in finders[g] /\ (g \notin twice => built'[g] = NoRequest)
                           /\ (at'[q] = "take" /\ GlobalOf(q) = g) => built'[g] # NoRequest
                           /\ (at'[q] # "ended" /\ held[q][g] # NoRequest) =>
                                built'[g] # NoRequest /\ (g \notin twice => held[q][g] = built'[g])
    BY <1>1 DEF Globally
  <2>1. \A b \in Requests : built'[g] = b => Past(g, b)'
    <3>1. CASE g = m
      BY <1>1, <1>3, <3>1
    <3>2. CASE g # m
      BY <1>1, <1>4, <3>2, OnceTypes DEF Once, Globally
    <3> QED
      BY <3>1, <3>2
  <2>2. CASE g # m
    BY <1>1, <2>1, <2>2 DEF Once, Globally, m
  <2>3. CASE g = m
    <3>1. r \in finders[g] /\ (g \notin twice => built[g] = NoRequest)
      BY <1>1, <2>3 DEF Once, Globally, m
    <3>2. built'[g] # NoRequest
      BY <1>1, <1>2, <2>3
    <3>3. ASSUME g \notin twice, NEW q \in Requests
          PROVE  /\ at'[q] = "assign" => GlobalOf(q) # g
                 /\ at'[q] # "ended" => held[q][g] = NoRequest
      BY <1>1, <3>1, <3>3 DEF Once, Globally
    <3>4. \A q \in Requests : (at'[q] = "assign" /\ GlobalOf(q) = g) => q \in finders[g]
      BY <1>1 DEF Once, Globally
    <3> QED
      BY <2>1, <3>2, <3>3, <3>4 DEF Once, Globally
  <2> QED
    BY <2>2, <2>3
<1>6. Taken'
  <2> SUFFICES ASSUME NEW q \in Requests
               PROVE  /\ held[q]["store"] # NoRequest => at'[q] \in ConsoleSteps \union {"handler", "ended"}
                      /\ held[q]["queue"] # NoRequest => at'[q] \in Holding \union {"ended"}
                      /\ at'[q] \in Holding => \A g \in Needs(q) : held[q][g] # NoRequest
                      /\ \A g \in Globals, h \in Requests : held[q][g] = h => Past(g, h)'
                      /\ Enqueuing(q)' => endpoint[q] \in {"upload", "reprocess"}
    BY <1>1 DEF Taken
  <2>1. \A g \in Globals, h \in Requests : held[q][g] = h => Past(g, h)'
    BY <1>4, OnceTypes DEF Once, Taken
  <2> QED
    BY <1>1, <2>1 DEF Once, Taken, Holding, ConsoleSteps, Enqueuing
<1>7. Pristine'
  BY <1>1, <1>4, GlobalFacts DEF Once, Pristine
<1>8. Unbuilt'
  BY <1>1, <1>2 DEF Once, Unbuilt, Globals
<1> QED
  BY <1>5, <1>6, <1>7, <1>8

LEMMA OnceTake ==
  ASSUME Once, NEW r \in Requests, Take(r)
  PROVE  (Globally /\ Taken /\ Pristine /\ Unbuilt)'
<1> DEFINE m == GlobalOf(r)
<1>1. /\ UNCHANGED <<endpoint, built, settings, jobs, acked, order, finders, twice>>
      /\ at[r] = "take" /\ at'[r] = IF m = "store" THEN "handler" ELSE "apply"
      /\ \A q \in Requests \ {r} : at'[q] = at[q] /\ held'[q] = held[q]
      /\ held' = [held EXCEPT ![r][m] = built[m]]
  BY OnceTypes DEF Take, Goto, unchangedAccess, given, consoleHistory
<1>2. /\ \A q \in Requests : Needs(q)' = Needs(q)
      /\ \A q \in Requests \ {r} : GlobalOf(q)' = GlobalOf(q)
  BY <1>1 DEF GlobalOf, Needs
<1>3. m \in Globals /\ built[m] # NoRequest /\ built[m] \in Requests
  BY <1>1, OnceTypes, GlobalFacts DEF Once, Globally
<1>4. held'[r][m] = built[m] /\ \A g \in Globals \ {m} : held'[r][g] = held[r][g]
  BY <1>1, <1>3, OnceTypes
<1>5. (m = "queue" => \A g \in Needs(r) \ {"queue"} : held[r][g] # NoRequest) /\ m \in {"store", "queue"}
  BY GlobalFacts DEF Globals
<1>6. ASSUME NEW g \in Globals, NEW q \in Requests, Past(g, q) PROVE Past(g, q)'
  <2>1. CASE q # r
    BY <1>1, <1>2, <1>6, <2>1 DEF Past
  <2>2. CASE q = r
    <3>1. held[r][g] # NoRequest \/ m = g
      BY <1>1, <1>6, <2>2 DEF Past
    <3>2. held'[r][g] # NoRequest
      BY <1>3, <1>4, <3>1
    <3> QED
      BY <2>2, <3>2 DEF Past
  <2> QED
    BY <2>1, <2>2
<1> HIDE DEF m
<1>7. at'[r] \in {"handler", "apply"}
  BY <1>1
<1>8. Globally'
  <2> SUFFICES ASSUME NEW g \in Globals
               PROVE  /\ g \notin twice => \A p, q \in finders[g] : p = q
                      /\ \A b \in Requests : built[g] = b => Past(g, b)'
                      /\ \A q \in Requests :
                           /\ (at'[q] = "assign" /\ GlobalOf(q)' = g) =>
                                q \in finders[g] /\ (g \notin twice => built[g] = NoRequest)
                           /\ (at'[q] = "take" /\ GlobalOf(q)' = g) => built[g] # NoRequest
                           /\ (at'[q] # "ended" /\ held'[q][g] # NoRequest) =>
                                built[g] # NoRequest /\ (g \notin twice => held'[q][g] = built[g])
    BY <1>1 DEF Globally
  <2>1. \A b \in Requests : built[g] = b => Past(g, b)'
    BY <1>6, OnceTypes DEF Once, Globally
  <2>2. ASSUME NEW q \in Requests \ {r}
        PROVE  /\ (at'[q] = "assign" /\ GlobalOf(q)' = g) =>
                    q \in finders[g] /\ (g \notin twice => built[g] = NoRequest)
               /\ (at'[q] = "take" /\ GlobalOf(q)' = g) => built[g] # NoRequest
               /\ (at'[q] # "ended" /\ held'[q][g] # NoRequest) =>
                    built[g] # NoRequest /\ (g \notin twice => held'[q][g] = built[g])
    BY <1>1, <1>2 DEF Once, Globally
  <2>3. held'[r][g] # NoRequest =>
          built[g] # NoRequest /\ (g \notin twice => held'[r][g] = built[g])
    BY <1>1, <1>3, <1>4 DEF Once, Globally
  <2> QED
    BY <1>7, <2>1, <2>2, <2>3 DEF Once, Globally
<1>9. Taken'
  <2> SUFFICES ASSUME NEW q \in Requests
               PROVE  /\ held'[q]["store"] # NoRequest => at'[q] \in ConsoleSteps \union {"handler", "ended"}
                      /\ held'[q]["queue"] # NoRequest => at'[q] \in Holding \union {"ended"}
                      /\ at'[q] \in Holding => \A g \in Needs(q) : held'[q][g] # NoRequest
                      /\ \A g \in Globals, h \in Requests : held'[q][g] = h => Past(g, h)'
                      /\ Enqueuing(q)' => endpoint[q] \in {"upload", "reprocess"}
    BY <1>1, <1>2 DEF Taken
  <2>1. CASE q # r
    <3>1. \A g \in Globals, h \in Requests : held[q][g] = h => Past(g, h)'
      BY <1>6, OnceTypes DEF Once, Taken
    <3> QED
      BY <1>1, <2>1, <3>1 DEF Once, Taken, Enqueuing
  <2>2. CASE q = r
    <3>1. \A g \in Globals, h \in Requests : held'[r][g] = h => Past(g, h)'
      <4>1. \A g \in Globals, h \in Requests : built[g] = h \/ held[r][g] = h => Past(g, h)
        BY DEF Once, Taken, Globally
      <4>2. \A g \in Globals : held'[r][g] = built[g] \/ held'[r][g] = held[r][g]
        BY <1>4
      <4> QED
        BY <1>6, <4>1, <4>2
    <3>2. held'[r]["queue"] # NoRequest => at'[r] = "apply"
      <4>1. held[r]["queue"] = NoRequest
        BY <1>1 DEF Once, Taken, Holding
      <4> QED
        BY <1>1, <1>4, <1>5, <4>1, GlobalFacts
    <3>3. at'[r] \in Holding => \A g \in Needs(r) : held'[r][g] # NoRequest
      BY <1>1, <1>3, <1>4, <1>5, GlobalFacts DEF Holding
    <3> QED
      BY <1>7, <2>2, <3>1, <3>2, <3>3 DEF Holding, ConsoleSteps, Enqueuing
  <2> QED
    BY <2>1, <2>2
<1>10. Pristine'
  BY <1>1, <1>6, GlobalFacts DEF Once, Pristine
<1>11. Unbuilt'
  BY <1>1 DEF Once, Unbuilt
<1> QED
  BY <1>8, <1>9, <1>10, <1>11

\* A step of a request that works on the instances it holds.
LEMMA OnceApply ==
  ASSUME Once, NEW r \in Requests, at[r] \in Holding, at'[r] \in Holding \union {"ended"},
         UNCHANGED <<endpoint, built, held, finders, twice>>,
         \A q \in Requests \ {r} : at'[q] = at[q],
         \A q \in Requests \ {held[r]["store"]} : settings'[q] = settings[q],
         \A q \in Requests \ {held[r]["queue"]} : jobs'[q] = jobs[q],
         Enqueuing(r)' => endpoint[r] \in {"upload", "reprocess"},
         (settings' = settings /\ acked' = acked) \/ "store" \in Needs(r),
         order' = order \/ "queue" \in Needs(r)
  PROVE  (Globally /\ Taken /\ Pristine /\ Unbuilt)'
<1>1. \A q \in Requests : GlobalOf(q)' = GlobalOf(q) /\ Needs(q)' = Needs(q)
  BY DEF GlobalOf, Needs
<1>2. \A g \in Needs(r) : /\ held[r][g] \in Requests /\ Past(g, held[r][g])
                          /\ built[g] # NoRequest
  BY OnceTypes, GlobalFacts DEF Once, Taken, Globally, Holding
<1>3. \A g \in Globals, q \in Requests : Past(g, q) => Past(g, q)'
  BY <1>1 DEF Past, Holding
<1>4. Globally'
  <2> SUFFICES ASSUME NEW g \in Globals
               PROVE  /\ g \notin twice => \A p, q \in finders[g] : p = q
                      /\ \A b \in Requests : built[g] = b => Past(g, b)'
                      /\ \A q \in Requests :
                           /\ (at'[q] = "assign" /\ GlobalOf(q) = g) =>
                                q \in finders[g] /\ (g \notin twice => built[g] = NoRequest)
                           /\ (at'[q] = "take" /\ GlobalOf(q) = g) => built[g] # NoRequest
                           /\ (at'[q] # "ended" /\ held[q][g] # NoRequest) =>
                                built[g] # NoRequest /\ (g \notin twice => held[q][g] = built[g])
    BY <1>1 DEF Globally
  <2>1. \A b \in Requests : built[g] = b => Past(g, b)'
    BY <1>3, OnceTypes DEF Once, Globally
  <2>2. \A q \in Requests : /\ at'[q] \in {"assign", "take"} => at'[q] = at[q]
                            /\ at'[q] # "ended" => at[q] # "ended"
    BY DEF Holding
  <2> QED
    BY <2>1, <2>2 DEF Once, Globally
<1>5. Taken'
  <2> SUFFICES ASSUME NEW q \in Requests
               PROVE  /\ held[q]["store"] # NoRequest => at'[q] \in ConsoleSteps \union {"handler", "ended"}
                      /\ held[q]["queue"] # NoRequest => at'[q] \in Holding \union {"ended"}
                      /\ at'[q] \in Holding => \A g \in Needs(q) : held[q][g] # NoRequest
                      /\ \A g \in Globals, h \in Requests : held[q][g] = h => Past(g, h)'
                      /\ Enqueuing(q)' => endpoint[q] \in {"upload", "reprocess"}
    BY <1>1 DEF Taken
  <2>1. \A g \in Globals, h \in Requests : held[q][g] = h => Past(g, h)'
    BY <1>3, OnceTypes DEF Once, Taken
  <2> QED
    BY <2>1 DEF Once, Taken, Holding, ConsoleSteps, Enqueuing
<1>6. Pristine'
  <2> SUFFICES ASSUME NEW q \in Requests
               PROVE  /\ ~ Past("store", q)' => settings'[q] = SeedSettings
                      /\ ~ Past("queue", q)' => jobs'[q] = <<>>
    BY DEF Pristine
  <2>1. ~ Past("store", q)' => settings'[q] = SeedSettings
    BY <1>2, <1>3, GlobalFacts DEF Once, Pristine
  <2>2. ~ Past("queue", q)' => jobs'[q] = <<>>
    BY <1>2, <1>3, GlobalFacts DEF Once, Pristine
  <2> QED
    BY <2>1, <2>2
<1>7. Unbuilt'
  BY <1>2 DEF Once, Unbuilt
<1> QED
  BY <1>4, <1>5, <1>6, <1>7

\* The steps of a request that has taken its instances.
Works(r) ==
  \/ Show(r)
  \/ \E p \in Patches : Update(r, p) \/ UpdateRefused(r, p)
  \/ \E f \in Files : AppendJob(r, f)
  \/ \E o \in {"sent", "error"} : SendTask(r, o)
  \/ ReplaceLast(r)

LEMMA OnceWorks ==
  ASSUME Once, NEW r \in Requests, Works(r)
  PROVE  (Globally /\ Taken /\ Pristine /\ Unbuilt)'
<1> DEFINE Facts ==
      /\ at[r] \in Holding /\ at'[r] \in Holding \union {"ended"}
      /\ UNCHANGED <<endpoint, built, held, finders, twice>>
      /\ \A q \in Requests \ {r} : at'[q] = at[q]
      /\ \A q \in Requests \ {held[r]["store"]} : settings'[q] = settings[q]
      /\ \A q \in Requests \ {held[r]["queue"]} : jobs'[q] = jobs[q]
      /\ (settings' = settings /\ acked' = acked) \/ endpoint[r] = "patch_settings"
      /\ Enqueuing(r)' => endpoint[r] \in {"upload", "reprocess"}
<1>1. Facts
  <2> USE DEF Goto, Answer, unchangedAccess, given, consoleVars, console, consoleHistory, Holding,
              Enqueuing, Once, Typed, ConsoleTypeOK
  <2>1. CASE Show(r)
    BY <2>1 DEF Show
  <2>2. ASSUME NEW p \in Patches, Update(r, p) \/ UpdateRefused(r, p) PROVE Facts
    BY <2>2 DEF Update, UpdateRefused
  <2>3. ASSUME NEW f \in Files, AppendJob(r, f) PROVE Facts
    BY <2>3 DEF AppendJob
  <2>4. ASSUME NEW o \in {"sent", "error"}, SendTask(r, o) PROVE Facts
    BY <2>4 DEF SendTask, Taken
  <2>5. CASE ReplaceLast(r)
    BY <2>5 DEF ReplaceLast
  <2> QED
    BY <2>1, <2>2, <2>3, <2>4, <2>5 DEF Works
<1>2. (endpoint[r] = "patch_settings" => "store" \in Needs(r)) /\ "queue" \in Needs(r)
  BY DEF Needs, Globals
<1> QED
  BY <1>1, <1>2, OnceApply

LEMMA OnceStep == Once /\ [Next]_vars => Once'
<1> SUFFICES ASSUME Once, [Next]_vars PROVE Once'
  OBVIOUS
<1>1. Typed'
  BY TypeStep DEF Once
<1>2. at \in [Requests -> AccessSteps \union ConsoleSteps]
  BY OnceTypes
<1> USE DEF Goto, Answer, given
<1>3. ASSUME NEW r \in Requests, AccessStep(r), UNCHANGED consoleVars
      PROVE  (Globally /\ Taken /\ Pristine /\ Unbuilt)'
  <2>1. /\ at[r] \notin ConsoleSteps \union {"handler", "ended"} /\ at'[r] \notin ConsoleSteps
        /\ \A q \in Requests \ {r} : at'[q] = at[q]
    BY <1>2, <1>3 DEF AccessStep, GetService, PutUser, PutMembership, AppendMembership, SetService,
       Enter, LoginRefused, PutSession, ListWorkspaces, Purge, GetSession, SessionRefused,
       Authorize, ConsoleSteps
  <2>2. UNCHANGED endpoint
    BY <1>3 DEF AccessStep, GetService, PutUser, PutMembership, AppendMembership, SetService,
       Enter, LoginRefused, PutSession, ListWorkspaces, Purge, GetSession, SessionRefused,
       Authorize
  <2> QED
    BY <1>3, <2>1, <2>2, OnceElsewhere
<1>4. ASSUME NEW r \in Requests, ConsoleStep(r) PROVE (Globally /\ Taken /\ Pristine /\ Unbuilt)'
  BY <1>4, OnceResolve, OnceAssign, OnceTake, OnceWorks DEF ConsoleStep, Works
<1>5. ASSUME NEW r \in Requests, NEW t \in Requests \union {NoRequest}, Begin(r, t),
             UNCHANGED consoleVars
      PROVE  (Globally /\ Taken /\ Pristine /\ Unbuilt)'
  <2>1. /\ at[r] = "start" /\ at'[r] = "get_service" /\ UNCHANGED endpoint
        /\ \A q \in Requests \ {r} : at'[q] = at[q]
    BY <1>2, <1>5 DEF Begin
  <2> QED
    BY <1>5, <2>1, OnceElsewhere DEF ConsoleSteps
<1>6. CASE RestartConsole
  <2>1. /\ \A q \in Requests : at'[q] = IF at[q] = "start" THEN "start" ELSE "ended"
        /\ UNCHANGED <<endpoint, held, settings, jobs, twice>>
        /\ \A g \in Globals : built'[g] = NoRequest /\ finders'[g] = {}
        /\ acked' = SeedSettings /\ order' = <<>>
    BY <1>6 DEF RestartConsole, Restart
  <2>2. \A q \in Requests, g \in Globals : at[q] = "start" => held[q][g] = NoRequest /\ ~ Past(g, q)
    BY DEF Once, Taken, Past, Holding, ConsoleSteps, Globals
  <2>3. \A q \in Requests, g \in Globals : Past(g, q)' <=> at[q] # "start"
    BY <2>1, <2>2 DEF Past
  <2>4. Globally'
    BY <2>1, <2>2, RequestsAssumption DEF Globally
  <2>5. Taken'
    <3> SUFFICES ASSUME NEW q \in Requests
                 PROVE  /\ held[q]["store"] # NoRequest => at'[q] = "ended"
                        /\ held[q]["queue"] # NoRequest => at'[q] = "ended"
                        /\ at'[q] \notin Holding /\ ~ Enqueuing(q)'
                        /\ \A g \in Globals, h \in Requests : held[q][g] = h => Past(g, h)'
      BY <2>1 DEF Taken
    <3>1. \A g \in Globals, h \in Requests : held[q][g] = h => Past(g, h)'
      BY <2>2, <2>3, OnceTypes DEF Once, Taken
    <3> QED
      BY <2>1, <2>2, <3>1 DEF Holding, Enqueuing, Globals
  <2>6. Pristine'
    BY <2>1, <2>2, <2>3, GlobalFacts DEF Once, Pristine
  <2>7. Unbuilt'
    BY <2>1 DEF Unbuilt
  <2> QED
    BY <1>1, <2>4, <2>5, <2>6, <2>7 DEF Once
<1>7. CASE (Tick /\ UNCHANGED consoleVars) \/ UNCHANGED vars
  <2>1. UNCHANGED <<at, endpoint, consoleVars>>
    BY <1>7 DEF Tick, vars, accessVars
  <2> QED
    BY <1>1, <2>1, OnceElsewhere DEF Once
<1> QED
  BY <1>1, <1>3, <1>4, <1>5, <1>6, <1>7 DEF Once, Next, Step, AccessBegins

LEMMA OnceAlways == Spec => []Once
<1> QED
  BY OnceInit, OnceStep, PTL DEF Spec

-----------------------------------------------------------------------------
LEMMA UpdatesStep == Once /\ UpdatesKept /\ [Next]_vars => UpdatesKept'
<1> SUFFICES ASSUME Once, UpdatesKept, [Next]_vars PROVE UpdatesKept'
  OBVIOUS
<1>1. /\ settings \in [Requests -> Settings]
      /\ held \in [Requests -> [Globals -> Requests \union {NoRequest}]]
      /\ built \in [Globals -> Requests \union {NoRequest}]
  BY OnceTypes
<1>2. ASSUME NEW r \in Requests, NEW p \in Patches, Update(r, p) PROVE UpdatesKept'
  <2> DEFINE h == held[r]["store"]
  <2>1. /\ at[r] = "apply" /\ "store" \in Needs(r) /\ UNCHANGED <<built, twice>>
        /\ settings' = [settings EXCEPT ![h] = Merged(settings[h], p)]
        /\ acked' = Merged(acked, p)
    BY <1>2 DEF Update, Merged, Needs, Globals
  <2>2. "store" \notin twice => h = built["store"]
    <3>1. h # NoRequest /\ at[r] # "ended" /\ "store" \in Globals
      BY <2>1, GlobalFacts DEF Once, Taken, Holding
    <3> QED
      BY <3>1 DEF Once, Globally
  <2> HIDE DEF h
  <2>3. (h \in Requests /\ settings[h] = acked) => settings'[h] = acked'
    BY <1>1, <2>1
  <2> QED
    BY <1>1, <2>1, <2>2, <2>3 DEF UpdatesKept, Globals
<1>3. ASSUME NEW r \in Requests, Assign(r) PROVE UpdatesKept'
  <2>1. /\ at[r] = "assign" /\ built' = [built EXCEPT ![GlobalOf(r)] = r]
        /\ UNCHANGED <<settings, acked, twice>>
    BY <1>3 DEF Assign, consoleHistory
  <2>2. CASE GlobalOf(r) = "store"
    <3>1. "store" \notin twice => acked = SeedSettings
      BY <2>1, <2>2 DEF Once, Globally, Globals, Unbuilt
    <3>2. settings[r] = SeedSettings
      BY <2>1, <2>2, GlobalFacts DEF Once, Pristine, Past
    <3> QED
      BY <1>1, <2>1, <2>2, <3>1, <3>2 DEF UpdatesKept, Globals
  <2>3. CASE GlobalOf(r) # "store"
    BY <1>1, <2>1, <2>3 DEF UpdatesKept
  <2> QED
    BY <2>2, <2>3
<1>4. ASSUME NEW r \in Requests, Resolve(r) PROVE UpdatesKept'
  <2>1. twice \subseteq twice' /\ UNCHANGED <<built, settings, acked>>
    BY <1>4 DEF Resolve, console
  <2> QED
    BY <2>1 DEF UpdatesKept
<1>5. CASE RestartConsole
  BY <1>5 DEF RestartConsole, UpdatesKept, Globals
<1>6. CASE UNCHANGED <<built, settings, acked, twice>>
  BY <1>6 DEF UpdatesKept
<1>7. \/ \E r \in Requests : Resolve(r) \/ Assign(r) \/ \E p \in Patches : Update(r, p)
      \/ RestartConsole
      \/ UNCHANGED <<built, settings, acked, twice>>
  BY DEF Next, Step, ConsoleStep, Take, Show, UpdateRefused, AppendJob, SendTask, ReplaceLast,
     vars, consoleVars, console, consoleHistory
<1> QED
  BY <1>2, <1>3, <1>4, <1>5, <1>6, <1>7

\* No acknowledged update is lost while the store is built once, for any number of requests
\* that build, read and update it in any order.  (_get_settings_store, AdminSettingsStore.update)
THEOREM AdminUpdatesKept == Spec => []UpdatesKept
<1>1. Init => UpdatesKept
  BY DEF Init, UpdatesKept, Globals
<1> QED
  BY <1>1, OnceAlways, UpdatesStep, PTL DEF Spec

-----------------------------------------------------------------------------
(* The job list *)

\* Requests append in turn while their enqueues do not overlap: whoever is between the
\* append and the replacement of the last job is the last to have appended.
InTurn ==
  /\ \A i \in 1 .. Len(order) : at[order[i]] \in {"send", "replace", "ended"}
  /\ ~ crossed => \A q \in Requests : Enqueuing(q) =>
       /\ order # <<>> /\ order[Len(order)] = q
       /\ \A i \in 1 .. Len(order) - 1 : order[i] # q

Listing == Once /\ InTurn /\ EveryEnqueueListed

LEMMA ListingInit == Init => Listing
BY OnceInit DEF Init, AccessInit, Listing, InTurn, EveryEnqueueListed, Globals, Enqueuing

\* A step that enqueues nothing.
LEMMA ListingElsewhere ==
  ASSUME Listing, UNCHANGED <<built, jobs, file, sent, order, crossed>>, twice \subseteq twice',
         \A q \in Requests : (at'[q] \in {"send", "replace"} \/ at[q] \in {"send", "replace", "ended"}) =>
           at'[q] = at[q]
  PROVE  (InTurn /\ EveryEnqueueListed)'
<1>1. order \in Seq(Requests)
  BY DEF Listing, Once, Typed, ConsoleTypeOK
<1>2. \A i \in 1 .. Len(order) : order[i] \in Requests
  BY <1>1
<1>3. \A q \in Requests : Enqueuing(q)' <=> Enqueuing(q)
  BY DEF Enqueuing
<1>4. InTurn'
  BY <1>2, <1>3 DEF Listing, InTurn
<1>5. EveryEnqueueListed'
  BY <1>2, <1>3 DEF Listing, EveryEnqueueListed
<1> QED
  BY <1>4, <1>5

LEMMA AppendSeq ==
  ASSUME NEW T, NEW S \in Seq(T), NEW e \in T
  PROVE  /\ Append(S, e) \in Seq(T) /\ Len(Append(S, e)) = Len(S) + 1 /\ Len(S) \in Nat
         /\ \A i \in 1 .. Len(S) : Append(S, e)[i] = S[i]
         /\ Append(S, e)[Len(S) + 1] = e
OBVIOUS

LEMMA ListingAppend ==
  ASSUME Listing, NEW r \in Requests, NEW f \in Files, AppendJob(r, f)
  PROVE  (InTurn /\ EveryEnqueueListed)'
<1> DEFINE j == [call |-> r, file |-> f, outcome |-> "none"]
           h == held[r]["queue"]
<1>1. /\ at[r] = "apply" /\ at'[r] = "send"
      /\ \A q \in Requests \ {r} : at'[q] = at[q] /\ file'[q] = file[q]
      /\ file'[r] = f /\ UNCHANGED <<built, sent, twice>> /\ order' = Append(order, r)
      /\ jobs' = [jobs EXCEPT ![h] = Append(jobs[h], j)]
      /\ ~ crossed' => ~ crossed /\ \A q \in Requests : ~ Enqueuing(q)
  BY DEF AppendJob, Goto, Listing, Once, Typed, ConsoleTypeOK
<1>2. order \in Seq(Requests) /\ jobs \in [Requests -> Seq(Job)] /\ j \in Job
  BY DEF Listing, Once, Typed, ConsoleTypeOK, Job
<1> HIDE DEF j
<1>3. \A i \in 1 .. Len(order) : order[i] \in Requests /\ order[i] # r
  <2> SUFFICES ASSUME NEW i \in 1 .. Len(order) PROVE order[i] \in Requests /\ order[i] # r
    OBVIOUS
  <2>1. order[i] \in Requests
    BY <1>2
  <2>2. at[order[i]] # at[r]
    BY <1>1 DEF Listing, InTurn
  <2> QED
    BY <2>1, <2>2
<1>4. /\ Len(order) \in Nat /\ Len(order') = Len(order) + 1
      /\ \A i \in 1 .. Len(order) : order'[i] = order[i]
      /\ order'[Len(order) + 1] = r
  BY <1>1, <1>2, AppendSeq
<1>5. InTurn'
  <2>1. ASSUME NEW i \in 1 .. Len(order') PROVE at'[order'[i]] \in {"send", "replace", "ended"}
    <3>1. CASE i \in 1 .. Len(order)
      BY <1>1, <1>3, <1>4, <3>1 DEF Listing, InTurn
    <3>2. CASE i \notin 1 .. Len(order)
      BY <1>1, <1>4, <2>1, <3>2
    <3> QED
      BY <3>1, <3>2
  <2>2. ASSUME ~ crossed', NEW q \in Requests, Enqueuing(q)'
        PROVE  /\ order' # <<>> /\ order'[Len(order')] = q
               /\ \A i \in 1 .. Len(order') - 1 : order'[i] # q
    <3>1. q = r
      BY <1>1, <2>2 DEF Enqueuing
    <3>2. order' # <<>>
      BY <1>4
    <3> QED
      BY <1>3, <1>4, <3>1, <3>2
  <2> QED
    BY <2>1, <2>2 DEF InTurn
<1>6. ASSUME ~ crossed', "queue" \notin twice, built["queue"] # NoRequest
      PROVE  /\ Len(jobs'[built["queue"]]) = Len(order')
             /\ \A i \in 1 .. Len(order') :
                  jobs'[built["queue"]][i] =
                    [call |-> order'[i], file |-> file'[order'[i]],
                     outcome |-> IF at'[order'[i]] \in {"send", "replace"}
                                   THEN "none" ELSE sent[order'[i]]]
  <2>1. h = built["queue"] /\ h \in Requests
    BY <1>1, <1>6, GlobalFacts, OnceTypes DEF Listing, Once, Globally, Taken, Holding
  <2>2. jobs'[h] = Append(jobs[h], j)
    BY <1>1, <1>2, <2>1
  <2>3. /\ Len(jobs[h]) = Len(order)
        /\ \A i \in 1 .. Len(order) :
             jobs[h][i] = [call |-> order[i], file |-> file[order[i]],
                                 outcome |-> IF Enqueuing(order[i]) THEN "none" ELSE sent[order[i]]]
    BY <1>1, <1>6, <2>1 DEF Listing, EveryEnqueueListed
  <2>4. /\ Len(jobs'[h]) = Len(order) + 1
        /\ \A i \in 1 .. Len(order) : jobs'[h][i] = jobs[h][i]
        /\ jobs'[h][Len(order) + 1] = j
    BY <1>2, <2>1, <2>2, <2>3, AppendSeq
  <2>5. ASSUME NEW i \in 1 .. Len(order')
        PROVE  jobs'[h][i] =
                 [call |-> order'[i], file |-> file'[order'[i]],
                  outcome |-> IF at'[order'[i]] \in {"send", "replace"}
                                THEN "none" ELSE sent[order'[i]]]
    <3>1. CASE i \in 1 .. Len(order)
      <4>1. order'[i] = order[i] /\ order[i] \in Requests /\ order[i] # r
        BY <1>3, <1>4, <3>1
      <4>2. (at'[order'[i]] \in {"send", "replace"} <=> Enqueuing(order[i])) /\ file'[order'[i]] = file[order[i]]
        BY <1>1, <4>1 DEF Enqueuing
      <4> QED
        BY <2>3, <2>4, <3>1, <4>1, <4>2
    <3>2. CASE i \notin 1 .. Len(order)
      <4>1. i = Len(order) + 1 /\ order'[i] = r
        BY <1>4, <3>2
      <4>2. at'[order'[i]] \in {"send", "replace"} /\ file'[order'[i]] = f
        BY <1>1, <4>1 DEF Enqueuing
      <4> QED
        BY <2>4, <4>1, <4>2 DEF j
    <3> QED
      BY <3>1, <3>2
  <2> QED
    BY <1>4, <2>1, <2>4, <2>5
<1>7. EveryEnqueueListed'
  BY <1>1, <1>6 DEF EveryEnqueueListed, Enqueuing
<1> QED
  BY <1>5, <1>7

LEMMA ListingSend ==
  ASSUME Listing, NEW r \in Requests, NEW o, SendTask(r, o)
  PROVE  (InTurn /\ EveryEnqueueListed)'
<1>1. /\ at[r] = "send" /\ at'[r] = "replace" /\ \A q \in Requests \ {r} : at'[q] = at[q]
      /\ \A q \in Requests \ {r} : sent'[q] = sent[q]
      /\ UNCHANGED <<built, jobs, file, order, crossed, twice>>
  BY DEF SendTask, Goto, consoleHistory, Listing, Once, Typed, ConsoleTypeOK
<1>2. \A i \in 1 .. Len(order) : order[i] \in Requests
  BY DEF Listing, Once, Typed, ConsoleTypeOK
<1>3. \A q \in Requests : Enqueuing(q)' <=> Enqueuing(q)
  BY <1>1 DEF Enqueuing
<1>4. InTurn'
  BY <1>1, <1>2, <1>3 DEF Listing, InTurn
<1>5. \A q \in Requests : Enqueuing(q) \/ sent'[q] = sent[q]
  BY <1>1 DEF Enqueuing
<1>6. EveryEnqueueListed'
  BY <1>1, <1>2, <1>3, <1>5 DEF Listing, EveryEnqueueListed
<1> QED
  BY <1>4, <1>6

LEMMA ListingReplace ==
  ASSUME Listing, NEW r \in Requests, ReplaceLast(r)
  PROVE  (InTurn /\ EveryEnqueueListed)'
<1> DEFINE j == [call |-> r, file |-> file[r], outcome |-> sent[r]]
           h == held[r]["queue"]
<1>1. /\ at[r] = "replace" /\ at'[r] = "ended" /\ \A q \in Requests \ {r} : at'[q] = at[q]
      /\ UNCHANGED <<built, file, sent, order, crossed, twice>>
      /\ jobs' = [jobs EXCEPT ![h] = [jobs[h] EXCEPT ![Len(jobs[h])] = j]]
  BY DEF ReplaceLast, Answer, consoleHistory, Listing, Once, Typed, ConsoleTypeOK
<1>2. order \in Seq(Requests) /\ jobs \in [Requests -> Seq(Job)]
  BY DEF Listing, Once, Typed, ConsoleTypeOK
<1>3. j \in Job
  BY <1>1 DEF Job, Listing, Once, Typed, ConsoleTypeOK, Placed, Enqueuing
<1> HIDE DEF j
<1>4. \A i \in 1 .. Len(order) : order[i] \in Requests
  BY <1>2
<1>5. InTurn'
  BY <1>1, <1>4 DEF Listing, InTurn, Enqueuing
<1>6. ASSUME ~ crossed, "queue" \notin twice, built["queue"] # NoRequest
      PROVE  /\ Len(jobs'[built["queue"]]) = Len(order)
             /\ \A i \in 1 .. Len(order) :
                  jobs'[built["queue"]][i] =
                    [call |-> order[i], file |-> file[order[i]],
                     outcome |-> IF at'[order[i]] \in {"send", "replace"}
                                   THEN "none" ELSE sent[order[i]]]
  <2> DEFINE old == jobs[h]
  <2>1. h = built["queue"] /\ h \in Requests
    BY <1>1, <1>6, GlobalFacts, OnceTypes DEF Listing, Once, Globally, Taken, Holding
  <2>2. /\ order # <<>> /\ order[Len(order)] = r
        /\ \A i \in 1 .. Len(order) - 1 : order[i] # r
        /\ \A q \in Requests : Enqueuing(q) => q = r
    BY <1>1, <1>6 DEF Listing, InTurn, Enqueuing
  <2>3. /\ Len(old) = Len(order)
        /\ \A i \in 1 .. Len(order) :
             old[i] = [call |-> order[i], file |-> file[order[i]],
                       outcome |-> IF Enqueuing(order[i]) THEN "none" ELSE sent[order[i]]]
    BY <1>6, <2>1 DEF Listing, EveryEnqueueListed
  <2>4. old \in Seq(Job) /\ Len(order) \in Nat /\ Len(order) # 0
    BY <1>2, <2>1, <2>2
  <2>5. jobs'[h] = [old EXCEPT ![Len(old)] = j]
    BY <1>1, <1>2, <2>1
  <2> HIDE DEF old
  <2>6. /\ Len(jobs'[h]) = Len(order)
        /\ jobs'[h][Len(order)] = j
        /\ \A i \in 1 .. Len(order) - 1 : jobs'[h][i] = old[i]
    <3>1. old \in [1 .. Len(order) -> Job]
      BY <2>3, <2>4
    <3>2. jobs'[h] \in [1 .. Len(order) -> Job]
      BY <2>3, <2>4, <2>5, <3>1, <1>3
    <3>3. Len(jobs'[h]) = Len(order)
      BY <2>4, <3>2
    <3> QED
      BY <2>3, <2>4, <2>5, <3>1, <3>3
  <2>7. ASSUME NEW i \in 1 .. Len(order)
        PROVE  jobs'[h][i] =
                 [call |-> order[i], file |-> file[order[i]],
                  outcome |-> IF at'[order[i]] \in {"send", "replace"}
                                THEN "none" ELSE sent[order[i]]]
    <3>1. CASE i = Len(order)
      BY <1>1, <2>2, <2>6, <3>1 DEF j
    <3>2. CASE i # Len(order)
      <4>1. i \in 1 .. Len(order) - 1 /\ order[i] # r /\ order[i] \in Requests
        BY <1>4, <2>2, <2>4, <3>2
      <4>2. ~ Enqueuing(order[i]) /\ at'[order[i]] = at[order[i]]
        BY <1>1, <2>2, <4>1
      <4> QED
        BY <2>3, <2>6, <4>1, <4>2 DEF Enqueuing
    <3> QED
      BY <3>1, <3>2
  <2> QED
    BY <2>1, <2>6, <2>7
<1>7. EveryEnqueueListed'
  BY <1>1, <1>6 DEF EveryEnqueueListed, Enqueuing
<1> QED
  BY <1>5, <1>7

LEMMA ListingStep == Listing /\ [Next]_vars => Listing'
<1> SUFFICES ASSUME Listing, [Next]_vars PROVE Listing'
  OBVIOUS
<1>1. Once /\ Once'
  BY OnceStep DEF Listing
<1>2. at \in [Requests -> AccessSteps \union ConsoleSteps]
  BY <1>1 DEF Once, Typed, ConsoleTypeOK
<1> USE DEF Goto, Answer
<1>3. ASSUME NEW r \in Requests, AccessStep(r), UNCHANGED consoleVars
      PROVE  (InTurn /\ EveryEnqueueListed)'
  <2>1. /\ at[r] \notin {"send", "replace", "ended"} /\ at'[r] \notin {"send", "replace"}
        /\ \A q \in Requests \ {r} : at'[q] = at[q]
    BY <1>2, <1>3 DEF AccessStep, GetService, PutUser, PutMembership, AppendMembership, SetService,
       Enter, LoginRefused, PutSession, ListWorkspaces, Purge, GetSession, SessionRefused,
       Authorize
  <2> QED
    BY <1>3, <2>1, ListingElsewhere DEF consoleVars, console, consoleHistory
<1>4. ASSUME NEW r \in Requests, Resolve(r) \/ Take(r) \/ Show(r)
                                 \/ \E p \in Patches : Update(r, p) \/ UpdateRefused(r, p)
      PROVE  (InTurn /\ EveryEnqueueListed)'
  <2>1. /\ at[r] \notin {"send", "replace", "ended"} /\ at'[r] \notin {"send", "replace"}
        /\ \A q \in Requests \ {r} : at'[q] = at[q]
    BY <1>2, <1>4 DEF Resolve, Take, Show, Update, UpdateRefused
  <2>2. UNCHANGED <<built, jobs, file, sent, order, crossed>> /\ twice \subseteq twice'
    BY <1>4 DEF Resolve, Take, Show, Update, UpdateRefused, consoleVars, console, consoleHistory
  <2> QED
    BY <2>1, <2>2, ListingElsewhere
<1>5. ASSUME NEW r \in Requests, Assign(r) PROVE (InTurn /\ EveryEnqueueListed)'
  <2>1. /\ at[r] = "assign" /\ at'[r] = "take" /\ \A q \in Requests \ {r} : at'[q] = at[q]
        /\ UNCHANGED <<jobs, file, sent, order, crossed, twice>>
        /\ built' = [built EXCEPT ![GlobalOf(r)] = r]
    BY <1>2, <1>5 DEF Assign, consoleHistory
  <2>2. \A i \in 1 .. Len(order) : order[i] \in Requests
    BY <1>1 DEF Once, Typed, ConsoleTypeOK
  <2>3. \A q \in Requests : Enqueuing(q)' <=> Enqueuing(q)
    BY <2>1 DEF Enqueuing
  <2>4. InTurn'
    BY <2>1, <2>2, <2>3 DEF Listing, InTurn
  <2>5. built \in [Globals -> Requests \union {NoRequest}]
    BY <1>1 DEF Once, Typed, ConsoleTypeOK
  <2>6. EveryEnqueueListed'
    <3>1. CASE GlobalOf(r) = "queue"
      <4>1. "queue" \notin twice => order = <<>>
        BY <1>1, <2>1, <3>1 DEF Once, Globally, Globals, Unbuilt
      <4>2. jobs[r] = <<>> /\ built'["queue"] = r
        BY <1>1, <2>1, <2>5, <3>1 DEF Once, Taken, Pristine, Past, Holding, Globals
      <4> QED
        BY <2>1, <4>1, <4>2 DEF EveryEnqueueListed
    <3>2. CASE GlobalOf(r) # "queue"
      <4>1. built'["queue"] = built["queue"]
        BY <2>1, <2>5, <3>2
      <4> QED
        BY <2>1, <2>2, <2>3, <4>1 DEF Listing, EveryEnqueueListed
    <3> QED
      BY <3>1, <3>2
  <2> QED
    BY <2>4, <2>6
<1>6. ASSUME NEW r \in Requests, (\E f \in Files : AppendJob(r, f)) \/ ReplaceLast(r)
                                 \/ \E o \in {"sent", "error"} : SendTask(r, o)
      PROVE  (InTurn /\ EveryEnqueueListed)'
  BY <1>6, ListingAppend, ListingReplace, ListingSend
<1>7. ASSUME NEW r \in Requests, NEW t \in Requests \union {NoRequest}, Begin(r, t),
             UNCHANGED consoleVars
      PROVE  (InTurn /\ EveryEnqueueListed)'
  <2>1. /\ at[r] = "start" /\ at'[r] = "get_service"
        /\ \A q \in Requests \ {r} : at'[q] = at[q]
    BY <1>2, <1>7 DEF Begin
  <2> QED
    BY <1>7, <2>1, ListingElsewhere DEF consoleVars, console, consoleHistory
<1>8. CASE RestartConsole
  <2>1. /\ order' = <<>> /\ built'["queue"] = NoRequest
        /\ \A q \in Requests : at'[q] \in {"start", "ended"}
    BY <1>8 DEF RestartConsole, Restart, Globals
  <2>2. (InTurn /\ EveryEnqueueListed)'
    BY <2>1 DEF InTurn, EveryEnqueueListed, Enqueuing
  <2> QED
    BY <1>1, <2>2 DEF Listing
<1>9. CASE (Tick /\ UNCHANGED consoleVars) \/ UNCHANGED vars
  <2>1. UNCHANGED <<at, built, jobs, file, sent, order, crossed, twice>>
    BY <1>9 DEF Tick, vars, accessVars, consoleVars, console, consoleHistory
  <2> QED
    BY <1>1, <2>1, ListingElsewhere DEF Listing
<1> QED
  BY <1>1, <1>3, <1>4, <1>5, <1>6, <1>7, <1>8, <1>9
  DEF Listing, Next, Step, ConsoleStep, AccessBegins

\* The job list tells the outcome of every dispatch, for any number of enqueues that follow
\* one another.  (CeleryDispatchingIngestionQueue.enqueue)
THEOREM AdminEveryEnqueueListed == Spec => []EveryEnqueueListed
<1>1. Listing => EveryEnqueueListed
  BY DEF Listing
<1> QED
  BY <1>1, ListingInit, ListingStep, PTL DEF Spec

-----------------------------------------------------------------------------
(* The memberships *)

Building == {"put_user", "put_membership", "append_membership"}

\* A request that has the service.
In(r) == at[r] \notin Building \union {"start", "get_service", "ended"}

SeedTo(n) == {SeedWorkspaces[i] : i \in 1 .. n}

\* The service is published when its one builder has seeded all memberships.
Seeding ==
  /\ service => user
  /\ \A r \in Requests :
       /\ at[r] \in {"put_membership", "append_membership"} => user
       /\ In(r) => service
       /\ at[r] \in Building => r \in builders
       /\ at[r] \in {"start", "get_service", "put_user"} => seeded[r] = 0
  /\ ~ rebuilt =>
       /\ \A p, q \in builders : p = q
       /\ builders = {} => memberships = {}
       /\ service => memberships = Seed
       /\ \A r \in Requests :
            /\ at[r] \in Building => ~ service
            /\ at[r] \in {"put_user", "put_membership"} => memberships = SeedTo(seeded[r])
            /\ at[r] = "append_membership" =>
                 memberships = SeedTo(seeded[r]) \ {SeedWorkspaces[seeded[r] + 1]}

Seeded == Typed /\ Seeding

LEMMA SeededInit == Init => Seeded
BY TypeInit DEF Init, AccessInit, Seeded, Seeding, Building, In

\* A step by which no request enters or leaves the building of the service.
LEMMA SeedingElsewhere ==
  ASSUME Seeding, UNCHANGED <<service, user, memberships, builders, rebuilt, seeded>>,
         \A q \in Requests :
           \/ at'[q] = at[q]
           \/ at'[q] = "ended"
           \/ at[q] = "start" /\ at'[q] = "get_service"
           \/ at[q] \notin Building \union {"start"} /\ at'[q] \notin Building \union {"start", "get_service"} /\ service
  PROVE  Seeding'
<1>1. \A q \in Requests : at'[q] \in Building \/ at'[q] = "start" => at'[q] = at[q]
  BY DEF Building
<1>2. \A q \in Requests : In(q)' => In(q) \/ service
  BY DEF In, Building
<1> QED
  BY <1>1, <1>2 DEF Seeding, Building

LEMMA SeedingStep == Seeded /\ [Next]_vars => Seeded'
<1> SUFFICES ASSUME Seeded, [Next]_vars PROVE Seeded'
  OBVIOUS
<1>1. Typed /\ Typed' /\ Seeding
  BY TypeStep DEF Seeded
<1>2. /\ at \in [Requests -> AccessSteps \union ConsoleSteps] /\ builders \in SUBSET Requests
      /\ seeded \in [Requests -> 0 .. Len(SeedWorkspaces)] /\ Len(SeedWorkspaces) \in Nat
      /\ rebuilt \in BOOLEAN
  BY <1>1, SeedFacts DEF Typed, ConsoleTypeOK, AccessTypeOK
<1> USE DEF Goto, Answer, repository, given, local, accessHistory
<1>3. ASSUME NEW r \in Requests, GetService(r) PROVE Seeding'
  <2>1. /\ at[r] = "get_service" /\ \A q \in Requests \ {r} : at'[q] = at[q]
        /\ UNCHANGED <<service, user, memberships, seeded>>
    BY <1>2, <1>3 DEF GetService
  <2>2. CASE service
    <3>1. at'[r] = "enter" /\ UNCHANGED <<builders, rebuilt>>
      BY <1>2, <1>3, <2>2 DEF GetService
    <3> QED
      BY <1>1, <2>1, <2>2, <3>1, SeedingElsewhere DEF Building
  <2>3. CASE ~ service
    <3>1. /\ at'[r] = "put_user" /\ builders' = builders \union {r}
          /\ rebuilt' <=> (rebuilt \/ builders # {})
      BY <1>2, <1>3, <2>3 DEF GetService
    <3>2. ~ rebuilt' => /\ ~ rebuilt /\ builders = {} /\ memberships = {}
                        /\ \A q \in Requests : at[q] \notin Building
      BY <1>1, <3>1 DEF Seeding
    <3>3. SeedTo(0) = {} /\ seeded[r] = 0
      BY <1>1, <2>1 DEF Seeding, SeedTo
    <3> QED
      BY <1>1, <2>1, <2>3, <3>1, <3>2, <3>3 DEF Seeding, Building, In
  <2> QED
    BY <2>2, <2>3
<1>4. ASSUME NEW r \in Requests, PutUser(r) PROVE Seeding'
  <2>1. /\ at[r] = "put_user" /\ at'[r] = "put_membership" /\ user' = TRUE
        /\ \A q \in Requests \ {r} : at'[q] = at[q]
        /\ UNCHANGED <<service, memberships, seeded, builders, rebuilt>>
    BY <1>2, <1>4 DEF PutUser
  <2> QED
    BY <1>1, <2>1 DEF Seeding, Building, In
<1>5. ASSUME NEW r \in Requests, PutMembership(r) PROVE Seeding'
  <2>1. /\ at[r] = "put_membership" /\ at'[r] = "append_membership"
        /\ memberships' = memberships \ {SeedWorkspaces[seeded[r] + 1]}
        /\ \A q \in Requests \ {r} : at'[q] = at[q]
        /\ UNCHANGED <<service, user, seeded, builders, rebuilt>>
    BY <1>2, <1>5 DEF PutMembership
  <2>2. ~ rebuilt => \A q \in Requests : at[q] \in Building => q = r
    BY <1>1, <2>1 DEF Seeding, Building
  <2> QED
    BY <1>1, <2>1, <2>2 DEF Seeding, Building, In
<1>6. ASSUME NEW r \in Requests, AppendMembership(r) PROVE Seeding'
  <2>1. /\ at[r] = "append_membership" /\ at'[r] = "put_membership"
        /\ memberships' = memberships \union {SeedWorkspaces[seeded[r] + 1]}
        /\ seeded'[r] = seeded[r] + 1
        /\ \A q \in Requests \ {r} : at'[q] = at[q] /\ seeded'[q] = seeded[q]
        /\ UNCHANGED <<service, user, builders, rebuilt>>
    BY <1>2, <1>6 DEF AppendMembership
  <2>2. ~ rebuilt => \A q \in Requests : at[q] \in Building => q = r
    BY <1>1, <2>1 DEF Seeding, Building
  <2>3. SeedTo(seeded[r] + 1) = SeedTo(seeded[r]) \union {SeedWorkspaces[seeded[r] + 1]}
    <3>1. seeded[r] \in Nat
      BY <1>2
    <3>2. \A i : i \in 1 .. seeded[r] + 1 <=> i \in 1 .. seeded[r] \/ i = seeded[r] + 1
      BY <3>1
    <3> QED
      BY <3>2 DEF SeedTo
  <2>4. ~ rebuilt => memberships' = SeedTo(seeded'[r])
    BY <1>1, <2>1, <2>3 DEF Seeding
  <2> QED
    BY <1>1, <2>1, <2>2, <2>4 DEF Seeding, Building, In
<1>7. ASSUME NEW r \in Requests, SetService(r) PROVE Seeding'
  <2>1. /\ at[r] = "put_membership" /\ at'[r] = "enter" /\ service' = TRUE
        /\ seeded[r] = Len(SeedWorkspaces)
        /\ \A q \in Requests \ {r} : at'[q] = at[q]
        /\ UNCHANGED <<user, memberships, seeded, builders, rebuilt>>
    BY <1>2, <1>7 DEF SetService
  <2>2. ~ rebuilt => \A q \in Requests : at[q] \in Building => q = r
    BY <1>1, <2>1 DEF Seeding, Building
  <2>3. ~ rebuilt => memberships = Seed
    BY <1>1, <2>1 DEF Seeding, SeedTo, Seed
  <2> QED
    BY <1>1, <2>1, <2>2, <2>3 DEF Seeding, Building, In
<1>8. ASSUME NEW r \in Requests,
             \/ Enter(r) \/ LoginRefused(r) \/ PutSession(r) \/ ListWorkspaces(r) \/ Purge(r)
             \/ GetSession(r) \/ SessionRefused(r) \/ Authorize(r)
      PROVE  Seeding'
  <2>1. /\ at[r] \notin Building \union {"start", "get_service", "ended"}
        /\ at'[r] \notin Building \union {"start", "get_service"}
        /\ \A q \in Requests \ {r} : at'[q] = at[q]
        /\ UNCHANGED <<service, user, memberships, seeded, builders, rebuilt>>
    BY <1>2, <1>8 DEF Enter, LoginRefused, PutSession, ListWorkspaces, Purge, GetSession,
       SessionRefused, Authorize, Building
  <2>2. service
    BY <1>1, <2>1 DEF Seeding, In
  <2> QED
    BY <1>1, <2>1, <2>2, SeedingElsewhere
<1>9. ASSUME NEW r \in Requests, ConsoleStep(r) PROVE Seeding'
  <2>1. /\ at[r] \in ConsoleSteps \union {"handler"}
        /\ at'[r] \in ConsoleSteps \union {"handler", "ended"}
        /\ UNCHANGED unchangedAccess
        /\ \A q \in Requests \ {r} : at'[q] = at[q]
    BY <1>2, <1>9 DEF ConsoleStep, ConsoleSteps, Resolve, Assign, Take, Show, Update, UpdateRefused,
       AppendJob, SendTask, ReplaceLast
  <2>2. UNCHANGED <<service, user, memberships, seeded, builders, rebuilt>>
    BY <2>1 DEF unchangedAccess
  <2>3. service
    BY <1>1, <2>1 DEF Seeding, In, ConsoleSteps, Building
  <2> QED
    BY <1>1, <2>1, <2>2, <2>3, SeedingElsewhere DEF ConsoleSteps, Building
<1>10. ASSUME NEW r \in Requests, NEW t \in Requests \union {NoRequest}, Begin(r, t) PROVE Seeding'
  <2>1. /\ at[r] = "start" /\ at'[r] = "get_service" /\ \A q \in Requests \ {r} : at'[q] = at[q]
        /\ UNCHANGED <<service, user, memberships, seeded, builders, rebuilt>>
    BY <1>2, <1>10 DEF Begin
  <2>2. seeded[r] = 0
    BY <1>1, <2>1 DEF Seeding
  <2> QED
    BY <1>1, <2>1, <2>2 DEF Seeding, Building, In
<1>11. CASE Restart
  <2>1. /\ \A q \in Requests : at'[q] = IF at[q] = "start" THEN "start" ELSE "ended"
        /\ ~ service' /\ memberships' = {} /\ builders' = {} /\ UNCHANGED seeded
    BY <1>11 DEF Restart
  <2>2. Seeding'
    BY <1>1, <2>1 DEF Seeding, Building, In
  <2> QED
    BY <1>1, <2>2 DEF Seeded
<1>12. CASE Tick \/ UNCHANGED vars
  <2>1. UNCHANGED <<at, service, user, memberships, seeded, builders, rebuilt>>
    BY <1>12 DEF Tick, vars, accessVars
  <2> QED
    BY <1>1, <2>1, SeedingElsewhere DEF Seeded
<1> QED
  BY <1>1, <1>3, <1>4, <1>5, <1>6, <1>7, <1>8, <1>9, <1>10, <1>11, <1>12
  DEF Seeded, Next, Step, AccessStep, AccessBegins, RestartConsole

-----------------------------------------------------------------------------
(* Refusals *)

\* A token that was given is held until it expires or a restart drops it.
Good(t) == t \in sessions \/ expires[t] <= now \/ t \in dropped

Issued ==
  \A r \in Requests :
    /\ clock[r] <= now
    /\ token[r] # NoRequest => endpoint[token[r]] = "login" /\ outcome[token[r]] = "ok"
    /\ (endpoint[r] = "login" /\ (at[r] = "list" \/ outcome[r] = "ok")) => Good(r)

Reasons == Admitted /\ Once /\ Seeded /\ Issued /\ RefusedForReason /\ ListsAllWorkspaces

LEMMA ReasonsInit == Init => Reasons
<1> SUFFICES ASSUME Init PROVE Reasons
  OBVIOUS
<1>1. Admitted /\ Once /\ Seeded /\ Typed
  BY AdmittedInit, OnceInit, SeededInit, TypeInit
<1>2. now \in Nat /\ \A r \in Requests : clock[r] = 0
  BY <1>1 DEF Typed, ConsoleTypeOK, AccessTypeOK, Init, AccessInit
<1>3. Issued
  <2>1. \A r \in Requests : token[r] = NoRequest /\ at[r] = "start" /\ outcome[r] = "none"
    BY DEF Init, AccessInit
  <2> QED
    <3> SUFFICES ASSUME NEW r \in Requests
                 PROVE  /\ clock[r] <= now
                        /\ token[r] = NoRequest /\ at[r] # "list" /\ outcome[r] # "ok"
      BY DEF Issued
    <3> QED
      BY <1>2, <2>1
<1>4. RefusedForReason /\ ListsAllWorkspaces
  BY DEF Init, AccessInit, RefusedForReason, ListsAllWorkspaces
<1> QED
  BY <1>1, <1>3, <1>4 DEF Reasons

\* Answers given stay right; the step of request r is looked at where it gives one.
LEMMA ReasonsKept ==
  ASSUME Reasons, Typed', NEW r \in Requests, UNCHANGED <<endpoint, workspace, token>>,
         now <= now', dropped \subseteq dropped', rebuilt => rebuilt',
         \A q \in Requests : clock'[q] \in {clock[q], now'},
         \A q \in Requests : Good(q) => Good(q)' \/ at[q] = "put_session",
         \A q \in Requests \ {r} : /\ at'[q] = at[q] /\ outcome'[q] = outcome[q]
                                   /\ listed'[q] = listed[q] /\ expires'[q] = expires[q],
         at[r] \notin {"start", "ended"},
         expires'[r] = expires[r] \/ at[r] = "put_session",
         outcome'[r] = "401" => (at[r] = "get_session" /\ ~ Known(r)) \/ endpoint[r] = "login",
         outcome'[r] = "403" => at[r] = "authorize" /\ workspace[r] \notin memberships,
         (endpoint[r] = "login" /\ (at'[r] = "list" \/ outcome'[r] = "ok")) =>
           at[r] = "list" \/ Good(r)',
         (outcome'[r] = "ok" /\ endpoint[r] \in {"login", "me"}) =>
           at[r] = "list" /\ listed'[r] = memberships
  PROVE  (Issued /\ RefusedForReason /\ ListsAllWorkspaces)'
<1>1. /\ now \in Nat /\ now' \in Nat /\ clock \in [Requests -> Nat] /\ expires \in [Requests -> Nat]
      /\ token \in [Requests -> Requests \union {NoRequest}] /\ rebuilt \in BOOLEAN
      /\ sessions \in SUBSET Requests
  BY DEF Reasons, Seeded, Typed, ConsoleTypeOK, AccessTypeOK
<1>2. outcome[r] = "none" /\ \A q \in Requests : token[q] # r
  BY RequestsAssumption DEF Reasons, Admitted, Tokens
<1>3. \A q \in Requests : token[q] # NoRequest =>
        /\ Good(token[q]) /\ Good(token[q])' /\ token[q] \in Requests \ {r}
        /\ outcome'[token[q]] = outcome[token[q]] /\ expires'[token[q]] = expires[token[q]]
  BY <1>1, <1>2 DEF Reasons, Admitted, Tokens, Issued
<1>4. Issued'
  <2>1. ASSUME NEW q \in Requests PROVE clock'[q] <= now'
    BY <1>1 DEF Reasons, Issued
  <2>2. ASSUME NEW q \in Requests, token[q] # NoRequest
        PROVE  endpoint[token[q]] = "login" /\ outcome'[token[q]] = "ok"
    BY <1>3, <2>2 DEF Reasons, Issued
  <2>3. ASSUME NEW q \in Requests, endpoint[q] = "login", at'[q] = "list" \/ outcome'[q] = "ok"
        PROVE  Good(q)'
    <3>1. CASE q = r
      BY <2>3, <3>1 DEF Reasons, Issued
    <3>2. CASE q # r
      <4>1. Good(q)
        BY <2>3, <3>2 DEF Reasons, Issued
      <4>2. at[q] # "put_session"
        BY <2>3, <3>2 DEF Reasons, Admitted, Tokens
      <4> QED
        BY <4>1, <4>2
    <3> QED
      BY <3>1, <3>2
  <2> QED
    BY <2>1, <2>2, <2>3 DEF Issued
<1>5. at[r] = "get_session" => user
  BY DEF Reasons, Seeded, Seeding, In, Building
<1>6. ASSUME NEW q \in Requests, endpoint[q] # "login", outcome'[q] = "401"
      PROVE  token[q] = NoRequest \/ expires'[token[q]] <= now' \/ token[q] \in dropped'
  <2>1. CASE q # r
    <3>1. token[q] = NoRequest \/ expires[token[q]] <= now \/ token[q] \in dropped
      BY <1>6, <2>1 DEF Reasons, RefusedForReason
    <3> QED
      BY <1>1, <1>3, <3>1
  <2>2. CASE q = r
    <3>1. token[r] \notin sessions
      BY <1>5, <1>6, <2>2 DEF Known
    <3>2. token[r] = NoRequest \/ expires[token[r]] <= now \/ token[r] \in dropped
      BY <1>3, <3>1 DEF Good
    <3> QED
      BY <1>1, <1>3, <2>2, <3>2
  <2> QED
    BY <2>1, <2>2
<1>7. In(r) => rebuilt \/ memberships = Seed
  BY DEF Reasons, Seeded, Seeding
<1>8. ASSUME NEW q \in Requests, endpoint[q] # "login", outcome'[q] = "403"
      PROVE  workspace[q] \notin Seed \/ rebuilt'
  <2>1. CASE q # r
    BY <1>8, <2>1 DEF Reasons, RefusedForReason
  <2>2. CASE q = r
    BY <1>7, <1>8, <2>2 DEF In, Building
  <2> QED
    BY <2>1, <2>2
<1>9. RefusedForReason'
  BY <1>6, <1>8 DEF RefusedForReason, Seed
<1>10. ASSUME NEW q \in Requests, at'[q] = "ended", outcome'[q] = "ok", endpoint[q] \in {"login", "me"}
       PROVE  listed'[q] = Seed \/ rebuilt'
  <2>1. CASE q # r
    BY <1>10, <2>1 DEF Reasons, ListsAllWorkspaces
  <2>2. CASE q = r
    BY <1>7, <1>10, <2>2 DEF In, Building
  <2> QED
    BY <2>1, <2>2
<1>11. ListsAllWorkspaces'
  BY <1>10 DEF ListsAllWorkspaces, Seed
<1> QED
  BY <1>4, <1>9, <1>11

LEMMA ReasonsStep == Reasons /\ [Next]_vars => Reasons'
<1> SUFFICES ASSUME Reasons, [Next]_vars PROVE Reasons'
  OBVIOUS
<1>1. Admitted' /\ Once' /\ Seeded' /\ Typed /\ Typed' /\ Tokens
  BY AdmittedStep, OnceStep, SeedingStep DEF Reasons, Admitted
<1>2. /\ at \in [Requests -> AccessSteps \union ConsoleSteps] /\ outcome \in [Requests -> Outcomes]
      /\ clock \in [Requests -> Nat] /\ expires \in [Requests -> Nat] /\ now \in Nat
      /\ sessions \in SUBSET Requests /\ token \in [Requests -> Requests \union {NoRequest}]
      /\ rebuilt \in BOOLEAN /\ listed \in [Requests -> SUBSET Workspaces]
  BY <1>1 DEF Typed, ConsoleTypeOK, AccessTypeOK
<1>3. now <= now /\ \A q \in Requests : at[q] \notin {"start", "ended"} => outcome[q] = "none"
  BY <1>1, <1>2 DEF Tokens
<1> DEFINE Result == (Issued /\ RefusedForReason /\ ListsAllWorkspaces)'
<1> USE DEF Goto, Answer, repository, given, local, accessHistory
<1>4. ASSUME NEW r \in Requests,
             GetService(r) \/ PutUser(r) \/ PutMembership(r) \/ AppendMembership(r) \/ SetService(r)
      PROVE  Result
  <2>1. /\ at[r] \notin {"start", "ended"}
        /\ at'[r] # "list"
        /\ rebuilt => rebuilt'
        /\ UNCHANGED <<endpoint, workspace, token, now, dropped, clock, sessions, expires,
                       outcome, listed>>
        /\ \A q \in Requests \ {r} : at'[q] = at[q]
    BY <1>2, <1>4 DEF GetService, PutUser, PutMembership, AppendMembership, SetService
  <2>2. \A q \in Requests : Good(q)' <=> Good(q)
    BY <2>1 DEF Good
  <2> HIDE DEF Result
  <2> QED
    BY <1>1, <1>3, <2>1, <2>2, ReasonsKept DEF Result
<1>5. ASSUME NEW r \in Requests, Enter(r) \/ LoginRefused(r) PROVE Result
  <2>1. /\ at[r] \notin {"start", "ended"} /\ at'[r] # "list"
        /\ UNCHANGED <<endpoint, workspace, token, now, dropped, sessions, expires, listed,
                       rebuilt>>
        /\ \A q \in Requests : clock'[q] \in {clock[q], now}
        /\ outcome'[r] # outcome[r] => endpoint[r] = "login" /\ outcome'[r] = "401"
        /\ \A q \in Requests \ {r} : at'[q] = at[q] /\ outcome'[q] = outcome[q]
    BY <1>2, <1>5 DEF Enter, LoginRefused
  <2>2. \A q \in Requests : Good(q)' <=> Good(q)
    BY <2>1 DEF Good
  <2> HIDE DEF Result
  <2> QED
    BY <1>1, <1>3, <2>1, <2>2, ReasonsKept DEF Result
<1>6. ASSUME NEW r \in Requests, PutSession(r) PROVE Result
  <2>1. /\ at[r] = "put_session" /\ sessions' = sessions \union {r}
        /\ UNCHANGED <<endpoint, workspace, token, now, dropped, clock, outcome, listed, rebuilt>>
        /\ \A q \in Requests \ {r} : at'[q] = at[q] /\ expires'[q] = expires[q]
    BY <1>2, <1>6 DEF PutSession
  <2>2. Good(r)' /\ \A q \in Requests \ {r} : Good(q) => Good(q)'
    BY <2>1 DEF Good
  <2> HIDE DEF Result
  <2> QED
    BY <1>1, <1>3, <2>1, <2>2, ReasonsKept DEF Result
<1>7. ASSUME NEW r \in Requests, ListWorkspaces(r) PROVE Result
  <2>1. /\ at[r] = "list" /\ outcome'[r] = "ok" /\ listed'[r] = memberships
        /\ UNCHANGED <<endpoint, workspace, token, now, dropped, clock, sessions, expires, rebuilt>>
        /\ \A q \in Requests \ {r} : at'[q] = at[q] /\ outcome'[q] = outcome[q] /\ listed'[q] = listed[q]
    BY <1>2, <1>7 DEF ListWorkspaces
  <2>2. \A q \in Requests : Good(q)' <=> Good(q)
    BY <2>1 DEF Good
  <2> HIDE DEF Result
  <2> QED
    BY <1>1, <1>3, <2>1, <2>2, ReasonsKept DEF Result
<1>8. ASSUME NEW r \in Requests, Purge(r) PROVE Result
  <2>1. /\ at[r] = "purge" /\ at'[r] = "get_session"
        /\ sessions' = {t \in sessions : expires[t] > clock[r]}
        /\ UNCHANGED <<endpoint, workspace, token, now, dropped, clock, expires, outcome,
                       listed, rebuilt>>
        /\ \A q \in Requests \ {r} : at'[q] = at[q]
    BY <1>2, <1>8 DEF Purge
  <2>2. \A q \in Requests : Good(q) => Good(q)'
    <3>1. clock[r] <= now
      BY DEF Reasons, Issued
    <3> QED
      BY <1>2, <2>1, <3>1 DEF Good
  <2> HIDE DEF Result
  <2> QED
    BY <1>1, <1>3, <2>1, <2>2, ReasonsKept DEF Result
<1>9. ASSUME NEW r \in Requests, GetSession(r) \/ Authorize(r) PROVE Result
  <2>1. /\ at[r] \in {"get_session", "authorize"}
        /\ at'[r] \in {"list", "authorize", "handler", "ended"}
        /\ at'[r] = "list" => endpoint[r] = "me"
        /\ outcome'[r] # outcome[r] =>
             outcome'[r] = "403" /\ at[r] = "authorize" /\ workspace[r] \notin memberships
        /\ UNCHANGED <<endpoint, workspace, token, now, dropped, clock, sessions, expires,
                       listed, rebuilt>>
        /\ \A q \in Requests \ {r} : at'[q] = at[q] /\ outcome'[q] = outcome[q]
    BY <1>2, <1>9 DEF GetSession, Authorize
  <2>2. \A q \in Requests : Good(q)' <=> Good(q)
    BY <2>1 DEF Good
  <2> HIDE DEF Result
  <2> QED
    BY <1>1, <1>3, <2>1, <2>2, ReasonsKept DEF Result
<1>10. ASSUME NEW r \in Requests, SessionRefused(r) PROVE Result
  <2>1. /\ at[r] = "get_session" /\ ~ Known(r) /\ outcome'[r] = "401" /\ at'[r] = "ended"
        /\ sessions' = sessions \ {token[r]}
        /\ UNCHANGED <<endpoint, workspace, token, now, dropped, clock, expires, listed, rebuilt>>
        /\ \A q \in Requests \ {r} : at'[q] = at[q] /\ outcome'[q] = outcome[q]
    BY <1>2, <1>10 DEF SessionRefused
  <2>2. user
    BY <2>1 DEF Reasons, Seeded, Seeding, In, Building
  <2>3. sessions' = sessions
    BY <2>1, <2>2 DEF Known
  <2>4. \A q \in Requests : Good(q)' <=> Good(q)
    BY <2>1, <2>3 DEF Good
  <2> HIDE DEF Result
  <2> QED
    BY <1>1, <1>3, <2>1, <2>4, ReasonsKept DEF Result
<1>11. ASSUME NEW r \in Requests, ConsoleStep(r) PROVE Result
  <2> DEFINE Facts ==
        /\ at[r] \in ConsoleSteps \union {"handler"}
        /\ at'[r] \in ConsoleSteps \union {"handler", "ended"}
        /\ UNCHANGED unchangedAccess
        /\ \A q \in Requests \ {r} : at'[q] = at[q] /\ outcome'[q] = outcome[q]
        /\ outcome'[r] \notin {"401", "403"}
        /\ outcome'[r] = "ok" => endpoint[r] \notin {"login", "me"}
  <2>1. Facts
    <3> USE DEF ConsoleSteps
    <3>1. CASE Resolve(r) \/ Assign(r) \/ Take(r)
      BY <1>2, <1>3, <1>11, <3>1 DEF Resolve, Assign, Take
    <3>2. CASE Show(r)
      BY <1>2, <1>3, <3>2 DEF Show
    <3>3. ASSUME NEW p \in Patches, Update(r, p) \/ UpdateRefused(r, p) PROVE Facts
      BY <1>2, <1>3, <3>3 DEF Update, UpdateRefused
    <3>4. ASSUME NEW f \in Files, AppendJob(r, f) PROVE Facts
      BY <1>2, <1>3, <3>4 DEF AppendJob
    <3>5. ASSUME NEW o \in {"sent", "error"}, SendTask(r, o) PROVE Facts
      BY <1>2, <1>3, <3>5 DEF SendTask
    <3>6. CASE ReplaceLast(r)
      BY <1>2, <1>3, <3>6 DEF ReplaceLast, Reasons, Once, Taken, Enqueuing
    <3> QED
      BY <1>11, <3>1, <3>2, <3>3, <3>4, <3>5, <3>6 DEF ConsoleStep
  <2>2. UNCHANGED <<endpoint, workspace, token, now, dropped, clock, sessions, expires,
                    listed, rebuilt>>
    BY <2>1 DEF unchangedAccess
  <2>3. \A q \in Requests : Good(q)' <=> Good(q)
    BY <2>2 DEF Good
  <2> HIDE DEF Result
  <2> QED
    BY <1>1, <1>3, <2>1, <2>2, <2>3, ReasonsKept DEF Result, ConsoleSteps
<1>12. ASSUME NEW r \in Requests, NEW t \in Requests \union {NoRequest}, Begin(r, t) PROVE Result
  <2>1. /\ UNCHANGED <<endpoint, workspace, now, dropped, clock, sessions, expires,
                       outcome, listed, rebuilt>>
        /\ at[r] = "start" /\ at'[r] = "get_service" /\ token'[r] = t
        /\ t # NoRequest => endpoint[t] = "login" /\ outcome[t] = "ok"
        /\ \A q \in Requests \ {r} : at'[q] = at[q] /\ token'[q] = token[q]
    BY <1>2, <1>12 DEF Begin
  <2>2. outcome[r] = "none"
    BY <1>1, <2>1 DEF Tokens
  <2>3. \A q \in Requests : Good(q)' <=> Good(q)
    BY <2>1 DEF Good
  <2>4. Issued'
    BY <2>1, <2>2, <2>3 DEF Reasons, Issued
  <2>5. RefusedForReason'
    BY <2>1, <2>2 DEF Reasons, RefusedForReason, Seed
  <2>6. ListsAllWorkspaces'
    BY <2>1, <2>2 DEF Reasons, ListsAllWorkspaces, Seed
  <2> QED
    BY <2>4, <2>5, <2>6
<1>13. CASE Restart
  <2>1. /\ \A q \in Requests :
             /\ at'[q] = IF at[q] = "start" THEN "start" ELSE "ended"
             /\ outcome'[q] = IF at[q] \in {"start", "ended"} THEN outcome[q] ELSE "gone"
        /\ sessions' = {} /\ dropped' = dropped \union sessions
        /\ UNCHANGED <<endpoint, workspace, token, now, clock, expires, listed, rebuilt>>
    BY <1>13 DEF Restart
  <2>2. \A q \in Requests : Good(q) => Good(q)'
    BY <2>1 DEF Good
  <2>3. \A q \in Requests : outcome'[q] \in {outcome[q], "gone"} /\ (outcome[q] = "ok" => outcome'[q] = "ok")
    BY <1>1, <2>1 DEF Tokens
  <2>4. Issued'
    BY <1>1, <2>1, <2>2, <2>3 DEF Reasons, Issued, Tokens
  <2>5. RefusedForReason'
    BY <2>1, <2>3 DEF Reasons, RefusedForReason, Seed
  <2>6. \A q \in Requests : outcome'[q] = "ok" => at[q] = "ended"
    BY <1>1, <2>1 DEF Tokens
  <2>7. ListsAllWorkspaces'
    BY <2>1, <2>3, <2>6 DEF Reasons, ListsAllWorkspaces, Seed
  <2> QED
    BY <1>1, <2>4, <2>5, <2>7 DEF Reasons
<1>14. CASE Tick
  <2>1. /\ now' = now + 1 /\ UNCHANGED <<endpoint, workspace, token, at, dropped, clock, sessions,
                                        expires, outcome, listed, rebuilt>>
    BY <1>14 DEF Tick
  <2>2. \A q \in Requests : /\ clock[q] <= now => clock[q] <= now'
                            /\ expires[q] <= now => expires[q] <= now'
    BY <1>2, <2>1
  <2>3. \A q \in Requests : Good(q) => Good(q)'
    BY <2>1, <2>2 DEF Good
  <2>4. Issued'
    BY <2>1, <2>2, <2>3 DEF Reasons, Issued
  <2>5. RefusedForReason'
    BY <1>2, <2>1, <2>2 DEF Reasons, RefusedForReason, Seed
  <2>6. ListsAllWorkspaces'
    BY <2>1 DEF Reasons, ListsAllWorkspaces, Seed
  <2> QED
    BY <1>1, <2>4, <2>5, <2>6 DEF Reasons
<1>15. CASE UNCHANGED vars
  <2>1. UNCHANGED <<endpoint, workspace, token, now, at, dropped, clock, sessions, expires, outcome,
                    listed, rebuilt>>
    BY <1>15 DEF vars, accessVars
  <2>2. Issued'
    BY <2>1 DEF Reasons, Issued, Good
  <2>3. RefusedForReason' /\ ListsAllWorkspaces'
    BY <2>1 DEF Reasons, RefusedForReason, ListsAllWorkspaces, Seed
  <2> QED
    BY <1>1, <2>2, <2>3 DEF Reasons
<1> QED
  BY <1>1, <1>4, <1>5, <1>6, <1>7, <1>8, <1>9, <1>10, <1>11, <1>12, <1>13, <1>14, <1>15
  DEF Reasons, Next, Step, AccessStep, AccessBegins, RestartConsole

LEMMA ReasonsAlways == Spec => []Reasons
<1> QED
  BY ReasonsInit, ReasonsStep, PTL DEF Spec

\* Nobody is refused without a reason, for any number of requests, tokens, workspaces and
\* restarts, while no two requests build the service at once.
\* (AuthService.authenticate_token, authorize_workspace)
THEOREM AdminRefusedForReason == Spec => []RefusedForReason
<1>1. Reasons => RefusedForReason
  BY DEF Reasons
<1> QED
  BY <1>1, ReasonsAlways, PTL

\* Every login is told all the workspaces, under the same condition.  (AuthService.login)
THEOREM AdminListsAllWorkspaces == Spec => []ListsAllWorkspaces
<1>1. Reasons => ListsAllWorkspaces
  BY DEF Reasons
<1> QED
  BY <1>1, ReasonsAlways, PTL
=============================================================================
