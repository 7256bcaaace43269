---------------------------- MODULE AdminConsole ----------------------------
(***************************************************************************)
(* What a request does once Access has let it in: the endpoints of the     *)
(* admin console and the enqueueing that the console's job list shows.     *)
(* The settings store and the ingestion queue are module globals, built by *)
(* the first request that finds none; an instance is named after the       *)
(* request that built it.  An endpoint of the console resolves the store   *)
(* and then the queue, an endpoint of the files the queue alone.  The      *)
(* queue's list has no lock.                                               *)
(*                                                                         *)
(* The seed user owns its workspaces, so the admin role check lets in      *)
(* every member.  Of the settings, the two that are related are kept.      *)
(***************************************************************************)
EXTENDS Access

CONSTANTS
  Files,
  NoFile,
  SeedSettings,   \* the chunk settings of the environment
  Patches         \* the updates a client may ask for: values for some of the fields

ASSUME FilesAssumption == NoFile \notin Files

Fields == {"size", "overlap"}
Settings == [Fields -> Nat]

Consistent(s) == s["overlap"] < s["size"]

\* BaseServiceSettings.validate_chunking; the patch model bounds each field alone.
ASSUME SettingsAssumption ==
  /\ SeedSettings \in Settings /\ Consistent(SeedSettings)
  /\ \A p \in Patches : DOMAIN p \subseteq Fields /\ \A f \in DOMAIN p : p[f] \in Nat
ASSUME ConsoleAssumption ==
  Endpoints = {"get_settings", "patch_settings", "list_jobs", "upload", "reprocess"}

VARIABLES
  built,      \* the instance each global holds
  held,       \* the instances each request has taken
  settings,   \* the settings of each store
  jobs,       \* the jobs of each queue
  file,       \* the file each request enqueues
  sent,       \* what became of its send_task
  finders,    \* history: per global, the requests of this process that found none
  twice,      \* history: the globals two of one process found missing
  acked,      \* history: the seed and the updates acknowledged since, in order
  order,      \* history: the requests that appended a job, in order
  crossed     \* history: whether two enqueues overlapped

console == <<built, held, settings, jobs, file, sent>>
consoleHistory == <<finders, twice, acked, order, crossed>>
consoleVars == <<console, consoleHistory>>
vars == <<accessVars, consoleVars>>

Globals == {"store", "queue"}
Job == [call : Requests, file : Files, outcome : {"none", "sent", "error"}]
ConsoleSteps == {"assign", "take", "apply", "send", "replace"}

ConsoleTypeOK ==
  /\ AccessTypeOK
  /\ at       \in [Requests -> AccessSteps \union ConsoleSteps]
  /\ built    \in [Globals -> Requests \union {NoRequest}]
  /\ held     \in [Requests -> [Globals -> Requests \union {NoRequest}]]
  /\ settings \in [Requests -> Settings]
  /\ jobs     \in [Requests -> Seq(Job)]
  /\ file     \in [Requests -> Files \union {NoFile}]
  /\ sent     \in [Requests -> {"none", "sent", "error"}]
  /\ finders  \in [Globals -> SUBSET Requests]
  /\ twice    \in SUBSET Globals
  /\ acked    \in Settings
  /\ order    \in Seq(Requests)
  /\ crossed  \in BOOLEAN

Init ==
  /\ AccessInit
  /\ built    = [g \in Globals |-> NoRequest]
  /\ held     = [r \in Requests |-> [g \in Globals |-> NoRequest]]
  /\ settings = [r \in Requests |-> SeedSettings]
  /\ jobs     = [r \in Requests |-> <<>>]
  /\ file     = [r \in Requests |-> NoFile]
  /\ sent     = [r \in Requests |-> "none"]
  /\ finders  = [g \in Globals |-> {}]
  /\ twice    = {}
  /\ acked    = SeedSettings
  /\ order    = <<>>
  /\ crossed  = FALSE

-----------------------------------------------------------------------------
(* _get_settings_store and _resolve_ingestion_queue *)

\* get_admin_service resolves both, get_file_service the queue.
Needs(r) ==
  IF endpoint[r] \in {"get_settings", "patch_settings", "list_jobs"} THEN Globals ELSE {"queue"}

\* The one that is resolved next: the store first.
GlobalOf(r) ==
  IF "store" \in Needs(r) /\ held[r]["store"] = NoRequest THEN "store" ELSE "queue"

unchangedAccess ==
  <<now, repository, expires, given, local, accessHistory>>

Resolve(r) ==
  LET g == GlobalOf(r)
  IN /\ at[r] = "handler"
     /\ IF built[g] # NoRequest
          THEN Goto(r, "take") /\ UNCHANGED <<finders, twice>>
          ELSE /\ Goto(r, "assign")
               /\ finders' = [finders EXCEPT ![g] = @ \union {r}]
               /\ twice' = IF finders[g] # {} THEN twice \union {g} ELSE twice
     /\ UNCHANGED <<unchangedAccess, outcome, console, acked, order, crossed>>

Assign(r) ==
  /\ at[r] = "assign"
  /\ built' = [built EXCEPT ![GlobalOf(r)] = r]
  /\ Goto(r, "take")
  /\ UNCHANGED <<unchangedAccess, outcome, held, settings, jobs, file, sent, consoleHistory>>

\* The global is read again: it may be another's instance by now.
Take(r) ==
  /\ at[r] = "take"
  /\ held' = [held EXCEPT ![r][GlobalOf(r)] = built[GlobalOf(r)]]
  /\ Goto(r, IF GlobalOf(r) = "store" THEN "handler" ELSE "apply")
  /\ UNCHANGED <<unchangedAccess, outcome, built, settings, jobs, file, sent, consoleHistory>>

-----------------------------------------------------------------------------
\* get_settings, list_ingestion_jobs: what they show is what the properties are about.
Show(r) ==
  /\ at[r] = "apply" /\ endpoint[r] \in {"get_settings", "list_jobs"}
  /\ Answer(r, "ok")
  /\ UNCHANGED <<unchangedAccess, consoleVars>>

\* (Faulty variant first: the fields that are not given fall back to the environment's.)
MergedOnSeed(s, p) == [f \in Fields |-> IF f \in DOMAIN p THEN p[f] ELSE SeedSettings[f]]

Merged(s, p) == [f \in Fields |-> IF f \in DOMAIN p THEN p[f] ELSE s[f]]

\* (Faulty variant first: the patch is validated against the environment's settings.)
AcceptedOnSeed(s, p) == DOMAIN p # {} /\ Consistent(MergedOnSeed(s, p))

Accepted(s, p) == DOMAIN p # {} /\ Consistent(Merged(s, p))

\* AdminSettingsStore.update, under the store's lock.
Update(r, p) ==
  LET next == Merged(settings[held[r]["store"]], p)
  IN /\ at[r] = "apply" /\ endpoint[r] = "patch_settings"
     /\ Accepted(settings[held[r]["store"]], p)
     /\ settings' = [settings EXCEPT ![held[r]["store"]] = next]
     /\ acked' = [f \in Fields |-> IF f \in DOMAIN p THEN p[f] ELSE acked[f]]
     /\ Answer(r, "ok")
     /\ UNCHANGED <<unchangedAccess, built, held, jobs, file, sent, finders, twice, order, crossed>>

UpdateRefused(r, p) ==
  /\ at[r] = "apply" /\ endpoint[r] = "patch_settings"
  /\ ~ Accepted(settings[held[r]["store"]], p)
  /\ Answer(r, "400")
  /\ UNCHANGED <<unchangedAccess, consoleVars>>

-----------------------------------------------------------------------------
(* CeleryDispatchingIngestionQueue.enqueue *)

Enqueuing(r) == at[r] \in {"send", "replace"}

\* Uploads run on the event loop, one at a time; a reprocess runs in a pool thread.
LoopFree(r) ==
  endpoint[r] = "upload" => \A q \in Requests : Enqueuing(q) => endpoint[q] # "upload"

AppendJob(r, f) ==
  LET q == held[r]["queue"]
  IN /\ at[r] = "apply" /\ endpoint[r] \in {"upload", "reprocess"}
     /\ LoopFree(r)
     /\ jobs' = [jobs EXCEPT ![q] = Append(@, [call |-> r, file |-> f, outcome |-> "none"])]
     /\ file' = [file EXCEPT ![r] = f]
     /\ Goto(r, "send")
     /\ order' = Append(order, r)
     /\ crossed' = (crossed \/ \E p \in Requests : Enqueuing(p))
     /\ UNCHANGED <<unchangedAccess, outcome, built, held, settings, sent, finders, twice, acked>>

SendTask(r, o) ==
  /\ at[r] = "send"
  /\ sent' = [sent EXCEPT ![r] = o]
  /\ Goto(r, "replace")
  /\ UNCHANGED <<unchangedAccess, outcome, built, held, settings, jobs, file, consoleHistory>>

\* jobs[-1] is whichever job is last by now.
\* (Faulty variant first: the outcome is appended as a job of its own.)
ReplaceLastAppends(r) ==
  LET q == held[r]["queue"]
  IN /\ at[r] = "replace"
     /\ jobs' = [jobs EXCEPT ![q] =
          Append(@, [call |-> r, file |-> file[r], outcome |-> sent[r]])]
     /\ Answer(r, "ok")
     /\ UNCHANGED <<unchangedAccess, built, held, settings, file, sent, consoleHistory>>

ReplaceLast(r) ==
  LET q == held[r]["queue"]
  IN /\ at[r] = "replace"
     /\ jobs' = [jobs EXCEPT ![q] =
          [@ EXCEPT ![Len(@)] = [call |-> r, file |-> file[r], outcome |-> sent[r]]]]
     /\ Answer(r, "ok")
     /\ UNCHANGED <<unchangedAccess, built, held, settings, file, sent, consoleHistory>>

-----------------------------------------------------------------------------
\* Instances die with their process; a later one of the same name starts from the seed.
RestartConsole ==
  /\ Restart
  /\ built' = [g \in Globals |-> NoRequest]
  /\ finders' = [g \in Globals |-> {}]
  /\ acked' = SeedSettings
  /\ order' = <<>>
  /\ UNCHANGED <<held, settings, jobs, file, sent, twice, crossed>>

ConsoleStep(r) ==
  \/ Resolve(r) \/ Assign(r) \/ Take(r)
  \/ Show(r)
  \/ \E p \in Patches : Update(r, p) \/ UpdateRefused(r, p)
  \/ \E f \in Files : AppendJob(r, f)
  \/ \E o \in {"sent", "error"} : SendTask(r, o)
  \/ ReplaceLast(r)

Step(r) == ConsoleStep(r) \/ (AccessStep(r) /\ UNCHANGED consoleVars)

Next ==
  \/ \E r \in Requests : Step(r)
  \/ AccessBegins /\ UNCHANGED consoleVars
  \/ Tick /\ UNCHANGED consoleVars
  \/ RestartConsole

Spec == Init /\ [][Next]_vars

\* A request that is under way is run by its thread.
Fairness == \A r \in Requests : WF_vars(Step(r))

FairSpec == Spec /\ Fairness

-----------------------------------------------------------------------------
(* Properties *)

\* Whatever the order of the updates, every store has an overlap below its chunk size:
\* a patch of one field is checked against the other as it is then.
\* (AdminSettingsStore.update)
SettingsUsable == \A r \in Requests : Consistent(settings[r])

\* The settings are those of the environment with every acknowledged update on top,
\* unless two requests found no store: then an update may have gone to the store
\* that was replaced.  (_get_settings_store, AdminSettingsStore.update)
UpdatesKept ==
  ("store" \notin twice /\ built["store"] # NoRequest) => settings[built["store"]] = acked

\* The job list has one job per enqueue, in their order, each with the outcome of its
\* own dispatch, unless enqueues overlapped or two requests found no queue.
\* (CeleryDispatchingIngestionQueue.enqueue, AdminService.list_ingestion_jobs)
EveryEnqueueListed ==
  (~ crossed /\ "queue" \notin twice /\ built["queue"] # NoRequest) =>
    LET shown == jobs[built["queue"]]
    IN /\ Len(shown) = Len(order)
       /\ \A i \in 1 .. Len(order) :
            LET r == order[i]
            IN shown[i] = [call |-> r, file |-> file[r],
                           outcome |-> IF Enqueuing(r) THEN "none" ELSE sent[r]]

\* Every request that begins is answered, or dropped by a restart, so that in the end
\* none is under way: the lock that put_membership holds is given back.  (InMemoryAuthRepository._lock)
RequestsAnswered == <>[](\A r \in Requests : at[r] \in {"start", "ended"})
=============================================================================
