------------------------------ MODULE ChatPage ------------------------------
(***************************************************************************)
(* The chat page of the web client.  Every handler of the page is a flow:  *)
(* it makes calls of ChatService one after the other and goes on with what *)
(* it has captured, whatever the user does meanwhile.  Only the loading of *)
(* a workspace is cancelled when another one is selected.                  *)
(*                                                                         *)
(* A flow of another client asks a question in a session of its own        *)
(* choice.  The page's file options, selection and citations are left out. *)
(* Where a workspace is loaded, its files are asked for together with its  *)
(* sessions and nothing happens before both are there: the two calls are   *)
(* one, which fails if either does.  The files a handler asks for at its   *)
(* end matter by failing only: "files" is that call, answered at once.     *)
(***************************************************************************)
EXTENDS AskPanel

CONSTANTS
  Home,      \* the workspace that is selected at the start
  Plans      \* bound: what users do and how often, what retrieval finds and how many
             \* calls fail in a behaviour

Kinds == {"load", "open", "create", "submit", "ask", "other"}

\* A question whose handler gave up while the server was at it, and a list of sessions
\* whose handler did.
Abandoned == {"lost", "late"}

ASSUME PageAssumption ==
  /\ Home \in Workspaces
  /\ Plans \subseteq [moves : SUBSET (Kinds \union {"switch"}), library : Libraries,
                    flows : Nat, mishaps : 0 .. MaxMishaps]

VARIABLES
  plan,       \* the one of this behaviour
  kind,       \* what each flow is, "unused" if it has not begun; it is over when at is "idle"
  epochOf,    \* the epoch a load was begun in
  epoch,      \* how often another workspace was selected
  workspace,  \* activeWorkspaceId
  listed,     \* chatSessions
  active,     \* activeSessionId
  thread,     \* messages
  sending,    \* isSending
  unsettled   \* history: a move during a call that is not cancelled, or a load that failed

page == <<workspace, listed, active, thread, sending>>
flows == <<kind, epochOf, epoch>>
vars == <<chatVars, panel, page, flows, plan, unsettled>>

PageTypeOK ==
  /\ ChatTypeOK /\ PanelTypeOK
  /\ plan      \in Plans
  /\ kind      \in [Flows -> Kinds \union Abandoned \union {"unused"}]
  /\ epochOf   \in [Flows -> Nat]
  /\ epoch     \in Nat
  /\ workspace \in Workspaces
  /\ listed    \in SUBSET Sessions
  /\ active    \in Sessions \union {NoSession}
  /\ thread    \in [Flows -> Shown]
  /\ sending   \in BOOLEAN
  /\ unsettled \in BOOLEAN

Init ==
  /\ ChatInit /\ PanelInit
  /\ plan \in Plans /\ library = plan.library /\ mishaps = plan.mishaps
  /\ kind      = [m \in Flows |-> "unused"]
  /\ epochOf   = [m \in Flows |-> 0]
  /\ epoch     = 0
  /\ workspace = Home
  /\ listed    = {}
  /\ active    = NoSession
  /\ thread    = Nothing
  /\ sending   = FALSE
  /\ unsettled = FALSE

-----------------------------------------------------------------------------
(* Flows.  They begin in the order of their numbers. *)

Fresh(m) ==
  /\ m <= plan.flows
  /\ kind[m] = "unused" /\ \A n \in Flows : kind[n] = "unused" => m <= n

Becomes(m, k) ==
  /\ kind' = [kind EXCEPT ![m] = k]
  /\ epochOf' = [epochOf EXCEPT ![m] = IF k = "load" THEN epoch ELSE 0]

Ends(m) ==
  /\ Goto(m, "idle")
  /\ reply' = [reply EXCEPT ![m] = Failed]
  /\ UNCHANGED <<op, access, session>>

\* The load of a workspace that is no longer the one selected does nothing more.
\* (Faulty variant first: the token is not looked at.)
NeverStale(m) == FALSE

Stale(m) == kind[m] = "load" /\ epochOf[m] # epoch

\* What is under way and will change the page when it is answered.
Pending(m) ==
  /\ at[m] # "idle"
  /\ \/ kind[m] \in {"open", "create", "submit", "late"}
     \/ kind[m] = "load" /\ epochOf[m] = epoch

Moving == unsettled' = (unsettled \/ \E m \in Flows : Pending(m))

rest == <<library, repository, mishaps, contended, plan>>

\* The page loads its workspace.  (bootstrap)
Load(m) ==
  /\ Fresh(m)
  /\ \A n \in Flows : kind[n] = "unused"
  /\ Becomes(m, "load")
  /\ Send(m, "list", workspace, NoSession)
  /\ UNCHANGED <<rest, panel, page, epoch, unsettled>>

Began == \E n \in Flows : kind[n] # "unused"

\* onWorkspaceChange, and the load that the new session causes.
Switch(m, w) ==
  /\ "switch" \in plan.moves /\ Began
  /\ Fresh(m)
  /\ w # workspace
  /\ workspace' = w
  /\ listed' = {} /\ active' = NoSession /\ thread' = Nothing
  /\ epoch' = epoch + 1
  /\ kind' = [kind EXCEPT ![m] = "load"]
  /\ epochOf' = [epochOf EXCEPT ![m] = epoch + 1]
  /\ Send(m, "list", w, NoSession)
  /\ unsettled' = (unsettled \/ \E n \in Flows : Pending(n) /\ kind[n] # "load")
  /\ ResetPanel
  /\ UNCHANGED <<rest, sending>>

\* onOpenSession
Open(m, s) ==
  /\ "open" \in plan.moves /\ Began
  /\ Fresh(m)
  /\ s \in listed
  /\ active' = s
  /\ Becomes(m, "open")
  /\ Send(m, "get", workspace, s)
  /\ Moving
  /\ UNCHANGED <<rest, panel, workspace, listed, thread, sending, epoch>>

\* onCreateSession
Create(m) ==
  /\ "create" \in plan.moves /\ Began
  /\ Fresh(m)
  /\ Becomes(m, "create")
  /\ Send(m, "create", workspace, NoSession)
  /\ Moving
  /\ UNCHANGED <<rest, panel, page, epoch>>

\* onSubmitQuery: without an active session one is created first.
Submit(m) ==
  /\ "submit" \in plan.moves /\ Began
  /\ Fresh(m)
  /\ ~ sending
  /\ sending' = TRUE
  /\ Becomes(m, "submit")
  /\ IF active = NoSession
       THEN Send(m, "create", workspace, NoSession) /\ UNCHANGED thread
       ELSE /\ thread' = [thread EXCEPT ![m] = "waiting"]
            /\ Send(m, "query", workspace, active)
  /\ Moving
  /\ UNCHANGED <<rest, panel, workspace, listed, active, epoch>>

\* onUploadAndAsk
UploadAndAsk(m) ==
  /\ "ask" \in plan.moves /\ Began
  /\ Fresh(m)
  /\ Becomes(m, "ask")
  /\ Send(m, "upload", workspace, NoSession)
  /\ error' = FALSE
  /\ UNCHANGED <<rest, asked, request, status, polling, polls, overtaken, page, epoch, unsettled>>

\* Another client asks in a session, or for a new one; its session may be of another
\* workspace.
OtherAsks(m, w, s) ==
  /\ "other" \in plan.moves /\ Began
  /\ Fresh(m)
  /\ s \in Existing \union {NoSession}
  /\ Becomes(m, "other")
  /\ Send(m, "query", w, s)
  /\ UNCHANGED <<rest, panel, page, epoch, unsettled>>

-----------------------------------------------------------------------------
(* What a flow does with the reply to its call. *)

Replied(m, k, o) == kind[m] = k /\ op[m] = o /\ at[m] = "answered"

server == <<library, repository, mishaps, contended, panel, flows, plan>>

LoadListed(m) ==
  LET first == reply[m].first
  IN /\ Replied(m, "load", "list")
     /\ IF Stale(m) \/ ~ reply[m].ok
          THEN Ends(m) /\ UNCHANGED <<listed, active, thread>>
          ELSE /\ listed' = reply[m].rows
               /\ active' = first
               /\ IF first = NoSession
                    THEN thread' = Nothing /\ Ends(m)
                    ELSE Send(m, "get", access[m], first) /\ UNCHANGED thread
     /\ unsettled' = (unsettled \/ (~ Stale(m) /\ ~ reply[m].ok))
     /\ UNCHANGED <<server, workspace, sending>>

\* loadSessionMessages, after a list or after onOpenSession.
Loaded(m, k) ==
  /\ Replied(m, k, "get")
  /\ thread' = IF ~ Stale(m) /\ reply[m].ok THEN reply[m].thread ELSE thread
  /\ unsettled' = (unsettled \/ (~ Stale(m) /\ ~ reply[m].ok))
  /\ Ends(m)
  /\ UNCHANGED <<server, workspace, listed, active, sending>>

Created(m) ==
  /\ Replied(m, "create", "create")
  /\ IF reply[m].ok
       THEN /\ listed' = listed \union {m}
            /\ active' = m
            /\ thread' = Nothing
       ELSE UNCHANGED <<listed, active, thread>>
  /\ Ends(m)
  /\ UNCHANGED <<server, workspace, sending, unsettled>>

\* The two messages are added now; a failure leaves an error message alone.
SubmitCreated(m) ==
  /\ Replied(m, "submit", "create")
  /\ IF reply[m].ok
       THEN /\ active' = m
            /\ thread' = [thread EXCEPT ![m] = "waiting"]
            /\ Send(m, "query", access[m], m)
            /\ UNCHANGED sending
       ELSE /\ thread' = [thread EXCEPT ![m] = "failed"]
            /\ sending' = FALSE
            /\ Ends(m)
            /\ UNCHANGED active
  /\ UNCHANGED <<server, workspace, listed, unsettled>>

\* The handler fills in its own message, if the page still has it.
Fill(m, shown) ==
  thread' = IF thread[m] \in {"waiting", "shown"} THEN [thread EXCEPT ![m] = shown] ELSE thread

Answered(m) ==
  /\ Replied(m, "submit", "query")
  /\ IF reply[m].ok
       THEN /\ Fill(m, "shown")
            /\ Send(m, "list", access[m], session[m])
            /\ UNCHANGED sending
       ELSE /\ Fill(m, "failed")
            /\ sending' = FALSE
            /\ Ends(m)
  /\ UNCHANGED <<server, workspace, listed, active, unsettled>>

\* The query fails for the page while the server is at it, and will be answered to nobody.
QueryLost(m) ==
  /\ kind[m] = "submit" /\ op[m] = "query" /\ at[m] \notin {"idle", "answered"}
  /\ Mishap
  /\ kind' = [kind EXCEPT ![m] = "lost"]
  /\ Fill(m, "failed")
  /\ sending' = FALSE
  /\ UNCHANGED <<library, repository, calls, contended, panel, epochOf, epoch, workspace,
                 listed, active, plan, unsettled>>

\* After the answer sessions and files are asked for together.  If the sessions fail, the
\* handler puts the error over the answer.
Refreshed(m) ==
  /\ Replied(m, "submit", "list")
  /\ IF reply[m].ok
       THEN /\ listed' = reply[m].rows
            /\ op' = [op EXCEPT ![m] = "files"]
            /\ UNCHANGED <<at, access, session, reply, thread, sending>>
       ELSE /\ Fill(m, "failed")
            /\ sending' = FALSE
            /\ Ends(m)
            /\ UNCHANGED listed
  /\ UNCHANGED <<server, workspace, active, unsettled>>

\* If only the files fail, it does too.
\* (Faulty variant first: the flag is reset only when all went well.)
FilesRefreshedKeeps(m) ==
  /\ Replied(m, "submit", "files")
  /\ IF reply[m].ok
       THEN sending' = FALSE /\ UNCHANGED thread
       ELSE Fill(m, "failed") /\ UNCHANGED sending
  /\ Ends(m)
  /\ UNCHANGED <<server, workspace, listed, active, unsettled>>

FilesRefreshed(m) ==
  /\ Replied(m, "submit", "files")
  /\ IF reply[m].ok THEN UNCHANGED thread ELSE Fill(m, "failed")
  /\ sending' = FALSE
  /\ Ends(m)
  /\ UNCHANGED <<server, workspace, listed, active, unsettled>>

\* If they fail first, the handler ends and the sessions are still to come.
FilesFail(m) ==
  /\ kind[m] = "submit" /\ op[m] = "list" /\ at[m] # "idle"
  /\ Mishap
  /\ kind' = [kind EXCEPT ![m] = "late"]
  /\ Fill(m, "failed")
  /\ sending' = FALSE
  /\ UNCHANGED <<library, repository, calls, contended, panel, epochOf, epoch, workspace,
                 listed, active, plan, unsettled>>

RefreshedLate(m) ==
  /\ Replied(m, "late", "list")
  /\ listed' = IF reply[m].ok THEN reply[m].rows ELSE listed
  /\ Ends(m)
  /\ UNCHANGED <<server, workspace, active, thread, sending, unsettled>>

AskCreated(m) ==
  /\ Replied(m, "ask", "upload")
  /\ IF reply[m].ok
       THEN /\ PollFor(m)
            /\ op' = [op EXCEPT ![m] = "files"]
            /\ UNCHANGED <<at, access, session, reply, error>>
       ELSE /\ error' = TRUE
            /\ Ends(m)
            /\ UNCHANGED <<request, status, polling, overtaken>>
  /\ UNCHANGED <<library, repository, mishaps, contended, asked, polls, page, flows, plan,
                 unsettled>>

\* The error of the files is shown, and the polling goes on.
AskRefreshed(m) ==
  /\ Replied(m, "ask", "files")
  /\ error' = (error \/ ~ reply[m].ok)
  /\ Ends(m)
  /\ UNCHANGED <<library, repository, mishaps, contended, asked, request, status, polling, polls,
                 overtaken, page, flows, plan, unsettled>>

\* Nobody of the page waits for it.
OtherDone(m) ==
  /\ Replied(m, "other", "query") \/ Replied(m, "lost", "query")
  /\ Ends(m)
  /\ UNCHANGED <<server, page, unsettled>>

-----------------------------------------------------------------------------
PageStep(m) ==
  \/ Load(m)
  \/ LoadListed(m) \/ Loaded(m, "load") \/ Loaded(m, "open")
  \/ Created(m) \/ SubmitCreated(m) \/ Answered(m)
  \/ Refreshed(m) \/ FilesRefreshed(m) \/ RefreshedLate(m)
  \/ AskCreated(m) \/ AskRefreshed(m) \/ OtherDone(m)

client == <<page, flows, plan, unsettled>>

ApiStep(m) ==
  \/ ServeStep(m) /\ UNCHANGED <<panel, client>>
  \/ CreateRequest(m) /\ UNCHANGED client

PollStep(p) ==
  \/ Poll(p, workspace) /\ UNCHANGED client
  \/ PollAnswered(p) /\ UNCHANGED client
  \/ PollDelivered(p, workspace) /\ UNCHANGED client

Move(m) ==
  \/ \E w \in Workspaces : Switch(m, w)
  \/ \E s \in Sessions : Open(m, s)
  \/ Create(m) \/ Submit(m) \/ UploadAndAsk(m)
  \/ \E w \in Workspaces, s \in Sessions \union {NoSession} : OtherAsks(m, w, s)

Next ==
  \/ \E m \in Flows :
       \/ PageStep(m) \/ ApiStep(m) \/ Move(m)
       \/ CallFails(m) /\ UNCHANGED <<panel, client>>
       \/ QueryLost(m) \/ FilesFail(m)
       \/ RequestEnds(m) /\ UNCHANGED client
  \/ \E p \in Polls : PollStep(p)

Spec == Init /\ [][Next]_vars

\* The API serves the calls that arrive, the browser runs what is answered and fires its
\* timers.  Nothing makes a request end.
Fairness ==
  /\ \A m \in Flows : WF_vars(PageStep(m) \/ ApiStep(m))
  /\ \A p \in Polls : WF_vars(PollStep(p))

FairSpec == Spec /\ Fairness

-----------------------------------------------------------------------------
(* Properties *)

Quiet == \A m \in Flows : ~ Pending(m)

\* A quiet page shows one workspace and one session of it, unless the user moved on
\* during a call that is not cancelled, or a load failed: however often another
\* workspace is selected before the last one is loaded.  The error of a question no
\* session could be created for belongs to none.
\* (ChatClientPage, CancelToken, onWorkspaceChange)
OneSessionShown ==
  (Quiet /\ ~ unsettled) =>
    /\ listed \subseteq SessionsOf(workspace)
    /\ active # NoSession => active \in SessionsOf(workspace)
    /\ \A m \in Flows : (thread[m] # "absent" /\ session[m] # NoSession) => session[m] = active

\* What a quiet page shows is in the repository: no answer of its own or another's that
\* is not stored, and none of its own questions to the session is missing, but for one
\* its handler gave up: the server may store that after the page has read the session.
\* (onSubmitQuery, loadSessionMessages, ChatService.get_session)
ThreadStored ==
  (Quiet /\ ~ unsettled) =>
    \A m \in Flows :
      /\ thread[m] \in {"shown", "answered"} => stored[m] = "answer"
      /\ thread[m] = "question" => stored[m] # "none"
      /\ (/\ kind[m] \in {"submit", "late"} /\ stored[m] # "none"
          /\ active # NoSession /\ session[m] = active) => thread[m] # "absent"

\* Whatever fails, the page can send again.  (onSubmitQuery)
SendingEnds == []<> ~ sending
=============================================================================
