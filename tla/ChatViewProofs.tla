--------------------------- MODULE ChatViewProofs ---------------------------
(***************************************************************************)
(* Proofs about what the chat page shows: the end of a request it has      *)
(* polled for, one session of one workspace, and nothing that is not       *)
(* stored.                                                                 *)
(***************************************************************************)
EXTENDS ChatPageProofs

-----------------------------------------------------------------------------
(* The end of a request *)

Uploading(m) == op[m] = "upload" /\ at[m] # "idle"

\* When the page has stopped polling with no poll in flight, it shows an end, or the next
\* request is being made, whose outcome will be shown.
Ended ==
  (request # NoSession /\ ~ polling /\ ~ overtaken) =>
    /\ \A p \in Polls : ~ InFlight(p)
    /\ status = "ended" \/ error \/ \E m \in Flows : Uploading(m)

ViewOfRequest == <<request, status, error, polling, polls, overtaken>>

\* A flow in its turn leaves every other flow as it is.
Others(m) ==
  \A q \in Flows \ {m} : /\ at'[q] = at[q] /\ op'[q] = op[q] /\ access'[q] = access[q]
                         /\ session'[q] = session[q] /\ reply'[q] = reply[q]

LEMMA SendOthers ==
  ASSUME Exchanges, NEW m \in Flows, NEW o, NEW w, NEW s, Send(m, o, w, s)
  PROVE  /\ Others(m)
         /\ at'[m] = "sent" /\ op'[m] = o /\ access'[m] = w /\ session'[m] = s /\ reply'[m] = Failed
<1>1. ChatTypeOK
  BY DEF Exchanges, Typed, CallsTyped
<1> QED
  BY <1>1 DEF Send, Goto, Others, ChatTypeOK

LEMMA EndsOthers ==
  ASSUME Exchanges, NEW m \in Flows, Ends(m)
  PROVE  /\ Others(m)
         /\ at'[m] = "idle" /\ reply'[m] = Failed /\ UNCHANGED <<op, access, session>>
<1>1. ChatTypeOK
  BY DEF Exchanges, Typed, CallsTyped
<1> QED
  BY <1>1 DEF Ends, Goto, Others, ChatTypeOK

LEMMA FilesOthers ==
  ASSUME Exchanges, NEW m \in Flows, op' = [op EXCEPT ![m] = "files"],
         UNCHANGED <<at, access, session, reply>>
  PROVE  Others(m) /\ op'[m] = "files"
<1>1. ChatTypeOK
  BY DEF Exchanges, Typed, CallsTyped
<1> QED
  BY <1>1 DEF Others, ChatTypeOK

\* A call stays the one it is while the API serves it.
LEMMA ServeKeeps ==
  ASSUME Exchanges, NEW m \in Flows, ServeStep(m)
  PROVE  /\ op' = op /\ access' = access /\ at[m] # "idle" /\ at'[m] # "idle"
         /\ \A q \in Flows \ {m} : at'[q] = at[q] /\ session'[q] = session[q]
                                   /\ reply'[q] = reply[q]
<1>1. ChatTypeOK
  BY DEF Exchanges, Typed, CallsTyped
<1>2. CASE CreateSession(m) \/ ListEnd(m) \/ GetSession(m) \/ AskRefused(m) \/ GenerateRaises(m)
           \/ Touch(m)
  <2>1. /\ \E r : Answer(m, r)
        /\ op' = op /\ access' = access /\ session' = session /\ at[m] # "idle"
    BY <1>2 DEF CreateSession, ListEnd, GetSession, AskRefused, GenerateRaises, Touch, Sent
  <2> QED
    BY <1>1, <2>1 DEF Answer, ChatTypeOK
<1>3. CASE ListBegin(m) \/ QueryInNew(m) \/ QueryIn(m) \/ Ask(m) \/ AppendAnswer(m)
  BY <1>1, <1>3 DEF ListBegin, QueryInNew, QueryIn, Ask, AppendAnswer, Sent, Goto, ChatTypeOK
<1>4. ASSUME NEW files \in SUBSET Files, RetrieveAndAnswer(m, files)
      PROVE  /\ op' = op /\ access' = access /\ session' = session /\ reply' = reply
             /\ at[m] # "idle" /\ at' = [at EXCEPT ![m] = "append_answer"]
  BY <1>4 DEF RetrieveAndAnswer, Goto
<1> QED
  BY <1>1, <1>2, <1>3, <1>4 DEF ServeStep, ChatTypeOK

LEMMA EndedStep ==
  ASSUME Exchanges, Ended, [Next]_vars
  PROVE  Ended'
<1>1. ChatTypeOK /\ PanelTypeOK /\ \A m \in Flows : Placed(m)
  BY DEF Exchanges, Typed, CallsTyped, PanelTyped
<1>2. ASSUME UNCHANGED ViewOfRequest, \A m \in Flows : Uploading(m) => Uploading(m)'
      PROVE  Ended'
  BY <1>2 DEF Ended, ViewOfRequest, InFlight
<1>3. ASSUME NEW m \in Flows, UNCHANGED ViewOfRequest, Others(m), ~ Uploading(m)
      PROVE  Ended'
  BY <1>2, <1>3 DEF Others, Uploading
<1>4. ASSUME NEW m \in Flows, Fresh(m) PROVE ~ Uploading(m)
  BY <1>1, <1>4 DEF Fresh, Placed, Uploading
<1>5. ASSUME UNCHANGED panel PROVE UNCHANGED ViewOfRequest
  BY <1>5 DEF panel, ViewOfRequest
<1>6. ASSUME NEW m \in Flows, Move(m) PROVE Ended'
  <2>1. ASSUME NEW w \in Workspaces, Switch(m, w) PROVE Ended'
    BY <2>1 DEF Switch, ResetPanel, Ended
  <2>2. ASSUME NEW s \in Sessions, Open(m, s) PROVE Ended'
    BY <1>3, <1>4, <1>5, <2>2, SendOthers DEF Open
  <2>3. CASE Create(m)
    BY <1>3, <1>4, <1>5, <2>3, SendOthers DEF Create
  <2>4. CASE Submit(m)
    BY <1>3, <1>4, <1>5, <2>4, SendOthers DEF Submit
  <2>5. CASE UploadAndAsk(m)
    <3>1. Uploading(m)' /\ UNCHANGED <<request, status, polling, polls, overtaken>>
      BY <2>5, SendOthers DEF UploadAndAsk, Uploading
    <3> QED
      BY <3>1 DEF Ended, InFlight
  <2>6. ASSUME NEW w \in Workspaces, NEW s \in Sessions \union {NoSession}, OtherAsks(m, w, s)
        PROVE  Ended'
    BY <1>3, <1>4, <1>5, <2>6, SendOthers DEF OtherAsks
  <2> QED
    BY <1>6, <2>1, <2>2, <2>3, <2>4, <2>5, <2>6 DEF Move
<1>7. ASSUME NEW m \in Flows, PageStep(m) PROVE Ended'
  <2>1. CASE Load(m)
    BY <1>3, <1>4, <1>5, <2>1, SendOthers DEF Load
  <2>2. ASSUME UNCHANGED server, op[m] # "upload",
               \/ Ends(m) \/ \E o, w, s : Send(m, o, w, s)
               \/ op' = [op EXCEPT ![m] = "files"] /\ UNCHANGED <<at, access, session, reply>>
        PROVE  Ended'
    BY <1>3, <1>5, <2>2, SendOthers, EndsOthers, FilesOthers DEF server, Uploading
  <2>3. CASE AskCreated(m)
    <3>1. CASE reply[m].ok
      BY <2>3, <3>1 DEF AskCreated, PollFor, Ended
    <3>2. CASE ~ reply[m].ok
      BY <2>3, <3>2 DEF AskCreated, Ended, InFlight
    <3> QED
      BY <3>1, <3>2
  <2>4. CASE LoadListed(m)
    BY <2>2, <2>4 DEF LoadListed, Replied
  <2>5. CASE Loaded(m, "load") \/ Loaded(m, "open")
    BY <2>2, <2>5 DEF Loaded, Replied
  <2>6. CASE Created(m)
    BY <2>2, <2>6 DEF Created, Replied
  <2>7. CASE SubmitCreated(m)
    BY <2>2, <2>7 DEF SubmitCreated, Replied
  <2>8. CASE Answered(m)
    BY <2>2, <2>8 DEF Answered, Replied
  <2>9. CASE Refreshed(m) \/ FilesRefreshed(m) \/ RefreshedLate(m) \/ OtherDone(m)
    BY <2>2, <2>9 DEF Refreshed, FilesRefreshed, RefreshedLate, OtherDone, Replied
  <2>10. CASE AskRefreshed(m)
    <3>1. /\ op[m] = "files" /\ Ends(m) /\ (error => error')
          /\ UNCHANGED <<request, status, polling, polls, overtaken>>
      BY <2>10 DEF AskRefreshed, Replied
    <3>2. \A q \in Flows : Uploading(q) => Uploading(q)'
      BY <3>1, EndsOthers DEF Others, Uploading
    <3> QED
      BY <3>1, <3>2 DEF Ended, InFlight
  <2> QED
    BY <1>7, <2>1, <2>3, <2>4, <2>5, <2>6, <2>7, <2>8, <2>9, <2>10 DEF PageStep
<1>8. ASSUME NEW r, NEW m \in Flows, Answer(m, r), op' = op
      PROVE  \A q \in Flows : Uploading(q) => Uploading(q)'
  BY <1>1, <1>8 DEF Answer, Uploading, ChatTypeOK
<1>9. ASSUME NEW m \in Flows, ApiStep(m) PROVE Ended'
  <2>1. CASE ServeStep(m) /\ UNCHANGED <<panel, client>>
    BY <1>2, <1>5, <2>1, ServeKeeps DEF Uploading
  <2>2. CASE CreateRequest(m)
    BY <1>2, <1>8, <2>2 DEF CreateRequest, ViewOfRequest
  <2> QED
    BY <1>9, <2>1, <2>2 DEF ApiStep
<1>10. ASSUME NEW m \in Flows, CallFails(m), UNCHANGED <<panel, client>> PROVE Ended'
  BY <1>2, <1>5, <1>8, <1>10 DEF CallFails
<1>11. ASSUME NEW m \in Flows, RequestEnds(m) PROVE Ended'
  BY <1>2, <1>11 DEF RequestEnds, chatVars, calls, ViewOfRequest, Uploading
<1>12. ASSUME NEW p \in Polls, PollStep(p) PROVE Ended'
  <2>1. UNCHANGED <<op, at>>
    BY <1>12 DEF PollStep, Poll, PollAnswered, PollDelivered, chatVars, calls
  <2>2. CASE Poll(p, workspace)
    BY <2>2 DEF Poll, Ended
  <2>3. CASE PollAnswered(p)
    <3>1. PICK a : polls' = [polls EXCEPT ![p].answer = a]
      BY <2>3 DEF PollAnswered
    <3>2. \A o \in Polls : InFlight(o)' => InFlight(o)
      BY <1>1, <2>3, <3>1 DEF PollAnswered, PanelTypeOK, InFlight
    <3> QED
      BY <2>1, <2>3, <3>2 DEF PollAnswered, Ended, Uploading
  <2>4. CASE PollDelivered(p, workspace)
    <3>1. /\ polls' = [polls EXCEPT ![p] = NoPoll] /\ request' = request
          /\ polls[p].answer \in {"waiting", "ended", "error"}
      BY <2>4 DEF PollDelivered
    <3>2. /\ ~ InFlight(p)' /\ \A o \in Polls \ {p} : InFlight(o)' <=> InFlight(o)
      BY <1>1, <3>1 DEF PanelTypeOK, InFlight, NoPoll
    <3>3. CASE UNCHANGED <<status, error, polling, overtaken>>
      BY <2>1, <3>1, <3>2, <3>3 DEF Ended, Uploading
    <3>4. CASE polls[p].of = request /\ Show(p, polls[p])
      <4>1. CASE polling /\ UNCHANGED <<polling, overtaken>>
        BY <4>1 DEF Ended
      <4>2. CASE Stop(p) /\ (error' \/ status' = "ended")
        BY <3>2, <4>2 DEF Stop, Ended
      <4>3. CASE ~ polling /\ UNCHANGED <<polling, overtaken>>
        BY <3>1, <3>4, <4>3 DEF Ended, InFlight
      <4> QED
        BY <1>1, <3>4, <4>1, <4>2, <4>3 DEF Show, PanelTypeOK
    <3> QED
      BY <2>4, <3>3, <3>4 DEF PollDelivered, Cancelled
  <2> QED
    BY <1>12, <2>2, <2>3, <2>4 DEF PollStep
<1>13. CASE UNCHANGED vars
  BY <1>2, <1>13 DEF vars, chatVars, calls, panel, ViewOfRequest, Uploading
<1>14. ASSUME NEW m \in Flows, QueryLost(m) \/ FilesFail(m) PROVE Ended'
  BY <1>2, <1>5, <1>14 DEF QueryLost, FilesFail, calls, Uploading
<1> QED
  BY <1>6, <1>7, <1>11, <1>12, <1>13, <1>14, <1>9, <1>10 DEF Next

\* The polling of a request ends with its end or an error on the page, unless polls were
\* still in flight when the timer was cleared, for any number of polls, requests and
\* workspace switches.  (ChatClientPage, the effect on uploadAskRequestId)
THEOREM PageEndShown == Spec => []EndShown
<1>1. Init => Ended
  BY DEF Init, PanelInit, Ended
<1>2. Ended => EndShown
  BY DEF Ended, EndShown, Uploading
<1> QED
  BY <1>1, <1>2, EndedStep, ExchangesAlways, PTL DEF Spec

-----------------------------------------------------------------------------
(* What replies tell *)

Ok(m, o) == op[m] = o /\ at[m] = "answered" /\ reply[m].ok

\* The page's questions whose handler still acts on it.
Mine == {"submit", "late"}

\* The calls a flow makes, in their order.
Call(m) ==
  /\ kind[m] = "load" => op[m] \in {"list", "get"}
  /\ kind[m] = "open" => op[m] = "get"
  /\ kind[m] = "create" => op[m] = "create"
  /\ kind[m] \in Mine => /\ op[m] \in {"create", "query", "list", "files"}
                         /\ op[m] = "create" <=> session[m] = NoSession
                         /\ op[m] \in {"list", "files"} => stored[m] = "answer"
  /\ kind[m] = "late" => op[m] = "list"
  /\ kind[m] = "lost" => op[m] = "query" /\ session[m] # NoSession
  /\ at[m] = "listing" => op[m] = "list"
  /\ at[m] = "touch" => stored[m] = "answer"
  /\ epochOf[m] <= epoch

\* What was true when a reply was made stays true until it arrives.
Told(m) ==
  /\ Ok(m, "query") => stored[m] = "answer"
  /\ Ok(m, "list") => /\ reply[m].rows \subseteq SessionsOf(access[m])
                      /\ reply[m].first \in reply[m].rows \union {NoSession}
  /\ Ok(m, "create") => workspaceOf[m] = access[m]
  /\ Ok(m, "get") => \A q \in Flows :
       /\ reply[m].thread[q] \in {"absent", "question", "answered"}
       /\ reply[m].thread[q] # "absent" => stored[q] # "none" /\ session[q] = session[m]
       /\ reply[m].thread[q] = "answered" => stored[q] = "answer"

\* A message on the page is the page's own or stored.
Visible(m) ==
  /\ thread[m] # "absent" => kind[m] \in {"submit"} \union Abandoned \/ stored[m] # "none"
  /\ thread[m] \in {"shown", "answered"} => stored[m] = "answer"
  /\ thread[m] = "question" => stored[m] # "none"

Known == Exchanges /\ \A m \in Flows : Call(m) /\ Told(m) /\ Visible(m)

\* Sessions stay in their workspace, and what is stored stays in its session.
Grows ==
  /\ \A s \in Sessions : workspaceOf[s] # NoWorkspace => workspaceOf'[s] = workspaceOf[s]
  /\ \A q \in Flows :
       /\ stored[q] # "none" => stored'[q] # "none" /\ session'[q] = session[q]
       /\ stored[q] = "answer" => stored'[q] = "answer"

LEMMA GrowsMove ==
  ASSUME Exchanges, NEW m \in Flows, Move(m)
  PROVE  /\ Grows /\ Others(m) /\ Fresh(m) /\ UNCHANGED <<library, repository>>
         /\ stored[m] = "none" /\ workspaceOf[m] = NoWorkspace /\ at[m] = "idle"
         /\ at'[m] = "sent" /\ reply'[m] = Failed
<1>1. /\ Fresh(m) /\ UNCHANGED <<library, repository>>
      /\ \E o, w, s : Send(m, o, w, s)
  BY DEF Move, Switch, Open, Create, Submit, UploadAndAsk, OtherAsks, rest
<1>2. stored[m] = "none" /\ workspaceOf[m] = NoWorkspace /\ at[m] = "idle"
  BY <1>1 DEF Exchanges, Placed, Unborn, Fresh
<1>3. Others(m) /\ at'[m] = "sent" /\ reply'[m] = Failed
  BY <1>1, SendOthers
<1> QED
  BY <1>1, <1>2, <1>3 DEF Grows, Others, repository

LEMMA GrowsPage ==
  ASSUME Exchanges, NEW m \in Flows, PageStep(m)
  PROVE  /\ Grows /\ Others(m) /\ UNCHANGED <<library, repository>>
         /\ (at'[m] \in {"idle", "sent"} /\ reply'[m] = Failed) \/ op'[m] = "files"
<1>1. Placed(m)
  BY DEF Exchanges
<1>2. ASSUME UNCHANGED <<library, repository>>,
             Ends(m) \/ \E o, w, s : Send(m, o, w, s) /\ (stored[m] = "none" \/ s = session[m])
      PROVE  /\ Grows /\ Others(m) /\ at'[m] \in {"idle", "sent"} /\ reply'[m] = Failed
  <2>1. CASE Ends(m)
    BY <1>2, <2>1, EndsOthers DEF Grows, Others, repository
  <2>2. ASSUME NEW o, NEW w, NEW s, Send(m, o, w, s), stored[m] = "none" \/ s = session[m]
        PROVE  Grows /\ Others(m) /\ at'[m] = "sent" /\ reply'[m] = Failed
    BY <1>2, <2>2, SendOthers DEF Grows, Others, repository
  <2> QED
    BY <1>2, <2>1, <2>2
<1>3. UNCHANGED <<library, repository>>
  BY DEF PageStep, Load, rest, LoadListed, Loaded, Created, SubmitCreated, Answered, Refreshed,
     FilesRefreshed, RefreshedLate, AskCreated, AskRefreshed, OtherDone, server
<1>4. CASE Load(m)
  BY <1>1, <1>2, <1>3, <1>4 DEF Load, Fresh, Placed
<1>5. CASE LoadListed(m)
  BY <1>1, <1>2, <1>3, <1>5 DEF LoadListed, Replied, Placed, Askers, Abandoned
<1>6. CASE SubmitCreated(m)
  BY <1>1, <1>2, <1>3, <1>6 DEF SubmitCreated, Replied, Placed
<1>7. CASE Answered(m)
  BY <1>2, <1>3, <1>7 DEF Answered
<1>8. CASE Loaded(m, "load") \/ Loaded(m, "open") \/ Created(m) \/ FilesRefreshed(m)
           \/ RefreshedLate(m) \/ AskRefreshed(m) \/ OtherDone(m)
  BY <1>2, <1>3, <1>8 DEF Loaded, Created, FilesRefreshed, RefreshedLate, AskRefreshed, OtherDone
<1>9. CASE Refreshed(m) \/ AskCreated(m)
  <2>1. CASE op' = [op EXCEPT ![m] = "files"] /\ UNCHANGED <<at, access, session, reply>>
    BY <1>3, <2>1, FilesOthers DEF Grows, Others, repository
  <2> QED
    BY <1>2, <1>3, <1>9, <2>1 DEF Refreshed, AskCreated
<1> QED
  BY <1>3, <1>4, <1>5, <1>6, <1>7, <1>8, <1>9 DEF PageStep

LEMMA GrowsServe ==
  ASSUME Exchanges, NEW m \in Flows, ServeStep(m)
  PROVE  /\ Grows
         /\ session'[m] = session[m] \/ QueryInNew(m)
         /\ stored' = stored \/ Ask(m) \/ AppendAnswer(m)
<1>1. /\ ChatTypeOK /\ Placed(m)
      /\ m \in Sessions
  BY SessionsAssumption DEF Exchanges, Typed, CallsTyped
<1>2. CASE CreateSession(m)
  <2>1. workspaceOf[m] = NoWorkspace
    BY <1>1, <1>2 DEF CreateSession, Placed, Unborn
  <2> QED
    BY <1>1, <1>2, <2>1 DEF CreateSession, Grows, ChatTypeOK
<1>3. CASE QueryInNew(m)
  <2>1. workspaceOf[m] = NoWorkspace /\ stored[m] = "none"
    BY <1>1, <1>3 DEF QueryInNew, Placed, Unborn, Sent
  <2> QED
    BY <1>1, <1>3, <2>1 DEF QueryInNew, Grows, ChatTypeOK
<1>4. CASE Ask(m)
  <2>1. stored[m] = "none"
    BY <1>1, <1>4 DEF Ask, Placed
  <2> QED
    BY <1>1, <1>4, <2>1 DEF Ask, Grows, ChatTypeOK
<1>5. CASE AppendAnswer(m)
  BY <1>1, <1>5 DEF AppendAnswer, Grows, ChatTypeOK
<1>6. ASSUME UNCHANGED <<workspaceOf, stored, session>>
      PROVE  Grows /\ session'[m] = session[m] /\ stored' = stored
  BY <1>6 DEF Grows
<1>7. CASE ListBegin(m) \/ ListEnd(m) \/ GetSession(m) \/ QueryIn(m) \/ AskRefused(m)
           \/ GenerateRaises(m) \/ Touch(m)
  BY <1>6, <1>7 DEF ListBegin, ListEnd, GetSession, QueryIn, AskRefused, GenerateRaises, Touch,
     repository
<1>8. ASSUME NEW files \in SUBSET Files, RetrieveAndAnswer(m, files)
      PROVE  Grows /\ session'[m] = session[m] /\ stored' = stored
  BY <1>6, <1>8 DEF RetrieveAndAnswer
<1> QED
  BY <1>2, <1>3, <1>4, <1>5, <1>7, <1>8 DEF ServeStep

LEMMA OthersKept ==
  ASSUME Exchanges, Grows, NEW q \in Flows, Call(q), Told(q), epochOf'[q] <= epoch',
         at'[q] = at[q], op'[q] = op[q], access'[q] = access[q], session'[q] = session[q],
         reply'[q] = reply[q], kind'[q] = kind[q]
  PROVE  Call(q)' /\ Told(q)'
<1>1. Call(q)'
  BY DEF Call, Grows
<1>2. Told(q)'
  <2>1. op[q] # "none" => access[q] \in Workspaces /\ access[q] # NoWorkspace
    BY SessionsAssumption DEF Exchanges, Placed
  <2>2. op[q] # "none" => SessionsOf(access[q]) \subseteq SessionsOf(access[q])'
    BY <2>1 DEF SessionsOf, Grows
  <2>3. q \in Sessions
    BY SessionsAssumption
  <2> QED
    BY <2>1, <2>2, <2>3 DEF Told, Ok, Grows, SessionsOf
<1> QED
  BY <1>1, <1>2

LEMMA VisibleKept ==
  ASSUME Grows, NEW q \in Flows, Visible(q), thread'[q] \in {thread[q], "absent"},
         kind'[q] = kind[q] \/ thread[q] = "absent"
  PROVE  Visible(q)'
BY DEF Visible, Grows

\* A flow whose call is not answered has been told nothing.
LEMMA Untold == ASSUME NEW m \in Flows, at'[m] # "answered" \/ ~ reply'[m].ok PROVE Told(m)'
BY DEF Told, Ok

LEMMA KnownInit == Init => Known
<1> SUFFICES ASSUME Init PROVE Known
  OBVIOUS
<1>1. \A m \in Flows : Call(m) /\ Told(m) /\ Visible(m)
  BY DEF Init, ChatInit, Call, Told, Ok, Visible, Nothing, Mine
<1> QED
  BY <1>1, ExchangesInit DEF Known

LEMMA KnownMove ==
  ASSUME Known, Exchanges', NEW m \in Flows, Move(m)
  PROVE  Known'
<1>1. /\ Exchanges /\ \A q \in Flows : Call(q) /\ Told(q) /\ Visible(q)
      /\ PageTyped /\ Grows /\ Others(m) /\ Fresh(m) /\ UNCHANGED <<library, repository>>
      /\ stored[m] = "none" /\ workspaceOf[m] = NoWorkspace /\ at[m] = "idle"
      /\ at'[m] = "sent" /\ reply'[m] = Failed /\ ChatTypeOK
  BY GrowsMove DEF Known, Exchanges, Typed, CallsTyped
<1>2. thread[m] = "absent" /\ kind[m] = "unused" /\ stored'[m] = "none"
  BY <1>1 DEF Visible, Abandoned, Fresh, repository
<1>3. ASSUME NEW k, NEW o, NEW w, NEW s, Send(m, o, w, s), kind' = [kind EXCEPT ![m] = k],
             epochOf' = [epochOf EXCEPT ![m] = IF k = "load" THEN epoch' ELSE 0],
             epoch' \in {epoch, epoch + 1},
             thread' \in {thread, Nothing} \/ (k = "submit" /\ thread' = [thread EXCEPT ![m] = "waiting"]),
             \/ k = "load" /\ o = "list"
             \/ k = "open" /\ o = "get"
             \/ k = "create" /\ o = "create"
             \/ k = "submit" /\ o = "create" /\ s = NoSession
             \/ k = "submit" /\ o = "query" /\ s # NoSession
             \/ k \in {"ask", "other"}
      PROVE  Known'
  <2>1. /\ op'[m] = o /\ session'[m] = s /\ kind'[m] = k
        /\ \A q \in Flows \ {m} : kind'[q] = kind[q] /\ epochOf'[q] = epochOf[q]
        /\ \A q \in Flows : epochOf'[q] <= epoch'
    BY <1>1, <1>3, SendOthers DEF PageTyped, Call
  <2>2. Call(m)' /\ Told(m)'
    BY <1>1, <1>2, <1>3, <2>1, Untold DEF Call, Mine
  <2>3. Visible(m)'
    BY <1>1, <1>2, <1>3, <2>1 DEF Visible, Nothing, PageTyped
  <2>4. ASSUME NEW q \in Flows \ {m} PROVE Call(q)' /\ Told(q)' /\ Visible(q)'
    <3>1. thread'[q] \in {thread[q], "absent"}
      BY <1>1, <1>3 DEF PageTyped, Nothing
    <3> QED
      BY <1>1, <2>1, <3>1, OthersKept, VisibleKept DEF Others
  <2> QED
    BY <2>2, <2>3, <2>4 DEF Known
<1>4. ASSUME NEW w \in Workspaces, Switch(m, w) PROVE Known'
  BY <1>3, <1>4 DEF Switch
<1>5. ASSUME NEW s \in Sessions, Open(m, s) PROVE Known'
  BY <1>3, <1>5 DEF Open, Becomes
<1>6. CASE Create(m)
  BY <1>3, <1>6 DEF Create, Becomes, page
<1>7. CASE Submit(m)
  BY <1>3, <1>7 DEF Submit, Becomes
<1>8. CASE UploadAndAsk(m)
  BY <1>3, <1>8 DEF UploadAndAsk, Becomes, page
<1>9. ASSUME NEW w \in Workspaces, NEW s \in Sessions \union {NoSession}, OtherAsks(m, w, s)
      PROVE  Known'
  BY <1>3, <1>9 DEF OtherAsks, Becomes, page
<1> QED
  BY <1>4, <1>5, <1>6, <1>7, <1>8, <1>9 DEF Move

LEMMA KnownPage ==
  ASSUME Known, Exchanges', NEW m \in Flows, PageStep(m)
  PROVE  Known'
<1>1. /\ Exchanges /\ \A q \in Flows : Call(q) /\ Told(q) /\ Visible(q)
      /\ PageTyped /\ Grows /\ Others(m) /\ UNCHANGED <<library, repository>>
      /\ (at'[m] \in {"idle", "sent"} /\ reply'[m] = Failed) \/ op'[m] = "files"
      /\ ChatTypeOK /\ m \in Sessions /\ NoSession \notin Sessions
  BY GrowsPage, SessionsAssumption DEF Known, Exchanges, Typed, CallsTyped
<1>2. Told(m)' /\ UNCHANGED <<workspaceOf, stored>>
  <2>1. op'[m] = "files" => Told(m)'
    BY DEF Told, Ok
  <2> QED
    BY <1>1, <2>1, Untold DEF repository
<1>3. ASSUME UNCHANGED flows, Call(m)', \A q \in Flows : Visible(q)' PROVE Known'
  <2>1. ASSUME NEW q \in Flows \ {m} PROVE Call(q)' /\ Told(q)'
    BY <1>1, <1>3, OthersKept DEF Others, flows, Call
  <2> QED
    BY <1>2, <1>3, <2>1 DEF Known
<1>4. ASSUME UNCHANGED flows, Ends(m) PROVE Call(m)'
  BY <1>1, <1>2, <1>4, EndsOthers DEF Call, flows, Mine
<1>5. ASSUME UNCHANGED flows, NEW q \in Flows, thread'[q] \in {thread[q], "absent"} PROVE Visible(q)'
  BY <1>1, <1>5, VisibleKept DEF flows
<1>6. ASSUME UNCHANGED server PROVE UNCHANGED flows
  BY <1>6 DEF server
<1>7. CASE Load(m)
  <2>1. /\ kind' = [kind EXCEPT ![m] = "load"] /\ epochOf' = [epochOf EXCEPT ![m] = epoch]
        /\ UNCHANGED <<epoch, thread>> /\ op'[m] = "list" /\ at'[m] = "sent" /\ kind[m] = "unused"
    BY <1>1, <1>7, SendOthers DEF Load, Becomes, page, Fresh
  <2>2. /\ kind'[m] = "load" /\ epochOf'[m] <= epoch'
        /\ \A q \in Flows \ {m} : kind'[q] = kind[q] /\ epochOf'[q] = epochOf[q]
    BY <1>1, <2>1 DEF PageTyped
  <2>3. Call(m)'
    BY <2>1, <2>2 DEF Call, Mine
  <2>4. thread[m] = "absent"
    BY <1>1, <2>1 DEF Visible, Abandoned, Exchanges, Placed
  <2>5. ASSUME NEW q \in Flows \ {m} PROVE Call(q)' /\ Told(q)'
    BY <1>1, <2>1, <2>2, OthersKept DEF Others, Call
  <2>6. \A q \in Flows : Visible(q)'
    BY <1>1, <2>1, <2>2, <2>4, VisibleKept
  <2> QED
    BY <1>2, <2>3, <2>5, <2>6 DEF Known
<1>8. CASE LoadListed(m)
  <2>1. UNCHANGED flows /\ kind[m] = "load"
    BY <1>6, <1>8 DEF LoadListed, Replied
  <2>2. Call(m)'
    <3>1. CASE Ends(m)
      BY <1>4, <2>1, <3>1
    <3>2. CASE Send(m, "get", access[m], reply[m].first)
      <4>1. op'[m] = "get" /\ at'[m] = "sent"
        BY <1>1, <3>2, SendOthers
      <4> QED
        BY <1>1, <2>1, <4>1 DEF Call, flows, Mine
    <3> QED
      BY <1>8, <3>1, <3>2 DEF LoadListed
  <2>3. thread' \in {thread, Nothing}
    BY <1>8 DEF LoadListed
  <2> QED
    BY <1>3, <1>5, <2>1, <2>2, <2>3 DEF Nothing
<1>9. ASSUME NEW k, Loaded(m, k) PROVE Known'
  <2>1. UNCHANGED flows /\ Call(m)'
    BY <1>4, <1>6, <1>9 DEF Loaded
  <2>2. CASE thread' = thread
    BY <1>3, <1>5, <2>1, <2>2
  <2>3. CASE thread' = reply[m].thread /\ Ok(m, "get")
    <3>1. ASSUME NEW q \in Flows PROVE Visible(q)'
      BY <1>1, <1>2, <2>3 DEF Told, Visible
    <3> QED
      BY <1>3, <2>1, <3>1
  <2> QED
    BY <1>9, <2>2, <2>3 DEF Loaded, Replied, Ok
<1>10. CASE Created(m)
  <2>1. UNCHANGED flows /\ Call(m)' /\ thread' \in {thread, Nothing}
    BY <1>4, <1>6, <1>10 DEF Created
  <2> QED
    BY <1>3, <1>5, <2>1 DEF Nothing
<1>11. ASSUME NEW x \in Shown, x \in {"shown", "answered"} => stored[m] = "answer", x # "question",
              kind[m] \in {"submit"} \union Abandoned, UNCHANGED flows,
              thread' \in {thread, [thread EXCEPT ![m] = x]}
       PROVE  \A q \in Flows : Visible(q)'
  <2>1. Visible(m)'
    BY <1>1, <1>2, <1>11 DEF Visible, PageTyped, flows
  <2>2. ASSUME NEW q \in Flows \ {m} PROVE thread'[q] = thread[q]
    BY <1>1, <1>11 DEF PageTyped
  <2> QED
    BY <1>5, <1>11, <2>1, <2>2
<1>12. CASE SubmitCreated(m)
  <2>1. UNCHANGED flows /\ kind[m] = "submit" /\ op[m] = "create"
    BY <1>6, <1>12 DEF SubmitCreated, Replied
  <2>2. CASE Ends(m) /\ thread' = [thread EXCEPT ![m] = "failed"]
    BY <1>3, <1>4, <1>11, <2>1, <2>2 DEF Shown
  <2>3. CASE Send(m, "query", access[m], m) /\ thread' = [thread EXCEPT ![m] = "waiting"]
    <3>1. op'[m] = "query" /\ at'[m] = "sent" /\ session'[m] = m
      BY <1>1, <2>3, SendOthers
    <3>2. Call(m)'
      BY <1>1, <2>1, <3>1 DEF Call, flows, Mine
    <3> QED
      BY <1>3, <1>11, <2>1, <2>3, <3>2 DEF Shown
  <2> QED
    BY <1>12, <2>2, <2>3 DEF SubmitCreated
<1>13. CASE Answered(m)
  <2>1. UNCHANGED flows /\ kind[m] = "submit" /\ op[m] = "query" /\ session[m] # NoSession
    BY <1>1, <1>6, <1>13 DEF Answered, Replied, Call, Mine
  <2>2. CASE Ends(m) /\ Fill(m, "failed")
    BY <1>3, <1>4, <1>11, <2>1, <2>2 DEF Shown, Fill
  <2>3. CASE reply[m].ok /\ Send(m, "list", access[m], session[m]) /\ Fill(m, "shown")
    <3>1. op'[m] = "list" /\ at'[m] = "sent" /\ session'[m] = session[m]
      BY <1>1, <2>3, SendOthers
    <3>2. stored[m] = "answer"
      BY <1>1, <1>13, <2>3 DEF Answered, Replied, Told, Ok
    <3>3. Call(m)'
      BY <1>1, <1>2, <2>1, <3>1, <3>2 DEF Call, flows, Mine
    <3> QED
      BY <1>3, <1>11, <2>1, <2>3, <3>2, <3>3 DEF Shown, Fill
  <2> QED
    BY <1>13, <2>2, <2>3 DEF Answered
<1>14. CASE Refreshed(m) \/ FilesRefreshed(m)
  <2>1. UNCHANGED flows /\ kind[m] = "submit" /\ op[m] \in {"list", "files"}
    BY <1>6, <1>14 DEF Refreshed, FilesRefreshed, Replied
  <2>2. thread' \in {thread, [thread EXCEPT ![m] = "failed"]}
    BY <1>14 DEF Refreshed, FilesRefreshed, Fill
  <2>3. CASE Ends(m)
    BY <1>3, <1>4, <1>11, <2>1, <2>2, <2>3 DEF Shown
  <2>4. CASE op' = [op EXCEPT ![m] = "files"] /\ UNCHANGED <<at, access, session, reply>>
    <3>1. op'[m] = "files" /\ at'[m] = at[m] /\ session'[m] = session[m]
      BY <1>1, <2>4, FilesOthers
    <3>2. Call(m)'
      BY <1>1, <1>2, <1>14, <2>1, <3>1 DEF Call, flows, Mine, Refreshed, FilesRefreshed, Replied
    <3> QED
      BY <1>3, <1>11, <2>1, <2>2, <3>2 DEF Shown
  <2> QED
    BY <1>14, <2>3, <2>4 DEF Refreshed, FilesRefreshed
<1>15. CASE RefreshedLate(m) \/ AskRefreshed(m) \/ OtherDone(m)
  <2>1. UNCHANGED <<flows, thread>> /\ Ends(m)
    BY <1>6, <1>15 DEF RefreshedLate, AskRefreshed, OtherDone, page
  <2> QED
    BY <1>3, <1>4, <1>5, <2>1
<1>16. CASE AskCreated(m)
  <2>1. UNCHANGED <<flows, thread>> /\ kind[m] = "ask" /\ at[m] = "answered"
    BY <1>16 DEF AskCreated, Replied, page
  <2>2. CASE Ends(m)
    BY <1>3, <1>4, <1>5, <2>1, <2>2
  <2>3. CASE op' = [op EXCEPT ![m] = "files"] /\ UNCHANGED <<at, access, session, reply>>
    <3>1. Call(m)'
      BY <1>1, <2>1, <2>3 DEF Call, flows, Mine
    <3> QED
      BY <1>3, <1>5, <2>1, <3>1
  <2> QED
    BY <1>16, <2>2, <2>3 DEF AskCreated
<1> QED
  BY <1>7, <1>8, <1>9, <1>10, <1>12, <1>13, <1>14, <1>15, <1>16 DEF PageStep

LEMMA KnownGivesUp ==
  ASSUME Known, Exchanges', NEW m \in Flows, QueryLost(m) \/ FilesFail(m)
  PROVE  Known'
<1>1. /\ PageTyped /\ \A q \in Flows : Call(q) /\ Told(q) /\ Visible(q)
  BY DEF Known, Exchanges, Typed
<1>2. /\ UNCHANGED <<library, repository, calls, epochOf, epoch>> /\ kind[m] = "submit"
      /\ \/ kind'[m] = "lost" /\ op[m] = "query"
         \/ kind'[m] = "late" /\ op[m] = "list"
      /\ \A q \in Flows \ {m} : kind'[q] = kind[q]
      /\ thread' \in {thread, [thread EXCEPT ![m] = "failed"]}
  BY <1>1 DEF QueryLost, FilesFail, PageTyped, Fill
<1>3. UNCHANGED <<workspaceOf, stored, op, at, access, session, reply>>
  BY <1>2 DEF repository, calls
<1>4. ASSUME NEW q \in Flows PROVE Call(q)' /\ Told(q)'
  <2>1. Call(q)'
    BY <1>1, <1>2, <1>3 DEF Call, Mine
  <2>2. Told(q)'
    BY <1>1, <1>3 DEF Told, Ok, SessionsOf
  <2> QED
    BY <2>1, <2>2
<1>5. ASSUME NEW q \in Flows PROVE Visible(q)'
  <2>1. CASE q = m
    BY <1>1, <1>2, <1>3, <2>1 DEF Visible, Abandoned, PageTyped
  <2>2. CASE q # m
    BY <1>1, <1>2, <1>3, <2>2 DEF Visible, PageTyped
  <2> QED
    BY <2>1, <2>2
<1> QED
  BY <1>4, <1>5 DEF Known

LEMMA KnownServe ==
  ASSUME Known, Exchanges', NEW m \in Flows, ServeStep(m), UNCHANGED client
  PROVE  Known'
<1>1. /\ Exchanges /\ \A q \in Flows : Call(q) /\ Told(q) /\ Visible(q)
      /\ Grows /\ ChatTypeOK /\ CallsTyped
      /\ op' = op /\ access' = access /\ m \in Sessions /\ NoSession \notin Sessions
      /\ \A q \in Flows \ {m} : at'[q] = at[q] /\ session'[q] = session[q] /\ reply'[q] = reply[q]
  BY GrowsServe, ServeKeeps, SessionsAssumption DEF Known, Exchanges, Typed, CallsTyped
<1>2. UNCHANGED <<kind, epochOf, epoch, thread>>
  BY DEF client, page, flows
<1>3. \A q \in Flows : Visible(q)'
  BY <1>1, <1>2, VisibleKept
<1>4. ASSUME NEW q \in Flows \ {m} PROVE Call(q)' /\ Told(q)'
  BY <1>1, <1>2, OthersKept DEF Call
<1>5. ASSUME Call(m)', Told(m)' PROVE Known'
  BY <1>3, <1>4, <1>5 DEF Known
<1>6. ASSUME session' = session, at'[m] \notin {"listing", "touch"} PROVE Call(m)'
  BY <1>1, <1>2, <1>6 DEF Call, Grows
<1>7. CASE CreateSession(m)
  <2>1. /\ op[m] = "create" /\ session' = session /\ at'[m] = "answered" /\ workspaceOf'[m] = access[m]
    BY <1>1, <1>7 DEF CreateSession, Sent, Answer, ChatTypeOK
  <2> QED
    BY <1>1, <1>5, <1>6, <2>1 DEF Told, Ok
<1>8. CASE ListBegin(m)
  <2>1. op[m] = "list" /\ session' = session /\ at'[m] = "listing" /\ at[m] = "sent"
    BY <1>1, <1>8 DEF ListBegin, Sent, Goto, ChatTypeOK
  <2>2. Call(m)'
    BY <1>1, <1>2, <2>1 DEF Call, Grows
  <2> QED
    BY <1>5, <2>1, <2>2, Untold
<1>9. CASE ListEnd(m)
  <2>1. op[m] = "list" /\ session' = session /\ at'[m] = "answered" /\ workspaceOf' = workspaceOf
    BY <1>1, <1>9 DEF ListEnd, Answer, Call, ChatTypeOK, repository
  <2>2. CASE Answer(m, Failed)
    BY <1>1, <1>5, <1>6, <2>1, <2>2, Untold, ReplyFacts DEF Answer, ChatTypeOK
  <2> DEFINE full == [Done EXCEPT !.rows = Rows(m),
                        !.first = IF Rows(m) = {} THEN NoSession ELSE Newest(Rows(m))]
  <2>3. CASE Answer(m, full)
    <3>1. reply'[m].rows = Rows(m) /\ reply'[m].first \in Rows(m) \union {NoSession}
      <4>1. Rows(m) \in SUBSET Sessions
        BY DEF Rows, SessionsOf
      <4>2. Rows(m) # {} => Newest(Rows(m)) \in Rows(m)
        BY <1>1, <4>1, NewestIn
      <4>3. reply'[m] = full
        BY <1>1, <2>3 DEF Answer, ChatTypeOK
      <4> QED
        BY <4>2, <4>3 DEF Done
    <3>2. Rows(m) = SessionsOf(access[m])'
      BY <1>1, <2>1 DEF Rows, SessionsOf
    <3>3. Told(m)'
      BY <1>1, <2>1, <3>1, <3>2 DEF Told, Ok
    <3> QED
      BY <1>5, <1>6, <2>1, <3>3
  <2> QED
    BY <1>9, <2>2, <2>3 DEF ListEnd
<1>10. CASE GetSession(m)
  <2>1. /\ op[m] = "get" /\ at'[m] = "answered"
        /\ UNCHANGED <<session, stored, workspaceOf>>
    BY <1>1, <1>10 DEF GetSession, Sent, Answer, ChatTypeOK, repository
  <2>2. CASE Answer(m, Failed)
    BY <1>1, <1>5, <1>6, <2>1, <2>2, Untold, ReplyFacts DEF Answer, ChatTypeOK
  <2>3. CASE Answer(m, [Done EXCEPT !.thread = Listing(session[m])])
    <3>1. reply'[m].thread = Listing(session[m])
      BY <1>1, <2>3 DEF Answer, ChatTypeOK, Done
    <3>2. \A q \in Flows :
            /\ Listing(session[m])[q] \in {"absent", "question", "answered"}
            /\ Listing(session[m])[q] # "absent" => stored[q] # "none" /\ session[q] = session[m]
            /\ Listing(session[m])[q] = "answered" => stored[q] = "answer"
      BY DEF Listing
    <3>3. Told(m)'
      BY <1>1, <2>1, <3>1, <3>2 DEF Told, Ok
    <3> QED
      BY <1>5, <1>6, <2>1, <3>3
  <2> QED
    BY <1>10, <2>2, <2>3 DEF GetSession
<1>11. CASE QueryInNew(m)
  <2>1. /\ op[m] = "query" /\ session[m] = NoSession /\ at'[m] = "append_question"
    BY <1>1, <1>11 DEF QueryInNew, Sent, Goto, ChatTypeOK
  <2>2. epochOf[m] <= epoch /\ kind[m] \notin {"load", "open", "create", "lost"} \union Mine
    BY <1>1, <2>1 DEF Call, Mine
  <2>3. Call(m)'
    BY <1>2, <2>1, <2>2 DEF Call, Mine
  <2> QED
    BY <1>5, <2>1, <2>3, Untold
<1>12. CASE QueryIn(m) \/ Ask(m)
  <2>1. session' = session /\ at'[m] \in {"append_question", "generate"}
    BY <1>1, <1>12 DEF QueryIn, Ask, Goto, ChatTypeOK
  <2> QED
    BY <1>5, <1>6, <2>1, Untold
<1>13. CASE AskRefused(m) \/ GenerateRaises(m)
  <2>1. session' = session /\ at'[m] = "answered" /\ reply'[m] = Failed
    BY <1>1, <1>13 DEF AskRefused, GenerateRaises, Answer, ChatTypeOK
  <2> QED
    BY <1>5, <1>6, <2>1, Untold, ReplyFacts
<1>14. ASSUME NEW files \in SUBSET Files, RetrieveAndAnswer(m, files) PROVE Known'
  <2>1. session' = session /\ at'[m] = "append_answer"
    BY <1>1, <1>14 DEF RetrieveAndAnswer, Goto, ChatTypeOK
  <2> QED
    BY <1>5, <1>6, <2>1, Untold
<1>15. CASE AppendAnswer(m)
  <2>1. session' = session /\ at'[m] = "touch" /\ stored'[m] = "answer"
    BY <1>1, <1>15 DEF AppendAnswer, Goto, ChatTypeOK
  <2>2. Call(m)'
    BY <1>1, <1>2, <2>1 DEF Call
  <2> QED
    BY <1>5, <2>1, <2>2, Untold
<1>16. CASE Touch(m)
  <2>1. /\ session' = session /\ at'[m] = "answered" /\ stored' = stored /\ stored[m] = "answer"
        /\ op[m] = "query"
    BY <1>1, <1>16 DEF Touch, Answer, ChatTypeOK, Call, Exchanges, Placed, InQuery
  <2> QED
    BY <1>1, <1>5, <1>6, <2>1 DEF Told, Ok
<1> QED
  BY <1>7, <1>8, <1>9, <1>10, <1>11, <1>12, <1>13, <1>14, <1>15, <1>16 DEF ServeStep

\* A call that is not served by the chat endpoints is told nothing of them.
LEMMA KnownAnswer ==
  ASSUME Known, Exchanges', NEW m \in Flows, NEW r, Answer(m, r), op[m] = "upload" \/ ~ r.ok,
         UNCHANGED <<repository, op, access, session, client>>
  PROVE  Known'
<1>1. /\ Exchanges /\ ChatTypeOK /\ \A q \in Flows : Call(q) /\ Told(q) /\ Visible(q)
  BY DEF Known, Exchanges, Typed, CallsTyped
<1>2. /\ at'[m] = "answered" /\ reply'[m] = r
      /\ \A q \in Flows \ {m} : at'[q] = at[q] /\ reply'[q] = reply[q]
  BY <1>1 DEF Answer, ChatTypeOK
<1>3. Grows /\ UNCHANGED <<kind, epochOf, epoch, thread, stored, op, access, session>>
  BY DEF Grows, repository, client, page, flows
<1>4. Call(m)' /\ Told(m)'
  BY <1>1, <1>2, <1>3 DEF Call, Told, Ok
<1>5. ASSUME NEW q \in Flows \ {m} PROVE Call(q)' /\ Told(q)'
  BY <1>1, <1>2, <1>3, OthersKept DEF Call
<1>6. \A q \in Flows : Visible(q)'
  BY <1>1, <1>3, VisibleKept
<1> QED
  BY <1>4, <1>5, <1>6 DEF Known

LEMMA KnownStep == Known /\ [Next]_vars => Known'
<1> SUFFICES ASSUME Known, [Next]_vars PROVE Known'
  OBVIOUS
<1>1. Exchanges /\ Exchanges'
  BY ExchangesStep DEF Known
<1>2. ASSUME UNCHANGED <<repository, calls, client>> PROVE Known'
  <2>1. Grows /\ UNCHANGED <<kind, epochOf, epoch, thread, stored, op, at, access, session, reply>>
    BY <1>2 DEF Grows, repository, calls, client, page, flows
  <2>2. ASSUME NEW q \in Flows PROVE Call(q)' /\ Told(q)' /\ Visible(q)'
    BY <1>1, <2>1, OthersKept, VisibleKept DEF Known, Call
  <2> QED
    BY <1>1, <2>2 DEF Known
<1>3. ASSUME NEW m \in Flows, ApiStep(m) PROVE Known'
  <2>1. CASE ServeStep(m) /\ UNCHANGED <<panel, client>>
    BY <1>1, <2>1, KnownServe
  <2>2. CASE CreateRequest(m) /\ UNCHANGED client
    <3>1. op[m] = "upload" /\ Answer(m, Done) /\ UNCHANGED <<repository, op, access, session>>
      BY <2>2 DEF CreateRequest, Sent
    <3> QED
      BY <1>1, <2>2, <3>1, KnownAnswer
  <2> QED
    BY <1>3, <2>1, <2>2 DEF ApiStep
<1>4. ASSUME NEW m \in Flows, CallFails(m), UNCHANGED <<panel, client>> PROVE Known'
  BY <1>1, <1>4, KnownAnswer, ReplyFacts DEF CallFails
<1>5. ASSUME NEW m \in Flows, RequestEnds(m), UNCHANGED client PROVE Known'
  BY <1>2, <1>5 DEF RequestEnds, chatVars
<1>6. ASSUME NEW p \in Polls, PollStep(p) PROVE Known'
  BY <1>2, <1>6 DEF PollStep, Poll, PollAnswered, PollDelivered, chatVars
<1>7. CASE UNCHANGED vars
  BY <1>2, <1>7 DEF vars, chatVars, client
<1>8. ASSUME NEW m \in Flows, QueryLost(m) \/ FilesFail(m) PROVE Known'
  BY <1>1, <1>8, KnownGivesUp
<1> QED
  BY <1>1, <1>3, <1>4, <1>5, <1>6, <1>7, <1>8, KnownMove, KnownPage DEF Next

LEMMA KnownAlways == Spec => []Known
BY KnownInit, KnownStep, PTL DEF Spec

-----------------------------------------------------------------------------
(* What a settled page shows *)

\* The page's own question is stored in session s.
Own(q, s) == kind[q] \in Mine /\ stored[q] # "none" /\ session[q] = s

\* The messages of the active session are on their way.
Loading == \E m \in Flows : Pending(m) /\ op[m] = "get"

\* One flow at most changes the page: for the workspace and the session it shows.
OnePending ==
  \A m \in Flows : Pending(m) =>
    /\ \A n \in Flows : Pending(n) => n = m
    /\ access[m] = workspace
    /\ op[m] = "get" \/ kind[m] \in Mine => session[m] = active
    /\ kind[m] \in Mine /\ op[m] # "create" => thread[m] # "absent"
    /\ op[m] = "create" => \A q \in Flows : ~ Own(q, m)
    /\ Ok(m, "get") => \A q \in Flows : Own(q, session[m]) => reply[m].thread[q] # "absent"

\* The messages are of the active session, and the page's own questions are among them.
ThreadOfActive ==
  \A q \in Flows :
    /\ (thread[q] # "absent" /\ session[q] # NoSession) => session[q] = active
    /\ Own(q, active) => thread[q] # "absent"

Consistent ==
  /\ listed \subseteq SessionsOf(workspace)
  /\ active \in SessionsOf(workspace) \union {NoSession}
  /\ ~ Loading => ThreadOfActive

View == ~ unsettled => OnePending /\ Consistent

\* A step that is about flow m alone.
Kept(m) ==
  Others(m) /\ \A q \in Flows \ {m} : kind'[q] = kind[q] /\ epochOf'[q] = epochOf[q]

\* Steps that leave the page alone, and whose flow goes on as it was or never was one
\* that changes the page.
LEMMA ViewUnseen ==
  ASSUME Known, Known', View, Grows, NEW m \in Flows, Kept(m), UNCHANGED <<page, epoch>>,
         unsettled' = unsettled,
         Pending(m)' =>
           /\ Pending(m) /\ kind'[m] = kind[m] /\ access'[m] = access[m] /\ op'[m] = op[m]
           /\ session'[m] = session[m]
           /\ Ok(m, "get")' =>
                \A q \in Flows : Own(q, session[m]) => reply'[m].thread[q] # "absent",
         Pending(m) /\ op[m] = "get" => Pending(m)',
         thread[m] # "absent" => session'[m] = session[m],
         \A q \in Flows : kind'[q] \in Mine /\ stored'[q] # "none" =>
           \/ kind[q] \in Mine /\ stored[q] # "none"
           \/ q = m /\ Pending(m) /\ kind[m] \in Mine /\ op[m] = "query"
  PROVE  View'
<1> SUFFICES ASSUME ~ unsettled PROVE OnePending' /\ Consistent'
  BY DEF View
<1>1. /\ OnePending /\ Consistent /\ UNCHANGED <<workspace, listed, active, thread>>
      /\ workspace \in Workspaces /\ workspace # NoWorkspace /\ Exchanges
  BY SessionsAssumption DEF View, page, Known, Exchanges, Typed, PageTyped
<1>2. \A q \in Flows : Pending(q)' => Pending(q)
  BY DEF Pending, Kept, Others
<1>3. ASSUME NEW q \in Flows, NEW s, Own(q, s)'
      PROVE  Own(q, s) \/ (q = m /\ Pending(m) /\ kind[m] \in Mine /\ op[m] = "query")
  BY <1>3 DEF Own, Grows
<1>4. OnePending'
  <2>1. ASSUME NEW p \in Flows, Pending(p)'
        PROVE  /\ Pending(p) /\ access'[p] = access[p] /\ op'[p] = op[p] /\ kind'[p] = kind[p]
               /\ session'[p] = session[p]
    BY <1>2, <2>1 DEF Kept, Others
  <2>2. ASSUME NEW p \in Flows, Pending(p)', op'[p] = "create", NEW q \in Flows PROVE ~ Own(q, p)'
    BY <1>1, <1>3, <2>1, <2>2 DEF OnePending
  <2>3. ASSUME NEW p \in Flows, Pending(p)', Ok(p, "get")', NEW q \in Flows, Own(q, session[p])'
        PROVE  reply'[p].thread[q] # "absent"
    <3>1. Own(q, session[p])
      BY <1>1, <1>3, <2>1, <2>3 DEF OnePending, Ok
    <3>2. CASE p = m
      BY <2>3, <3>1, <3>2
    <3>3. CASE p # m
      BY <1>1, <2>1, <2>3, <3>1, <3>3 DEF OnePending, Kept, Others, Ok
    <3> QED
      BY <3>2, <3>3
  <2> QED
    BY <1>1, <1>2, <2>1, <2>2, <2>3 DEF OnePending
<1>5. SessionsOf(workspace) \subseteq SessionsOf(workspace)'
  BY <1>1 DEF SessionsOf, Grows
<1>6. ~ Loading' => ThreadOfActive'
  <2>1. ~ Loading' => ~ Loading
    BY DEF Loading, Pending, Kept, Others
  <2>2. ASSUME NEW q \in Flows, thread[q] # "absent" PROVE session'[q] = session[q]
    BY <2>2 DEF Kept, Others
  <2>3. ASSUME NEW q \in Flows, Own(q, active)', ~ Loading PROVE thread[q] # "absent"
    BY <1>1, <1>3, <2>3 DEF Consistent, ThreadOfActive, OnePending
  <2> QED
    BY <1>1, <2>1, <2>2, <2>3 DEF Consistent, ThreadOfActive
<1> QED
  BY <1>1, <1>4, <1>5, <1>6 DEF Consistent

LEMMA ViewServe ==
  ASSUME Known, Known', View, NEW m \in Flows, ServeStep(m), UNCHANGED client
  PROVE  View'
<1>1. /\ Exchanges /\ Placed(m) /\ Call(m) /\ Visible(m) /\ ChatTypeOK
      /\ UNCHANGED <<kind, epochOf, epoch, page, unsettled>>
  BY DEF Known, Exchanges, Typed, CallsTyped, client, flows
<1>2. /\ op' = op /\ access' = access /\ at[m] # "idle" /\ at'[m] # "idle" /\ Grows
      /\ session'[m] = session[m] \/ QueryInNew(m)
      /\ stored' = stored \/ Ask(m) \/ AppendAnswer(m)
      /\ Others(m)
  BY <1>1, ServeKeeps, GrowsServe DEF Others
<1>3. Kept(m)
  BY <1>1, <1>2 DEF Kept
<1>4. QueryInNew(m) => ~ Pending(m) /\ thread[m] = "absent"
  <2>1. QueryInNew(m) =>
          /\ kind[m] \notin {"load", "open", "create", "lost"} \union Mine
          /\ stored[m] = "none"
    BY <1>1 DEF QueryInNew, Sent, Call, Placed, Mine
  <2> QED
    BY <1>1, <2>1 DEF Pending, Visible, Mine, Abandoned
<1>5. Pending(m)' <=> Pending(m)
  BY <1>1, <1>2 DEF Pending
<1>6. ASSUME NEW q \in Flows, kind[q] \in Mine, stored'[q] # "none"
      PROVE  stored[q] # "none" \/ (q = m /\ Pending(m) /\ op[m] = "query")
  <2>1. CASE q # m
    BY <1>1, <1>2, <1>6, <2>1 DEF Ask, AppendAnswer, ChatTypeOK
  <2>2. CASE q = m
    <3>1. AppendAnswer(m) => stored[m] # "none"
      BY <1>1 DEF AppendAnswer, Placed, InQuery
    <3>2. Ask(m) => op[m] = "query"
      BY <1>1 DEF Ask, Placed
    <3>3. kind[m] \in Mine => Pending(m)
      BY <1>2 DEF Pending, Mine
    <3> QED
      BY <1>2, <1>6, <2>2, <3>1, <3>2, <3>3
  <2> QED
    BY <2>1, <2>2
<1>7. ASSUME Ok(m, "get")', NEW q \in Flows, Own(q, session[m])
      PROVE  reply'[m].thread[q] # "absent"
  <2>1. op[m] = "get" /\ at'[m] = "answered" /\ reply'[m].ok
    BY <1>2, <1>7 DEF Ok
  <2>2. at[m] \notin {"listing", "append_question", "generate", "append_answer", "touch"}
    BY <1>1, <2>1 DEF Call, Placed, InQuery
  <2>3. GetSession(m)
    BY <2>1, <2>2 DEF ServeStep, CreateSession, ListBegin, ListEnd, QueryInNew, QueryIn, Ask,
       AskRefused, RetrieveAndAnswer, GenerateRaises, AppendAnswer, Touch, Sent
  <2>4. CASE Answer(m, Failed)
    BY <1>1, <2>1, <2>4, ReplyFacts DEF Answer, ChatTypeOK
  <2>5. CASE Answer(m, [Done EXCEPT !.thread = Listing(session[m])])
    <3>1. reply'[m].thread = Listing(session[m])
      BY <1>1, <2>5 DEF Answer, ChatTypeOK, Done
    <3>2. Listing(session[m])[q] # "absent"
      BY <1>7 DEF Listing, Own
    <3> QED
      BY <3>1, <3>2
  <2> QED
    BY <2>3, <2>4, <2>5 DEF GetSession
<1> QED
  BY <1>1, <1>2, <1>3, <1>4, <1>5, <1>6, <1>7, ViewUnseen

LEMMA ViewAnswer ==
  ASSUME Known, Known', View, NEW m \in Flows, NEW r, Answer(m, r), op[m] = "upload" \/ ~ r.ok,
         at[m] # "idle", UNCHANGED <<repository, op, access, session, client>>
  PROVE  View'
<1>1. /\ ChatTypeOK /\ Call(m)
      /\ UNCHANGED <<kind, epochOf, epoch, page, unsettled, stored>>
  BY DEF Known, Exchanges, Typed, CallsTyped, client, flows, repository
<1>2. /\ at'[m] = "answered" /\ reply'[m] = r
      /\ \A q \in Flows \ {m} : at'[q] = at[q] /\ reply'[q] = reply[q]
  BY <1>1 DEF Answer, ChatTypeOK
<1>3. Grows /\ Kept(m)
  BY <1>1, <1>2 DEF Grows, repository, Kept, Others
<1>4. (Pending(m)' <=> Pending(m)) /\ ~ Ok(m, "get")'
  BY <1>1, <1>2 DEF Pending, Ok
<1> QED
  BY <1>1, <1>3, <1>4, ViewUnseen

LEMMA ViewElsewhere ==
  ASSUME View, UNCHANGED <<repository, calls, client>>
  PROVE  View'
BY DEF View, OnePending, Consistent, ThreadOfActive, Loading, Pending, Own, Ok, SessionsOf,
   repository, calls, client, page, flows

\* The user moves when nothing is under way, or begins the load that cancels the others.
LEMMA ViewMove ==
  ASSUME Known, Known', View, NEW m \in Flows, Move(m)
  PROVE  View'
<1>1. /\ Exchanges /\ PageTyped /\ ChatTypeOK /\ \A q \in Flows : Call(q) /\ Placed(q)
      /\ Grows /\ Others(m) /\ Fresh(m) /\ UNCHANGED <<stored, workspaceOf>>
      /\ stored[m] = "none" /\ workspaceOf[m] = NoWorkspace /\ at[m] = "idle" /\ at'[m] = "sent"
      /\ workspace \in Workspaces /\ workspace # NoWorkspace /\ kind[m] = "unused"
  BY GrowsMove, SessionsAssumption
     DEF Known, Exchanges, Typed, CallsTyped, PageTyped, repository, Fresh
<1>2. ASSUME NEW k, Becomes(m, k), epoch' = epoch
      PROVE  Kept(m) /\ kind'[m] = k /\ (k = "load" => epochOf'[m] = epoch)
  BY <1>1, <1>2 DEF Becomes, PageTyped, Kept
<1>3. \A q \in Flows : stored[q] # "none" => session[q] # m /\ session[q] \in Sessions
  BY <1>1, NewSession DEF Placed, InSession
\* Moves after which m alone may change the page.
<1>4. ASSUME Kept(m), ~ unsettled' => ~ unsettled /\ \A q \in Flows : ~ Pending(q),
             UNCHANGED <<epoch, workspace, listed>>,
             access'[m] = workspace, session'[m] \in {NoSession, active'},
             kind'[m] \in Mine => kind'[m] = "submit",
             op'[m] = "get" \/ kind'[m] = "submit" => session'[m] = active',
             kind'[m] = "submit" /\ op'[m] # "create" => thread'[m] # "absent",
             \A q \in Flows \ {m} : thread'[q] = thread[q],
             active' \in SessionsOf(workspace) \union {NoSession},
             active' # active => op'[m] = "get" /\ Pending(m)'
      PROVE  View'
  <2> SUFFICES ASSUME ~ unsettled' PROVE OnePending' /\ Consistent'
    BY DEF View
  <2>1. Consistent /\ \A q \in Flows : ~ Pending(q)
    BY <1>4 DEF View
  <2>2. \A q \in Flows : Pending(q)' => q = m
    BY <1>4, <2>1 DEF Pending, Kept, Others
  <2>3. \A q \in Flows : \A t : Own(q, t)' => q # m /\ Own(q, t)
    BY <1>1, <1>4 DEF Own, Kept, Others
  <2>4. OnePending'
    BY <1>1, <1>3, <1>4, <2>2, <2>3 DEF OnePending, Ok, Own
  <2>5. ~ Loading' => ThreadOfActive'
    <3>1. ~ Loading' => active' = active
      BY <1>4 DEF Loading
    <3>2. ThreadOfActive
      BY <2>1 DEF Consistent, Loading
    <3> QED
      BY <1>4, <2>3, <3>1, <3>2 DEF ThreadOfActive, Kept, Others
  <2>6. SessionsOf(workspace)' = SessionsOf(workspace)
    BY <1>1, <1>4 DEF SessionsOf
  <2> QED
    BY <1>4, <2>1, <2>4, <2>5, <2>6 DEF Consistent
<1>5. ASSUME NEW w \in Workspaces, Switch(m, w) PROVE View'
  <2> SUFFICES ASSUME ~ unsettled' PROVE OnePending' /\ Consistent'
    BY DEF View
  <2>1. /\ workspace' = w /\ listed' = {} /\ active' = NoSession /\ thread' = Nothing
        /\ op'[m] = "list" /\ access'[m] = w /\ session'[m] = NoSession
        /\ epoch' = epoch + 1 /\ Kept(m) /\ kind'[m] = "load" /\ epochOf'[m] = epoch + 1
    BY <1>1, <1>5, SendOthers DEF Switch, PageTyped, Kept
  <2>2. \A q \in Flows : Pending(q) => kind[q] = "load"
    BY <1>5 DEF Switch
  <2>3. \A q \in Flows : Pending(q)' => q = m
    <3>1. ASSUME NEW q \in Flows \ {m} PROVE epochOf'[q] # epoch'
      BY <1>1, <2>1 DEF Kept, PageTyped, Call
    <3> QED
      BY <2>1, <2>2, <3>1 DEF Pending, Kept, Others
  <2>4. \A q \in Flows : ~ Own(q, NoSession)'
    BY <1>1, <1>3, <2>1, SessionsAssumption DEF Own, Kept, Others
  <2> QED
    BY <1>1, <2>1, <2>3, <2>4
       DEF OnePending, Ok, Consistent, ThreadOfActive, Nothing, Mine
<1>6. ASSUME ~ unsettled', Moving PROVE ~ unsettled /\ \A q \in Flows : ~ Pending(q)
  BY <1>6 DEF Moving
<1>7. ASSUME unsettled' PROVE View'
  BY <1>7 DEF View
<1>8. ~ unsettled => /\ active \in SessionsOf(workspace) \union {NoSession}
                     /\ listed \subseteq SessionsOf(workspace)
  BY DEF View, Consistent
<1>9. ASSUME NEW s \in Sessions, Open(m, s) PROVE View'
  <2>1. /\ op'[m] = "get" /\ access'[m] = workspace /\ session'[m] = s
        /\ Kept(m) /\ kind'[m] = "open" /\ Pending(m)' /\ s \in listed
        /\ active' = s /\ UNCHANGED <<workspace, listed, thread, epoch>> /\ Moving
    BY <1>1, <1>2, <1>9, SendOthers DEF Open, Pending
  <2> QED
    BY <1>1, <1>4, <1>6, <1>7, <1>8, <2>1 DEF Mine
<1>10. CASE Create(m)
  <2>1. /\ op'[m] = "create" /\ access'[m] = workspace /\ session'[m] = NoSession
        /\ Kept(m) /\ kind'[m] = "create"
        /\ UNCHANGED <<workspace, listed, active, thread, epoch>> /\ Moving
    BY <1>1, <1>2, <1>10, SendOthers DEF Create, page
  <2> QED
    BY <1>1, <1>4, <1>6, <1>7, <1>8, <2>1 DEF Mine
<1>11. CASE Submit(m)
  <2>1. /\ access'[m] = workspace /\ session'[m] = active /\ op'[m] \in {"create", "query"}
        /\ op'[m] = "query" => thread'[m] = "waiting"
        /\ \A q \in Flows \ {m} : thread'[q] = thread[q]
        /\ Kept(m) /\ kind'[m] = "submit"
        /\ UNCHANGED <<workspace, listed, active, epoch>> /\ Moving
    BY <1>1, <1>2, <1>11, SendOthers DEF Submit, PageTyped
  <2> QED
    BY <1>1, <1>4, <1>6, <1>7, <1>8, <2>1 DEF Mine
<1>12. ASSUME Kept(m), kind'[m] \in {"ask", "other"}, UNCHANGED <<page, epoch, unsettled>>
       PROVE  View'
  <2>1. ~ Pending(m) /\ ~ Pending(m)' /\ thread[m] = "absent"
    BY <1>1, <1>12 DEF Pending, Known, Visible, Abandoned
  <2> QED
    BY <1>1, <1>12, <2>1, ViewUnseen DEF Kept, Mine
<1>13. CASE UploadAndAsk(m)
  BY <1>2, <1>12, <1>13 DEF UploadAndAsk
<1>14. ASSUME NEW w \in Workspaces, NEW s \in Sessions \union {NoSession}, OtherAsks(m, w, s)
       PROVE  View'
  BY <1>2, <1>12, <1>14 DEF OtherAsks
<1> QED
  BY <1>5, <1>9, <1>10, <1>11, <1>13, <1>14 DEF Move

\* What the page does with a reply: if m changes it, m is the only one to do so.
LEMMA ViewPage ==
  ASSUME Known, Known', View, NEW m \in Flows, PageStep(m)
  PROVE  View'
<1>1. /\ Exchanges /\ PageTyped /\ ChatTypeOK /\ Call(m) /\ Told(m) /\ Placed(m)
      /\ \A q \in Flows : Visible(q)
      /\ Grows /\ Others(m) /\ UNCHANGED <<stored, workspaceOf>>
      /\ workspace \in Workspaces /\ workspace # NoWorkspace
      /\ m \in Sessions /\ NoSession \notin Sessions
  BY GrowsPage, SessionsAssumption
     DEF Known, Exchanges, Typed, CallsTyped, PageTyped, repository
<1>2. ASSUME unsettled' PROVE View'
  BY <1>2 DEF View
<1>3. ASSUME UNCHANGED server PROVE Kept(m) /\ UNCHANGED flows
  BY <1>1, <1>3 DEF server, flows, Kept
<1>4. \A s : SessionsOf(s)' = SessionsOf(s)
  BY <1>1 DEF SessionsOf
<1>5. CASE Load(m)
  <2>1. /\ \A q \in Flows : kind[q] = "unused" /\ ~ Pending(q) /\ ~ Own(q, session[q])
        /\ UNCHANGED <<page, epoch, unsettled>> /\ op'[m] = "list" /\ access'[m] = workspace
        /\ session'[m] = NoSession
    BY <1>1, <1>5, SendOthers DEF Load, Pending, Own, Mine
  <2>2. kind'[m] = "load" /\ Kept(m)
    BY <1>1, <1>5 DEF Load, Becomes, PageTyped, Kept
  <2>3. /\ \A q \in Flows \ {m} : ~ Pending(q)'
        /\ \A q \in Flows : \A s : ~ Own(q, s)'
    BY <1>1, <2>1, <2>2 DEF Pending, Own, Kept, Others, Mine
  <2>4. OnePending'
    BY <2>1, <2>2, <2>3 DEF OnePending, Ok, page, Mine
  <2>5. ~ unsettled => Consistent'
    <3>1. ~ unsettled => Consistent /\ ThreadOfActive
      BY <2>1 DEF View, Consistent, Loading
    <3> QED
      BY <1>4, <2>1, <2>2, <2>3, <3>1 DEF Consistent, ThreadOfActive, page, Kept, Others
  <2> QED
    BY <2>1, <2>4, <2>5 DEF View
\* Replies to a flow that does not change the page.
<1>6. ASSUME Ends(m) \/ (op' = [op EXCEPT ![m] = "files"] /\ UNCHANGED <<at, access, session, reply>>),
             Kept(m), UNCHANGED <<flows, page, unsettled>>, ~ Pending(m)
      PROVE  View'
  <2>1. ~ Pending(m)' /\ session' = session
    BY <1>1, <1>6, EndsOthers DEF Pending, flows
  <2> QED
    BY <1>1, <1>6, <2>1, ViewUnseen DEF flows
\* Replies to the one that does.
<1>7. unsettled \in BOOLEAN
  BY <1>1 DEF PageTyped
<1>8. ASSUME Pending(m), ~ unsettled
      PROVE  /\ \A q \in Flows : Pending(q) => q = m
             /\ access[m] = workspace /\ Consistent
             /\ op[m] = "get" \/ kind[m] \in Mine => session[m] = active
             /\ op[m] # "get" => ThreadOfActive
             /\ kind[m] \in Mine /\ op[m] # "create" => thread[m] # "absent"
             /\ op[m] = "create" => \A q \in Flows : ~ Own(q, m)
  BY <1>8 DEF View, OnePending, Consistent, Loading
<1>9. ASSUME Pending(m), ~ unsettled, Kept(m), UNCHANGED <<flows, workspace>>,
             listed' \subseteq SessionsOf(workspace),
             active' \in SessionsOf(workspace) \union {NoSession},
             \/ at'[m] = "idle"
             \/ at'[m] = "sent" /\ op'[m] = "get" /\ access'[m] = access[m] /\ session'[m] = active'
             \/ /\ op'[m] \in {"query", "list", "files"} /\ access'[m] = access[m]
                /\ session'[m] = active' /\ thread'[m] # "absent",
             ~ Loading' => ThreadOfActive'
      PROVE  View'
  <2>1. \A q \in Flows : Pending(q)' => q = m
    BY <1>8, <1>9 DEF Pending, Kept, Others, flows
  <2>2. OnePending'
    <3>1. ASSUME Pending(m)'
          PROVE  /\ op'[m] \in {"get", "query", "list", "files"} /\ access'[m] = access[m]
                 /\ session'[m] = active'
                 /\ IF op'[m] = "get" THEN at'[m] = "sent" ELSE thread'[m] # "absent"
      BY <1>9, <3>1 DEF Pending
    <3>2. kind'[m] \in Mine => op'[m] # "get"
      BY DEF Known, Call
    <3> QED
      BY <1>8, <1>9, <2>1, <3>1, <3>2 DEF OnePending, Ok
  <2> QED
    BY <1>4, <1>9, <2>2 DEF View, Consistent
<1>10. \A q \in Flows : \A s : (kind' = kind /\ session'[q] = session[q]) => (Own(q, s)' <=> Own(q, s))
  BY <1>1 DEF Own
<1>11. CASE LoadListed(m)
  <2>1. /\ Kept(m) /\ UNCHANGED <<flows, workspace>> /\ kind[m] = "load" /\ op[m] = "list"
        /\ at[m] = "answered"
    BY <1>3, <1>11 DEF LoadListed, Replied
  <2>2. CASE Stale(m)
    BY <1>7, <1>6, <1>11, <2>1, <2>2 DEF LoadListed, Stale, Pending, page
  <2>3. CASE ~ Stale(m) /\ reply[m].ok /\ ~ unsettled
    <3>1. Pending(m) /\ unsettled' = unsettled
      BY <1>7, <1>11, <2>1, <2>3 DEF Stale, Pending, LoadListed
    <3>2. /\ access[m] = workspace /\ reply[m].rows \subseteq SessionsOf(workspace)
          /\ reply[m].first \in reply[m].rows \union {NoSession}
      BY <1>1, <1>8, <2>1, <2>3, <3>1 DEF Told, Ok
    <3>3. listed' = reply[m].rows /\ active' = reply[m].first
      BY <1>11, <2>3 DEF LoadListed
    <3>4. CASE reply[m].first = NoSession
      <4>1. at'[m] = "idle" /\ thread' = Nothing /\ session' = session
        BY <1>1, <1>11, <2>3, <3>4, EndsOthers DEF LoadListed
      <4>2. \A q \in Flows : ~ Own(q, NoSession)'
        BY <1>1, <1>10, <2>1, <4>1 DEF Own, flows, Exchanges, Placed, InSession
      <4>3. ThreadOfActive'
        BY <3>3, <3>4, <4>1, <4>2 DEF ThreadOfActive, Nothing
      <4> QED
        BY <1>9, <2>1, <2>3, <3>1, <3>2, <3>3, <4>1, <4>3
    <3>5. CASE reply[m].first # NoSession
      <4>1. at'[m] = "sent" /\ op'[m] = "get" /\ access'[m] = access[m] /\ session'[m] = active'
        BY <1>1, <1>11, <2>3, <3>3, <3>5, SendOthers DEF LoadListed
      <4>2. Loading'
        BY <2>1, <3>1, <4>1 DEF Loading, Pending, flows
      <4> QED
        BY <1>9, <2>1, <2>3, <3>1, <3>2, <3>3, <4>1, <4>2
    <3> QED
      BY <3>4, <3>5
  <2>4. CASE ~ Stale(m) /\ (unsettled \/ ~ reply[m].ok)
    BY <1>2, <1>11, <2>4 DEF LoadListed
  <2> QED
    BY <2>2, <2>3, <2>4
<1>12. ASSUME NEW k \in {"load", "open"}, Loaded(m, k) PROVE View'
  <2>1. /\ Kept(m) /\ UNCHANGED <<flows, workspace, listed, active, sending>> /\ kind[m] = k
        /\ op[m] = "get" /\ at[m] = "answered" /\ Ends(m) /\ at'[m] = "idle" /\ session' = session
    BY <1>1, <1>3, <1>12, EndsOthers DEF Loaded, Replied
  <2>2. CASE Stale(m)
    BY <1>7, <1>6, <1>12, <2>1, <2>2 DEF Loaded, Stale, Pending, page
  <2>3. CASE ~ Stale(m) /\ reply[m].ok /\ ~ unsettled
    <3>1. Pending(m) /\ unsettled' = unsettled /\ thread' = reply[m].thread
      BY <1>7, <1>12, <2>1, <2>3 DEF Stale, Pending, Loaded
    <3>2. session[m] = active /\ Consistent
      BY <1>8, <2>1, <2>3, <3>1
    <3>3. \A q \in Flows : /\ thread'[q] # "absent" => session[q] = active
                           /\ Own(q, active) => thread'[q] # "absent"
      BY <1>1, <2>1, <2>3, <3>1, <3>2 DEF Told, Ok, View, OnePending
    <3>4. ThreadOfActive'
      BY <1>10, <2>1, <3>3 DEF ThreadOfActive, flows
    <3> QED
      BY <1>9, <2>1, <2>3, <3>1, <3>2, <3>4 DEF Consistent
  <2>4. CASE ~ Stale(m) /\ (unsettled \/ ~ reply[m].ok)
    BY <1>2, <1>12, <2>4 DEF Loaded
  <2> QED
    BY <2>2, <2>3, <2>4
<1>13. ASSUME kind[m] = "create" \/ kind[m] \in Mine, at[m] = "answered" PROVE Pending(m)
  BY <1>13 DEF Pending, Mine
<1>14. CASE Created(m)
  <2>1. /\ Kept(m) /\ UNCHANGED <<flows, workspace, unsettled>> /\ kind[m] = "create"
        /\ op[m] = "create" /\ at[m] = "answered" /\ at'[m] = "idle" /\ session' = session
    BY <1>1, <1>3, <1>14, EndsOthers DEF Created, Replied
  <2>2. CASE unsettled
    BY <1>2, <2>1, <2>2
  <2>3. CASE ~ unsettled /\ reply[m].ok
    <3>1. Pending(m) /\ Consistent /\ \A q \in Flows : ~ Own(q, m)
      BY <1>8, <1>13, <2>1, <2>3
    <3>2. m \in SessionsOf(workspace)
      BY <1>1, <1>8, <2>1, <2>3, <3>1 DEF Told, Ok, SessionsOf
    <3>3. listed' = listed \union {m} /\ active' = m /\ thread' = Nothing
      BY <1>14, <2>3 DEF Created
    <3>4. ThreadOfActive'
      BY <1>10, <2>1, <3>1, <3>3 DEF ThreadOfActive, Nothing, flows
    <3> QED
      BY <1>9, <2>1, <2>3, <3>1, <3>2, <3>3, <3>4 DEF Consistent
  <2>4. CASE ~ unsettled /\ ~ reply[m].ok
    <3>1. Pending(m) /\ Consistent /\ ThreadOfActive /\ UNCHANGED <<listed, active, thread>>
      BY <1>8, <1>13, <1>14, <2>1, <2>4 DEF Created
    <3>2. ThreadOfActive'
      BY <1>10, <2>1, <3>1 DEF ThreadOfActive, flows
    <3> QED
      BY <1>9, <2>1, <2>4, <3>1, <3>2 DEF Consistent
  <2> QED
    BY <2>2, <2>3, <2>4
<1>15. CASE SubmitCreated(m)
  <2>1. /\ Kept(m) /\ UNCHANGED <<flows, workspace, listed, unsettled>> /\ kind[m] \in Mine
        /\ op[m] = "create" /\ at[m] = "answered" /\ session[m] = NoSession /\ stored[m] = "none"
    BY <1>1, <1>3, <1>15 DEF SubmitCreated, Replied, Call, Placed, Mine
  <2>2. CASE unsettled
    BY <1>2, <2>1, <2>2
  <2>3. CASE ~ unsettled /\ reply[m].ok
    <3>1. /\ Pending(m) /\ Consistent /\ ThreadOfActive /\ active = NoSession
          /\ \A q \in Flows : ~ Own(q, m)
      BY <1>8, <1>13, <2>1, <2>3
    <3>2. m \in SessionsOf(workspace)
      BY <1>1, <1>8, <2>1, <2>3, <3>1 DEF Told, Ok, SessionsOf
    <3>3. /\ active' = m /\ thread' = [thread EXCEPT ![m] = "waiting"]
          /\ at'[m] = "sent" /\ op'[m] = "query" /\ access'[m] = access[m] /\ session'[m] = m
      BY <1>1, <1>15, <2>3, SendOthers DEF SubmitCreated
    <3>4. /\ thread'[m] = "waiting"
          /\ \A q \in Flows \ {m} : thread'[q] = thread[q] /\ session'[q] = session[q]
      BY <1>1, <2>1, <3>3 DEF PageTyped, Kept, Others
    <3>5. ThreadOfActive'
      BY <1>10, <2>1, <3>1, <3>3, <3>4 DEF ThreadOfActive, flows
    <3> QED
      BY <1>9, <2>1, <2>3, <3>1, <3>2, <3>3, <3>4, <3>5 DEF Consistent
  <2>4. CASE ~ unsettled /\ ~ reply[m].ok
    <3>1. Pending(m) /\ Consistent /\ ThreadOfActive
      BY <1>8, <1>13, <2>1, <2>4
    <3>2. /\ active' = active /\ thread' = [thread EXCEPT ![m] = "failed"]
          /\ at'[m] = "idle" /\ session' = session
      BY <1>1, <1>15, <2>4, EndsOthers DEF SubmitCreated
    <3>3. thread'[m] = "failed" /\ \A q \in Flows \ {m} : thread'[q] = thread[q]
      BY <1>1, <3>2 DEF PageTyped
    <3>4. ThreadOfActive'
      BY <1>10, <2>1, <3>1, <3>2, <3>3 DEF ThreadOfActive, flows
    <3> QED
      BY <1>9, <2>1, <2>4, <3>1, <3>2, <3>4 DEF Consistent
  <2> QED
    BY <2>2, <2>3, <2>4
<1>16. ASSUME NEW x \in Shown, Fill(m, x), x # "absent"
       PROVE  \A q \in Flows : thread'[q] # "absent" <=> thread[q] # "absent"
  BY <1>1, <1>16 DEF Fill, PageTyped
<1>17. ASSUME ThreadOfActive, session' = session \/ session'[m] = session[m], Kept(m),
              UNCHANGED <<flows, active>>,
              \A q \in Flows : thread'[q] # "absent" <=> thread[q] # "absent"
       PROVE  ThreadOfActive'
  BY <1>10, <1>17 DEF ThreadOfActive, flows, Kept, Others
<1>18. CASE Answered(m)
  <2>1. /\ Kept(m) /\ UNCHANGED <<flows, workspace, listed, active, unsettled>> /\ kind[m] \in Mine
        /\ op[m] = "query" /\ at[m] = "answered"
    BY <1>3, <1>18 DEF Answered, Replied, Mine
  <2>2. CASE unsettled
    BY <1>2, <2>1, <2>2
  <2>3. CASE ~ unsettled
    <3>1. /\ Pending(m) /\ Consistent /\ ThreadOfActive /\ session[m] = active /\ thread[m] # "absent"
      BY <1>8, <1>13, <2>1, <2>3
    <3>2. /\ \A q \in Flows : thread'[q] # "absent" <=> thread[q] # "absent"
          /\ session'[m] = session[m]
          /\ \/ at'[m] = "idle"
             \/ at'[m] = "sent" /\ op'[m] = "list" /\ access'[m] = access[m]
      BY <1>1, <1>16, <1>18, SendOthers, EndsOthers DEF Answered, Shown
    <3>3. ThreadOfActive'
      BY <1>17, <2>1, <3>1, <3>2
    <3> QED
      BY <1>9, <2>1, <2>3, <3>1, <3>2, <3>3 DEF Consistent
  <2> QED
    BY <2>2, <2>3
<1>19. CASE Refreshed(m) \/ FilesRefreshed(m) \/ RefreshedLate(m)
  <2>1. /\ Kept(m) /\ UNCHANGED <<flows, workspace, active, unsettled>> /\ kind[m] \in Mine
        /\ op[m] \in {"list", "files"} /\ at[m] = "answered"
    BY <1>3, <1>19 DEF Refreshed, FilesRefreshed, RefreshedLate, Replied, Mine
  <2>2. CASE unsettled
    BY <1>2, <2>1, <2>2
  <2>3. CASE ~ unsettled
    <3>1. /\ Pending(m) /\ Consistent /\ ThreadOfActive /\ access[m] = workspace
          /\ session[m] = active /\ thread[m] # "absent"
      BY <1>8, <1>13, <2>1, <2>3
    <3>2. \A q \in Flows : thread'[q] # "absent" <=> thread[q] # "absent"
      BY <1>16, <1>19 DEF Refreshed, FilesRefreshed, RefreshedLate, Shown
    <3>3. listed' \subseteq SessionsOf(workspace)
      BY <1>1, <1>19, <2>1, <3>1
         DEF Refreshed, FilesRefreshed, RefreshedLate, Replied, Told, Ok, Consistent
    <3>4. /\ session'[m] = session[m]
          /\ at'[m] = "idle" \/ (op'[m] = "files" /\ access'[m] = access[m])
      BY <1>1, <1>19, EndsOthers, FilesOthers DEF Refreshed, FilesRefreshed, RefreshedLate
    <3>5. ThreadOfActive'
      BY <1>17, <2>1, <3>1, <3>2, <3>4
    <3> QED
      BY <1>9, <2>1, <2>3, <3>1, <3>2, <3>3, <3>4, <3>5 DEF Consistent
  <2> QED
    BY <2>2, <2>3
<1>20. CASE AskCreated(m) \/ AskRefreshed(m) \/ OtherDone(m)
  <2>1. /\ Kept(m) /\ UNCHANGED <<flows, page, unsettled>> /\ kind[m] \in {"ask", "other", "lost"}
        /\ Ends(m) \/ (op' = [op EXCEPT ![m] = "files"] /\ UNCHANGED <<at, access, session, reply>>)
    BY <1>1, <1>20 DEF AskCreated, AskRefreshed, OtherDone, Replied, Kept, flows, server
  <2> QED
    BY <1>6, <2>1 DEF Pending
<1> QED
  BY <1>5, <1>11, <1>12, <1>14, <1>15, <1>18, <1>19, <1>20 DEF PageStep

\* A question that is given up is the only thing under way, and is so no longer or waits
\* for the sessions still.
LEMMA ViewGivesUp ==
  ASSUME Known, View, NEW m \in Flows, QueryLost(m) \/ FilesFail(m)
  PROVE  View'
<1> SUFFICES ASSUME ~ unsettled PROVE OnePending' /\ Consistent'
  BY DEF View, QueryLost, FilesFail
<1>1. /\ PageTyped /\ OnePending /\ Consistent /\ Pending(m)
      /\ UNCHANGED <<library, repository, calls, epochOf, epoch, workspace, listed, active>>
      /\ kind[m] = "submit" /\ op[m] \in {"query", "list"} /\ kind'[m] \in Abandoned
      /\ \A q \in Flows \ {m} : kind'[q] = kind[q]
  BY DEF Known, Exchanges, Typed, View, Pending, QueryLost, FilesFail, PageTyped, Abandoned
<1>2. UNCHANGED <<workspaceOf, stored, op, at, access, session, reply>>
  BY <1>1 DEF repository, calls
<1>3. \A q \in Flows : thread'[q] # "absent" <=> thread[q] # "absent"
  BY <1>1 DEF QueryLost, FilesFail, Fill, PageTyped
<1>4. \A q \in Flows : \A t : Own(q, t)' => Own(q, t)
  BY <1>1, <1>2 DEF Own, Mine
<1>5. \A q \in Flows : Pending(q)' => q = m
  BY <1>1, <1>2 DEF Pending, OnePending
<1>6. OnePending'
  BY <1>1, <1>2, <1>3, <1>4, <1>5 DEF OnePending, Mine, Ok
<1>7. ThreadOfActive
  BY <1>1 DEF Consistent, Loading, OnePending
<1>8. ThreadOfActive'
  BY <1>1, <1>2, <1>3, <1>4, <1>7 DEF ThreadOfActive
<1>9. SessionsOf(workspace)' = SessionsOf(workspace)
  BY <1>1, <1>2 DEF SessionsOf
<1> QED
  BY <1>1, <1>6, <1>8, <1>9 DEF Consistent

LEMMA ViewStep == Known /\ View /\ [Next]_vars => View'
<1> SUFFICES ASSUME Known, View, [Next]_vars PROVE View'
  OBVIOUS
<1>1. Known'
  BY KnownStep
<1>2. ASSUME NEW m \in Flows, ApiStep(m) PROVE View'
  <2>1. CASE ServeStep(m) /\ UNCHANGED <<panel, client>>
    BY <1>1, <2>1, ViewServe
  <2>2. CASE CreateRequest(m) /\ UNCHANGED client
    <3>1. /\ op[m] = "upload" /\ at[m] # "idle" /\ Answer(m, Done)
          /\ UNCHANGED <<repository, op, access, session>>
      BY <2>2 DEF CreateRequest, Sent
    <3> QED
      BY <1>1, <2>2, <3>1, ViewAnswer
  <2> QED
    BY <1>2, <2>1, <2>2 DEF ApiStep
<1>3. ASSUME NEW m \in Flows, CallFails(m), UNCHANGED <<panel, client>> PROVE View'
  BY <1>1, <1>3, ViewAnswer, ReplyFacts DEF CallFails
<1>4. ASSUME NEW m \in Flows, RequestEnds(m), UNCHANGED client PROVE View'
  BY <1>4, ViewElsewhere DEF RequestEnds, chatVars
<1>5. ASSUME NEW p \in Polls, PollStep(p) PROVE View'
  BY <1>5, ViewElsewhere DEF PollStep, Poll, PollAnswered, PollDelivered, chatVars
<1>6. CASE UNCHANGED vars
  BY <1>6, ViewElsewhere DEF vars, chatVars, client
<1>7. ASSUME NEW m \in Flows, QueryLost(m) \/ FilesFail(m) PROVE View'
  BY <1>7, ViewGivesUp
<1> QED
  BY <1>1, <1>2, <1>3, <1>4, <1>5, <1>6, <1>7, ViewMove, ViewPage DEF Next

LEMMA ViewAlways == Spec => []View
<1>1. Init => View
  <2> SUFFICES ASSUME Init PROVE OnePending /\ Consistent
    BY DEF View
  <2>1. \A q \in Flows : ~ Pending(q) /\ stored[q] = "none" /\ thread[q] = "absent"
    BY DEF Init, ChatInit, Pending, Nothing
  <2>2. listed = {} /\ active = NoSession
    BY DEF Init
  <2> QED
    BY <2>1, <2>2 DEF OnePending, Consistent, ThreadOfActive, Own
<1> QED
  BY <1>1, KnownAlways, ViewStep, PTL DEF Spec

\* However often another workspace is selected while lists and messages are loaded, a
\* settled page shows sessions of its workspace and messages of the active one: a load
\* that was overtaken changes nothing any more.
\* (ChatClientPage, CancelToken, onWorkspaceChange)
THEOREM PageOneSessionShown == Spec => []OneSessionShown
<1>1. Quiet => ~ Loading
  BY DEF Quiet, Loading
<1>2. View => OneSessionShown
  BY <1>1 DEF View, Consistent, ThreadOfActive, OneSessionShown
<1> QED
  BY <1>2, ViewAlways, PTL

\* What a settled page shows is stored, and the page's own questions to the session it
\* shows are on it, whatever failed.  (onSubmitQuery, loadSessionMessages,
\* ChatService.get_session)
THEOREM PageThreadStored == Spec => []ThreadStored
<1>1. Quiet => ~ Loading
  BY DEF Quiet, Loading
<1>2. Known /\ View => ThreadStored
  BY <1>1 DEF Known, Visible, View, Consistent, ThreadOfActive, Own, Mine, ThreadStored
<1> QED
  BY <1>2, KnownAlways, ViewAlways, PTL

-----------------------------------------------------------------------------
(* Conversations *)

\* A step that adds nothing to the repository and moves nothing that is in it.
LEMMA SameConversation ==
  ASSUME UNCHANGED <<library, workspaceOf, stored>>,
         \A q \in Flows : stored[q] # "none" => session'[q] = session[q],
         \A q \in Flows : stored[q] = "answer" => cited'[q] = cited[q]
  PROVE  UNCHANGED Conversation!vars
BY DEF Conversation!vars

LEMMA ConversationInit == Init => Conversation!Init
BY SessionsAssumption DEF Init, ChatInit, Conversation!Init

\* What the API does for a call begins a session, puts a question or an answer in one,
\* or leaves the conversations as they are.
LEMMA ConversationServe ==
  ASSUME Exchanges, NEW m \in Flows, ServeStep(m)
  PROVE  [Conversation!Next]_(Conversation!vars)
<1> DEFINE Place == [q \in Flows |-> IF stored[q] = "none" THEN NoSession ELSE session[q]]
<1> DEFINE Cites == [q \in Flows |-> IF stored[q] = "answer" THEN cited[q] ELSE {}]
<1>1. /\ ChatTypeOK /\ Placed(m)
      /\ m \in Sessions /\ NoWorkspace \notin Workspaces
  BY SessionsAssumption DEF Exchanges, Typed, CallsTyped
<1>2. CASE CreateSession(m)
  <2>1. workspaceOf[m] = NoWorkspace /\ access[m] \in Workspaces
    BY <1>1, <1>2 DEF CreateSession, Placed, Unborn, Sent
  <2>2. UNCHANGED <<library.selected, stored, Place, Cites>>
    BY <1>2 DEF CreateSession
  <2>3. Conversation!Begin(m, access[m])
    BY <1>2, <2>1 DEF CreateSession, Conversation!Begin
  <2> QED
    BY <1>1, <2>1, <2>2, <2>3 DEF Conversation!Next
<1>3. CASE QueryInNew(m)
  <2>1. workspaceOf[m] = NoWorkspace /\ access[m] \in Workspaces /\ stored[m] = "none"
    BY <1>1, <1>3 DEF QueryInNew, Placed, Unborn, Sent
  <2>2. session' = [session EXCEPT ![m] = m] /\ UNCHANGED <<library, stored, cited>>
    BY <1>3 DEF QueryInNew
  <2>3. UNCHANGED <<library.selected, stored, Place, Cites>>
    BY <1>1, <2>1, <2>2 DEF ChatTypeOK
  <2>4. Conversation!Begin(m, access[m])
    BY <1>3, <2>1 DEF QueryInNew, Conversation!Begin
  <2> QED
    BY <1>1, <2>1, <2>3, <2>4 DEF Conversation!Next
<1>4. CASE Ask(m)
  <2>1. /\ at[m] = "append_question"
        /\ stored' = [stored EXCEPT ![m] = "question"]
        /\ UNCHANGED <<library, workspaceOf, session, cited>>
    BY <1>4 DEF Ask
  <2>2. stored[m] = "none" /\ session[m] \in Sessions /\ workspaceOf[session[m]] = access[m]
        /\ access[m] \in Workspaces
    BY <1>1, <2>1 DEF Placed, InSession
  <2>3. PICK s \in Sessions : s = session[m]
    BY <2>2
  <2>4. Place' = [Place EXCEPT ![m] = s]
    BY <1>1, <2>1, <2>3 DEF ChatTypeOK
  <2>5. UNCHANGED <<library.selected, Cites>>
    BY <1>1, <2>1, <2>2 DEF ChatTypeOK
  <2>6. Conversation!Ask(m, s)
    BY <1>1, <2>1, <2>2, <2>3, <2>4, <2>5 DEF Conversation!Ask
  <2> QED
    BY <2>6 DEF Conversation!Next
<1>5. CASE AppendAnswer(m)
  <2>1. /\ at[m] = "append_answer" /\ stored' = [stored EXCEPT ![m] = "answer"]
        /\ UNCHANGED <<library, workspaceOf, session, cited>>
    BY <1>5 DEF AppendAnswer
  <2>2. stored[m] = "question" /\ workspaceOf[session[m]] = access[m] /\ InScope(m)
    BY <1>1, <2>1 DEF Placed, InSession, InQuery
  <2>3. UNCHANGED <<library.selected, Place>>
    BY <1>1, <2>1, <2>2 DEF ChatTypeOK
  <2>4. Cites' = [Cites EXCEPT ![m] = cited[m]]
    BY <1>1, <2>1 DEF ChatTypeOK
  <2>5. cited[m] \in SUBSET {f \in DOMAIN WorkspaceOfFile :
                               /\ WorkspaceOfFile[f] = workspaceOf[Place[m]]
                               /\ library.selected = {} \/ f \in library.selected}
    BY <1>1, <2>2, FilesAssumption DEF InScope, ChatTypeOK
  <2>6. Conversation!Answer(m)
    BY <2>1, <2>2, <2>3, <2>4, <2>5 DEF Conversation!Answer
  <2> QED
    BY <2>6 DEF Conversation!Next
<1>6. CASE ListBegin(m) \/ ListEnd(m) \/ GetSession(m) \/ QueryIn(m) \/ AskRefused(m)
           \/ GenerateRaises(m) \/ Touch(m)
  BY <1>6, SameConversation DEF ListBegin, ListEnd, GetSession, QueryIn, AskRefused,
     GenerateRaises, Touch, repository
<1>7. ASSUME NEW files \in SUBSET Files, RetrieveAndAnswer(m, files)
      PROVE  UNCHANGED Conversation!vars
  <2>1. stored[m] = "question" /\ cited' = [cited EXCEPT ![m] = files]
        /\ UNCHANGED <<library, workspaceOf, stored, session>>
    BY <1>1, <1>7 DEF RetrieveAndAnswer, Placed
  <2> QED
    BY <1>1, <2>1, SameConversation DEF ChatTypeOK
<1> QED
  BY <1>2, <1>3, <1>4, <1>5, <1>6, <1>7 DEF ServeStep

\* However the users' moves, the calls and their failures interleave, the repository
\* keeps conversations: of the steps of the page and the API it sees sessions begun,
\* questions put once in a session of theirs, and answers from within their scope.
\* (ChatService.query, InMemoryChatRepository)
THEOREM PageKeepsConversations == Spec => ConversationsKept
<1>1. Exchanges /\ [Next]_vars => [Conversation!Next]_(Conversation!vars)
  <2> SUFFICES ASSUME Exchanges, [Next]_vars PROVE [Conversation!Next]_(Conversation!vars)
    OBVIOUS
  <2>1. ASSUME Grows, UNCHANGED <<library, repository>> PROVE UNCHANGED Conversation!vars
    BY <2>1, SameConversation DEF Grows, repository
  <2>2. ASSUME NEW m \in Flows, Move(m) PROVE UNCHANGED Conversation!vars
    BY <2>1, <2>2, GrowsMove
  <2>3. ASSUME NEW m \in Flows, PageStep(m) PROVE UNCHANGED Conversation!vars
    BY <2>1, <2>3, GrowsPage
  <2>4. ASSUME NEW m \in Flows, ServeStep(m) PROVE [Conversation!Next]_(Conversation!vars)
    BY <2>4, ConversationServe
  <2>5. ASSUME UNCHANGED <<library, repository, session>> PROVE UNCHANGED Conversation!vars
    BY <2>5, SameConversation DEF repository
  <2>6. ASSUME NEW m \in Flows,
               CreateRequest(m) \/ CallFails(m) \/ RequestEnds(m) \/ QueryLost(m) \/ FilesFail(m)
        PROVE  UNCHANGED Conversation!vars
    BY <2>5, <2>6 DEF CreateRequest, CallFails, RequestEnds, QueryLost, FilesFail, chatVars, calls
  <2>7. ASSUME NEW p \in Polls, PollStep(p) PROVE UNCHANGED Conversation!vars
    BY <2>5, <2>7 DEF PollStep, Poll, PollAnswered, PollDelivered, chatVars, calls
  <2>8. CASE UNCHANGED vars
    BY <2>5, <2>8 DEF vars, chatVars, calls
  <2> QED
    BY <2>2, <2>3, <2>4, <2>6, <2>7, <2>8 DEF Next, ApiStep
<1> QED
  BY <1>1, ConversationInit, ExchangesAlways, PTL DEF Spec, ConversationsKept, Conversation!Spec
=============================================================================
