------------------------------ MODULE AskPanel ------------------------------
(***************************************************************************)
(* The upload-and-ask panel of the chat page: it starts a request, polls   *)
(* its status on an interval and shows what the polls answer.  A poll is   *)
(* sent whether or not the one before it was answered, and answers come in *)
(* any order.  The life of a request on the server is UploadAndAsk's; here *)
(* it waits until it ends, if it does.                                     *)
(***************************************************************************)
EXTENDS ChatService

CONSTANT Polls   \* the polls that may be in flight at once

VARIABLES
  asked,      \* the status of the request that each flow has made: "none" if it has not
  request,    \* uploadAskRequestId
  status,     \* uploadAskStatus
  error,      \* whether uploadAskError is set
  polling,    \* whether the interval timer is set
  polls,      \* the polls in flight, with their answers
  overtaken   \* history: a poll was in flight when the timer was cleared

panel == <<asked, request, status, error, polling, polls, overtaken>>

NoPoll == [of |-> NoSession, by |-> NoWorkspace, answer |-> "idle"]

PanelTypeOK ==
  /\ asked     \in [Flows -> {"none", "waiting", "ended"}]
  /\ request   \in Flows \union {NoSession}
  /\ status    \in {"none", "waiting", "ended"}
  /\ error     \in BOOLEAN
  /\ polling   \in BOOLEAN
  /\ polls     \in [Polls -> [of : Flows \union {NoSession}, by : Workspaces \union {NoWorkspace},
                              answer : {"idle", "sent", "waiting", "ended", "error"}]]
  /\ overtaken \in BOOLEAN

PanelInit ==
  /\ asked = [m \in Flows |-> "none"]
  /\ request = NoSession
  /\ status = "none" /\ error = FALSE
  /\ polling = FALSE
  /\ polls = [p \in Polls |-> NoPoll]
  /\ overtaken = FALSE

-----------------------------------------------------------------------------
\* The server accepts the files and the question.
CreateRequest(m) ==
  /\ Sent(m, "upload")
  /\ asked' = [asked EXCEPT ![m] = "waiting"]
  /\ Answer(m, Done)
  /\ UNCHANGED <<library, repository, op, access, session, mishaps, contended, request, status,
                 error, polling, polls, overtaken>>

\* Some poll, of this page or another, finds the files ready or failed.  It need not
\* happen: UploadAndAsk!RequestsEnd promises it only if the files settle, and a file whose
\* task was never dispatched or is lost stays queued.
RequestEnds(m) ==
  /\ asked[m] = "waiting"
  /\ asked' = [asked EXCEPT ![m] = "ended"]
  /\ UNCHANGED <<chatVars, request, status, error, polling, polls, overtaken>>

\* The page starts to poll the request of flow m.  The effect's clean-up cancels the
\* polls of any other.
PollFor(m) ==
  /\ request' = m
  /\ status' = "none"
  /\ polling' = TRUE
  /\ overtaken' = FALSE

\* Another workspace is selected: nothing is polled any more.
ResetPanel ==
  /\ request' = NoSession
  /\ status' = "none"
  /\ polling' = FALSE
  /\ overtaken' = FALSE
  /\ UNCHANGED <<asked, error, polls>>

\* The interval fires: workspace w is the one selected.
Poll(p, w) ==
  /\ polling
  /\ polls[p] = NoPoll
  /\ polls' = [polls EXCEPT ![p] = [of |-> request, by |-> w, answer |-> "sent"]]
  /\ UNCHANGED <<chatVars, asked, request, status, error, polling, overtaken>>

\* A request is shown to its own workspace only.
PollAnswered(p) ==
  LET q == polls[p]
  IN /\ q.answer = "sent"
     /\ \/ /\ access[q.of] = q.by
           /\ polls' = [polls EXCEPT ![p].answer = asked[q.of]]
           /\ UNCHANGED mishaps
        \/ /\ IF access[q.of] # q.by THEN UNCHANGED mishaps ELSE Mishap
           /\ polls' = [polls EXCEPT ![p].answer = "error"]
     /\ UNCHANGED <<library, repository, calls, contended, asked, request, status, error, polling,
                    overtaken>>

\* The request or the selected workspace is no longer the one polled for.
Cancelled(q, w) == q.of # request \/ q.by # w

InFlight(p) == polls[p].answer # "idle" /\ polls[p].of = request

Stop(p) ==
  /\ polling' = FALSE
  /\ overtaken' = (overtaken \/ \E o \in Polls \ {p} : InFlight(o))

\* (Faulty variants first: a poll that fails stops the polling silently; the end of
\* the request does not stop it.)
ShowSilently(p, q) ==
  IF q.answer = "error"
    THEN Stop(p) /\ UNCHANGED <<status, error>>
    ELSE /\ status' = q.answer
         /\ error' = FALSE
         /\ IF q.answer = "ended" THEN Stop(p) ELSE UNCHANGED <<polling, overtaken>>

ShowOn(p, q) ==
  IF q.answer = "error"
    THEN error' = TRUE /\ Stop(p) /\ UNCHANGED status
    ELSE /\ status' = q.answer
         /\ error' = FALSE
         /\ UNCHANGED <<polling, overtaken>>

Show(p, q) ==
  IF q.answer = "error"
    THEN error' = TRUE /\ Stop(p) /\ UNCHANGED status
    ELSE /\ status' = q.answer
         /\ error' = FALSE
         /\ IF q.answer = "ended" THEN Stop(p) ELSE UNCHANGED <<polling, overtaken>>

\* An answer arrives.
PollDelivered(p, w) ==
  LET q == polls[p]
  IN /\ q.answer \in {"waiting", "ended", "error"}
     /\ polls' = [polls EXCEPT ![p] = NoPoll]
     /\ IF Cancelled(q, w) THEN UNCHANGED <<status, error, polling, overtaken>> ELSE Show(p, q)
     /\ UNCHANGED <<chatVars, asked, request>>

-----------------------------------------------------------------------------
(* Properties *)

\* When the page has stopped polling and no other request is being made, it shows the
\* end of the request or an error, unless polls were still in flight at that moment: an
\* older answer may then be shown over it.
\* (ChatClientPage, the effect on uploadAskRequestId)
EndShown ==
  (/\ request # NoSession /\ ~ polling /\ ~ overtaken
   /\ \A m \in Flows : op[m] = "upload" => at[m] = "idle")
  => status = "ended" \/ error

\* The page does not poll a request for ever that has ended: the end is shown, a poll
\* fails, another request is polled or another workspace is selected.  A request that
\* waits for ever is polled for ever.
\* (ChatClientPage, the effect on uploadAskRequestId)
PollingEnds == []<>(polling => asked[request] # "ended")
=============================================================================
