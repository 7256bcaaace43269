---------------------------- MODULE ChatService ----------------------------
(***************************************************************************)
(* The chat endpoints of the API and the in-memory repository behind them: *)
(* sessions of a workspace, questions and their grounded answers.  Every   *)
(* call of a client is a thread; the repository's lock makes each write    *)
(* atomic, and the reads take no lock.                                     *)
(*                                                                         *)
(* A call is named by its client's flow (see ChatPage), which has at most  *)
(* one call under way and asks at most one question.  A session is named   *)
(* after the flow whose call created it.  A message is the question or the *)
(* answer of a call; its text is left out.                                 *)
(***************************************************************************)
EXTENDS FiniteSets, Integers

CONSTANTS
  Flows,
  Sessions,       \* those the flows may create, and those there were before
  NoSession,
  Workspaces,
  NoWorkspace,
  WorkspaceGiven, \* the workspace of each session there was before
  Files,
  WorkspaceOfFile,
  Libraries,      \* what retrieval may find, chosen at the start
  TopK,           \* top_k, the number of chunks retrieved
  MaxMishaps      \* bound: how many calls may fail, or have their reply lost

ASSUME SessionsAssumption ==
  /\ Flows \subseteq Sessions /\ NoSession \notin Sessions /\ NoWorkspace \notin Workspaces
  /\ WorkspaceGiven \in [Sessions \ Flows -> Workspaces]
ASSUME FilesAssumption == WorkspaceOfFile \in [Files -> Workspaces]
ASSUME LibrariesAssumption ==
  Libraries \subseteq [rows : SUBSET Files, records : SUBSET Files, indexed : SUBSET Files,
                       selected : SUBSET Files]
ASSUME ChatConstants == TopK \in Nat \ {0} /\ MaxMishaps \in Nat

VARIABLES
  library,      \* the files with embedded chunks of an indexed document, those with a
                \* record, those whose record says indexed, and the user's selection
  workspaceOf,  \* the workspace of each session, NoWorkspace if it does not exist
  updatedAt,    \* the updated_at of each session
  stored,       \* how much of each flow's exchange is in the repository
  answeredAt,   \* the created_at of its answer
  cited,        \* the files its answer cites
  time,         \* the clock: how many stamps were given
  op,           \* the call each flow has made
  at,           \* how far it is
  access,       \* the workspace it is made for
  session,      \* the session it is about
  reply,        \* its reply
  mishaps,      \* how many more calls may fail
  contended     \* history: the sessions two queries were in at one moment

repository == <<workspaceOf, updatedAt, stored, answeredAt, cited, time>>
calls == <<op, at, access, session, reply>>
chatVars == <<library, repository, calls, mishaps, contended>>

\* How a message of a flow may be shown: not at all; by the page itself, waiting for
\* the answer, with it, or with an error; or as the repository has it.
Shown == {"absent", "waiting", "shown", "failed", "question", "answered"}
Nothing == [m \in Flows |-> "absent"]

Reply == [ok : BOOLEAN, rows : SUBSET Sessions, first : Sessions \union {NoSession},
          thread : [Flows -> Shown]]
Done   == [ok |-> TRUE, rows |-> {}, first |-> NoSession, thread |-> Nothing]
Failed == [Done EXCEPT !.ok = FALSE]

ChatTypeOK ==
  /\ library     \in Libraries
  /\ workspaceOf \in [Sessions -> Workspaces \union {NoWorkspace}]
  /\ updatedAt   \in [Sessions -> Nat]
  /\ stored      \in [Flows -> {"none", "question", "answer"}]
  /\ answeredAt  \in [Flows -> Nat]
  /\ cited       \in [Flows -> SUBSET Files]
  /\ time        \in Nat
  /\ op          \in [Flows -> {"none", "list", "get", "create", "query", "upload", "files"}]
  /\ at          \in [Flows -> {"idle", "sent", "listing", "append_question", "generate",
                                "append_answer", "touch", "answered"}]
  /\ access      \in [Flows -> Workspaces \union {NoWorkspace}]
  /\ session     \in [Flows -> Sessions \union {NoSession}]
  /\ reply       \in [Flows -> Reply]
  /\ mishaps     \in 0 .. MaxMishaps
  /\ contended   \in SUBSET Sessions

ChatInit ==
  /\ library \in Libraries
  /\ workspaceOf = [s \in Sessions |-> IF s \in Flows THEN NoWorkspace ELSE WorkspaceGiven[s]]
  /\ updatedAt   = [s \in Sessions |-> 0]
  /\ stored      = [m \in Flows |-> "none"]
  /\ answeredAt  = [m \in Flows |-> 0]
  /\ cited       = [m \in Flows |-> {}]
  /\ time        = 0
  /\ op          = [m \in Flows |-> "none"]
  /\ at          = [m \in Flows |-> "idle"]
  /\ access      = [m \in Flows |-> NoWorkspace]
  /\ session     = [m \in Flows |-> NoSession]
  /\ reply       = [m \in Flows |-> Failed]
  /\ mishaps     \in 0 .. MaxMishaps
  /\ contended   = {}

-----------------------------------------------------------------------------
Goto(m, step) == at' = [at EXCEPT ![m] = step]

Answer(m, r) ==
  /\ at' = [at EXCEPT ![m] = "answered"]
  /\ reply' = [reply EXCEPT ![m] = r]

\* A client makes a call.
Send(m, o, w, s) ==
  /\ op' = [op EXCEPT ![m] = o]
  /\ Goto(m, "sent")
  /\ access' = [access EXCEPT ![m] = w]
  /\ session' = [session EXCEPT ![m] = s]
  /\ reply' = [reply EXCEPT ![m] = Failed]

Sent(m, o) == at[m] = "sent" /\ op[m] = o

Existing == {s \in Sessions : workspaceOf[s] # NoWorkspace}

SessionsOf(w) == {s \in Sessions : workspaceOf[s] = w}

CreateSession(m) ==
  /\ Sent(m, "create")
  /\ workspaceOf' = [workspaceOf EXCEPT ![m] = access[m]]
  /\ updatedAt' = [updatedAt EXCEPT ![m] = time + 1]
  /\ time' = time + 1
  /\ Answer(m, [Done EXCEPT !.first = m])
  /\ UNCHANGED <<library, stored, answeredAt, cited, op, access, session, mishaps, contended>>

\* list_sessions iterates over the dictionary of all sessions without the lock ...
ListBegin(m) ==
  /\ Sent(m, "list")
  /\ Goto(m, "listing")
  /\ reply' = [reply EXCEPT ![m] = [Done EXCEPT !.rows = Existing]]
  /\ UNCHANGED <<library, repository, op, access, session, mishaps, contended>>

Newest(S) == CHOOSE s \in S : \A t \in S : updatedAt[t] <= updatedAt[s]

Rows(m) == SessionsOf(access[m])

\* ... and raises if one was created meanwhile.
ListEnd(m) ==
  /\ at[m] = "listing"
  /\ IF reply[m].rows = Existing
       THEN Answer(m, [Done EXCEPT
              !.rows = Rows(m),
              !.first = IF Rows(m) = {} THEN NoSession ELSE Newest(Rows(m))])
       ELSE Answer(m, Failed)
  /\ UNCHANGED <<library, repository, op, access, session, mishaps, contended>>

\* (Faulty variant first: a session of any workspace will do.)
FoundAnywhere(m) == session[m] \in Existing

Found(m) == session[m] \in SessionsOf(access[m])

\* What list_messages gives for session s.
\* (Faulty variant first: an exchange is listed once it is complete.)
ListingComplete(s) ==
  [m \in Flows |-> IF stored[m] = "answer" /\ session[m] = s THEN "answered" ELSE "absent"]

Listing(s) ==
  [m \in Flows |->
     IF stored[m] # "none" /\ session[m] = s
       THEN IF stored[m] = "answer" THEN "answered" ELSE "question"
       ELSE "absent"]

GetSession(m) ==
  /\ Sent(m, "get")
  /\ Answer(m, IF Found(m) THEN [Done EXCEPT !.thread = Listing(session[m])] ELSE Failed)
  /\ UNCHANGED <<library, repository, op, access, session, mishaps, contended>>

(* ChatService.query *)

\* A query's question is in its session and the answer is to come.
InQuery(m) == at[m] \in {"generate", "append_answer", "touch"}

\* Without a session id a session is created for the question.
QueryInNew(m) ==
  /\ Sent(m, "query")
  /\ session[m] = NoSession
  /\ workspaceOf' = [workspaceOf EXCEPT ![m] = access[m]]
  /\ updatedAt' = [updatedAt EXCEPT ![m] = time + 1]
  /\ time' = time + 1
  /\ session' = [session EXCEPT ![m] = m]
  /\ Goto(m, "append_question")
  /\ UNCHANGED <<library, stored, answeredAt, cited, op, access, reply, mishaps, contended>>

\* With one the session is looked up.
QueryIn(m) ==
  /\ Sent(m, "query")
  /\ Found(m)
  /\ Goto(m, "append_question")
  /\ UNCHANGED <<library, repository, op, access, session, reply, mishaps, contended>>

Ask(m) ==
  /\ at[m] = "append_question"
  /\ stored' = [stored EXCEPT ![m] = "question"]
  /\ Goto(m, "generate")
  /\ contended' = IF \E q \in Flows : InQuery(q) /\ session[q] = session[m]
                    THEN contended \union {session[m]}
                    ELSE contended
  /\ UNCHANGED <<library, workspaceOf, updatedAt, answeredAt, cited, time, op, access,
                 session, reply, mishaps>>

AskRefused(m) ==
  /\ Sent(m, "query")
  /\ session[m] # NoSession /\ ~ Found(m)
  /\ Answer(m, Failed)
  /\ UNCHANGED <<library, repository, op, access, session, mishaps, contended>>

-----------------------------------------------------------------------------
(* Retrieval *)

FilesOf(w) == {f \in Files : WorkspaceOfFile[f] = w}

\* _fetch_candidates: the workspace's files, those selected if any are.
Candidates(w) ==
  library.rows \intersect FilesOf(w)
    \intersect (IF library.selected = {} THEN Files ELSE library.selected)

\* The fallback refuses a selection with a file that is unknown or another's.
\* (Faulty variant first: it takes the selection as it is.)
FallbackRefusesUnknown(w) == ~ (library.selected \subseteq library.records)

FallbackRefuses(w) == ~ (library.selected \subseteq library.records \intersect FilesOf(w))

\* It looks at the records of the API, and has one chunk of each indexed file.
FallbackFinds(w) ==
  library.indexed
    \intersect (IF library.selected = {} THEN FilesOf(w) ELSE library.selected)

\* Any TopK chunks: of at most TopK files.
Retrieved(S) == {T \in SUBSET S : (T = {}) = (S = {}) /\ Cardinality(T) <= TopK}

\* A call goes wrong where it can.
Mishap == mishaps > 0 /\ mishaps' = mishaps - 1

\* The fallback is asked when Postgres fails or has no embedded chunk to offer.
RetrieveAndAnswer(m, files) ==
  /\ at[m] = "generate"
  /\ \/ /\ Candidates(access[m]) # {}
        /\ files \in Retrieved(Candidates(access[m]))
        /\ UNCHANGED mishaps
     \/ /\ IF Candidates(access[m]) = {} THEN UNCHANGED mishaps ELSE Mishap
        /\ ~ FallbackRefuses(access[m])
        /\ files \in Retrieved(FallbackFinds(access[m]))
  /\ cited' = [cited EXCEPT ![m] = files]
  /\ time' = time + 1
  /\ answeredAt' = [answeredAt EXCEPT ![m] = time + 1]
  /\ Goto(m, "append_answer")
  /\ UNCHANGED <<library, workspaceOf, updatedAt, stored, op, access, session, reply, contended>>

\* The fallback refuses, or the language model raises: the question stays unanswered.
GenerateRaises(m) ==
  /\ at[m] = "generate"
  /\ IF Candidates(access[m]) = {} /\ FallbackRefuses(access[m])
       THEN UNCHANGED mishaps
       ELSE Mishap
  /\ Answer(m, Failed)
  /\ UNCHANGED <<library, repository, op, access, session, contended>>

AppendAnswer(m) ==
  /\ at[m] = "append_answer"
  /\ stored' = [stored EXCEPT ![m] = "answer"]
  /\ Goto(m, "touch")
  /\ UNCHANGED <<library, workspaceOf, updatedAt, answeredAt, cited, time, op, access,
                 session, reply, mishaps, contended>>

\* (Faulty variant first: the session keeps its old time.)
TouchNot(m) ==
  /\ at[m] = "touch"
  /\ Answer(m, Done)
  /\ UNCHANGED <<library, repository, op, access, session, mishaps, contended>>

\* Whatever updated_at was before, a later one included.
Touch(m) ==
  /\ at[m] = "touch"
  /\ updatedAt' = [updatedAt EXCEPT ![session[m]] = answeredAt[m]]
  /\ Answer(m, Done)
  /\ UNCHANGED <<library, workspaceOf, stored, answeredAt, cited, time, op, access, session,
                 mishaps, contended>>

\* A call does not arrive, or its reply does not.  (That the client gives up a query the
\* server is still at is ChatPage!QueryLost; every other call has one step that changes
\* the repository at most, so that one of the two moments stands for all.)
CallFails(m) ==
  /\ Mishap
  /\ at[m] = "sent" \/ (at[m] = "answered" /\ reply[m] # Failed)
  /\ Answer(m, Failed)
  /\ UNCHANGED <<library, repository, op, access, session, contended>>

ServeStep(m) ==
  \/ CreateSession(m) \/ ListBegin(m) \/ ListEnd(m) \/ GetSession(m)
  \/ QueryInNew(m) \/ QueryIn(m) \/ AskRefused(m) \/ Ask(m)
  \/ \E files \in SUBSET Files : RetrieveAndAnswer(m, files)
  \/ GenerateRaises(m)
  \/ AppendAnswer(m) \/ Touch(m)

-----------------------------------------------------------------------------
(* Properties *)

\* Once no query is under way in a session, it is as recent as its newest answer,
\* unless two queries overlapped there: the first to answer may be the last to touch.
\* (ChatService.query, InMemoryChatRepository.touch_session)
UpdatedWithNewest ==
  \A s \in Sessions :
    (s \notin contended /\ \A m \in Flows : ~ (InQuery(m) /\ session[m] = s)) =>
      \A m \in Flows : stored[m] = "answer" /\ session[m] = s => answeredAt[m] <= updatedAt[s]

\* An answer cites files of its session's workspace only, and of the user's selection
\* if there is one, whichever of the two retrievals gave them.
\* (PostgresIndexedRetrievalService.retrieve, FileBackedRetrievalService.retrieve)
CitedWithinScope ==
  \A m \in Flows : stored[m] # "none" =>
    \A f \in cited[m] :
      /\ WorkspaceOfFile[f] = workspaceOf[session[m]]
      /\ library.selected = {} \/ f \in library.selected

\* What an observer of the repository sees: only sessions and messages that are stored.
Conversation == INSTANCE Conversations WITH
  selected <- library.selected,
  posted   <- stored,
  place    <- [m \in Flows |-> IF stored[m] = "none" THEN NoSession ELSE session[m]],
  cites    <- [m \in Flows |-> IF stored[m] = "answer" THEN cited[m] ELSE {}]

\* However the calls interleave and fail, the repository keeps conversations: a session
\* stays in its workspace, a question is stored once, in the session it was asked in,
\* and answered at most once.  (ChatService.query, InMemoryChatRepository)
ConversationsKept == Conversation!Spec
=============================================================================
