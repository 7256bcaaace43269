--------------------------- MODULE ChatPageProofs ---------------------------
(***************************************************************************)
(* Proofs about ChatPage and the ChatService and AskPanel it extends, for  *)
(* any number of flows, sessions, workspaces, files and polls.             *)
(***************************************************************************)
EXTENDS ChatPage, FiniteSetTheorems, WellFoundedInduction, TLAPS

-----------------------------------------------------------------------------
(* Types *)

\* No stamp is of the future.
Times ==
  /\ \A s \in Sessions : updatedAt[s] <= time
  /\ \A m \in Flows : answeredAt[m] <= time

\* A request that was accepted is known to the server.
CallsTyped ==
  /\ ChatTypeOK /\ Times
  /\ \A m \in Flows :
       /\ (op[m] = "upload" /\ at[m] = "answered" /\ reply[m].ok) => asked[m] # "none"
       /\ at[m] \in {"listing", "append_question", "generate", "append_answer", "touch"} =>
            op[m] # "upload"
       /\ at[m] = "append_question" => session[m] \in Sessions

\* Whatever is polled for has been accepted.
PanelTyped ==
  /\ PanelTypeOK
  /\ polling => request \in Flows /\ asked[request] # "none"
  /\ \A p \in Polls : polls[p].answer # "idle" =>
       polls[p].of \in Flows /\ asked[polls[p].of] # "none"

PageTyped ==
  /\ plan      \in Plans
  /\ kind      \in [Flows -> Kinds \union Abandoned \union {"unused"}]
  /\ epochOf   \in [Flows -> Nat]
  /\ epoch     \in Nat
  /\ workspace \in Workspaces
  /\ listed    \in SUBSET Sessions
  /\ active    \in Sessions \union {NoSession}
  /\ thread    \in [Flows -> Shown]
  /\ sending   \in BOOLEAN
  /\ unsettled \in BOOLEAN

Typed == CallsTyped /\ PanelTyped /\ PageTyped

LEMMA Least ==
  ASSUME NEW S \in SUBSET Nat, S # {}
  PROVE  \E n \in S : \A k \in S : n <= k
<1> DEFINE T == {0 .. n : n \in S}
<1>1. T \subseteq FiniteSubsetsOf(Nat) /\ T # {}
  <2>1. ASSUME NEW n \in S PROVE 0 .. n \in FiniteSubsetsOf(Nat)
    BY FS_Interval DEF FiniteSubsetsOf
  <2> QED
    BY <2>1
<1>2. PICK X \in T : \A Y \in T : ~ (<<Y, X>> \in StrictSubsetOrdering(Nat))
  <2> HIDE DEF T
  <2> QED
    BY <1>1, FS_StrictSubsetOrderingWellFounded, WFMin
<1>3. PICK n \in S : X = 0 .. n
  OBVIOUS
<1>4. ASSUME NEW k \in S, k < n PROVE FALSE
  <2>1. 0 .. k \in T /\ 0 .. k \subseteq 0 .. n /\ n \in 0 .. n /\ n \notin 0 .. k
    BY <1>4
  <2>2. <<0 .. k, X>> \in StrictSubsetOrdering(Nat)
    BY <1>3, <2>1 DEF StrictSubsetOrdering
  <2> QED
    BY <1>2, <2>1, <2>2
<1> QED
  BY <1>4

\* Of sessions that exist one is the newest.
LEMMA NewestIn ==
  ASSUME CallsTyped, NEW S \in SUBSET Sessions, S # {}
  PROVE  Newest(S) \in S
<1> DEFINE Ages == {time - updatedAt[s] : s \in S}
<1>1. updatedAt \in [Sessions -> Nat] /\ time \in Nat /\ \A s \in Sessions : updatedAt[s] <= time
  BY DEF CallsTyped, ChatTypeOK, Times
<1>2. Ages \in SUBSET Nat /\ Ages # {}
  BY <1>1
<1>3. PICK n \in Ages : \A k \in Ages : n <= k
  <2> HIDE DEF Ages
  <2> QED
    BY <1>2, Least
<1>4. PICK s \in S : n = time - updatedAt[s]
  OBVIOUS
<1>5. ASSUME NEW t \in S PROVE updatedAt[t] <= updatedAt[s]
  <2>1. n <= time - updatedAt[t]
    BY <1>3
  <2>2. updatedAt[t] \in Nat /\ updatedAt[s] \in Nat
    BY <1>1
  <2> QED
    BY <1>1, <1>4, <2>1, <2>2
<1> QED
  BY <1>5 DEF Newest

LEMMA ReplyFacts ==
  /\ Done \in Reply /\ Failed \in Reply /\ Failed.ok = FALSE
  /\ \A x \in Reply : /\ x.ok \in BOOLEAN /\ x.rows \in SUBSET Sessions
                      /\ x.first \in Sessions \union {NoSession} /\ x.thread \in [Flows -> Shown]
  /\ \A S \in SUBSET Sessions : [Done EXCEPT !.rows = S] \in Reply
  /\ \A S \in SUBSET Sessions, s \in Sessions \union {NoSession} :
       [Done EXCEPT !.rows = S, !.first = s] \in Reply
  /\ \A s \in Sessions : [Done EXCEPT !.first = s] \in Reply
  /\ \A t \in [Flows -> Shown] : [Done EXCEPT !.thread = t] \in Reply
BY DEF Done, Failed, Reply, Nothing, Shown

LEMMA TypeInit == Init => Typed
<1> SUFFICES ASSUME Init PROVE Typed
  OBVIOUS
<1>1. ChatTypeOK
  <2>1. [s \in Sessions |-> IF s \in Flows THEN NoWorkspace ELSE WorkspaceGiven[s]]
          \in [Sessions -> Workspaces \union {NoWorkspace}]
    BY SessionsAssumption
  <2> QED
    BY <2>1, ReplyFacts, PageAssumption, ChatConstants DEF Init, ChatInit, ChatTypeOK
<1>2. PanelTypeOK
  BY <1>1 DEF Init, PanelInit, PanelTypeOK, NoPoll
<1>3. CallsTyped
  BY <1>1 DEF Init, ChatInit, Times, CallsTyped
<1>4. PanelTyped
  BY <1>2 DEF Init, PanelInit, PanelTyped, NoPoll
<1>5. PageTyped
  BY PageAssumption DEF Init, PageTyped, Nothing, Shown, Kinds, Abandoned
<1> QED
  BY <1>3, <1>4, <1>5 DEF Typed

\* A call that is made.
LEMMA SendTyped ==
  ASSUME CallsTyped, NEW m \in Flows, NEW o \in {"list", "get", "create", "query", "upload"},
         NEW w \in Workspaces \union {NoWorkspace}, NEW s \in Sessions \union {NoSession},
         Send(m, o, w, s), UNCHANGED <<library, repository, mishaps, contended, asked>>
  PROVE  CallsTyped'
<1> USE DEF CallsTyped, ChatTypeOK, Send, Goto, repository
<1>1. Failed \in Reply /\ Failed.ok = FALSE
  BY ReplyFacts
<1>2. ChatTypeOK'
  BY <1>1
<1>3. Times'
  BY DEF Times
<1> QED
  BY <1>1, <1>2, <1>3

\* A flow that is over.
LEMMA EndsTyped ==
  ASSUME CallsTyped, NEW m \in Flows, Ends(m),
         UNCHANGED <<library, repository, mishaps, contended, asked>>
  PROVE  CallsTyped'
<1> USE DEF CallsTyped, ChatTypeOK, Ends, Goto, repository
<1>1. Failed \in Reply
  BY ReplyFacts
<1>2. ChatTypeOK'
  BY <1>1
<1>3. Times'
  BY DEF Times
<1> QED
  BY <1>2, <1>3

\* A flow that asks for its files next.
LEMMA FilesTyped ==
  ASSUME CallsTyped, NEW m \in Flows, op' = [op EXCEPT ![m] = "files"], at[m] = "answered",
         UNCHANGED <<library, repository, at, access, session, reply, mishaps, contended, asked>>
  PROVE  CallsTyped'
<1> USE DEF CallsTyped, ChatTypeOK, repository
<1>1. ChatTypeOK'
  OBVIOUS
<1>2. Times'
  BY DEF Times
<1> QED
  BY <1>1, <1>2

\* A call that is answered, with the repository as it was.
LEMMA AnswerTyped ==
  ASSUME CallsTyped, NEW m \in Flows, NEW r \in Reply, Answer(m, r),
         r.ok /\ op[m] = "upload" => asked'[m] # "none",
         \A q \in Flows \ {m} : asked[q] # "none" => asked'[q] # "none",
         UNCHANGED <<library, repository, op, access, session>>,
         mishaps' \in 0 .. MaxMishaps, contended' \in SUBSET Sessions
  PROVE  CallsTyped'
<1> USE DEF CallsTyped, ChatTypeOK, Answer, repository
<1>1. ChatTypeOK'
  OBVIOUS
<1>2. Times'
  BY DEF Times
<1> QED
  BY <1>1, <1>2

LEMMA MishapTyped == ASSUME CallsTyped, Mishap PROVE mishaps' \in 0 .. MaxMishaps
BY ChatConstants DEF CallsTyped, ChatTypeOK, Mishap

LEMMA ServeTyped ==
  ASSUME CallsTyped, NEW m \in Flows, ServeStep(m), UNCHANGED asked
  PROVE  CallsTyped'
<1> USE DEF CallsTyped, ChatTypeOK
<1>0. /\ m \in Sessions /\ \A s \in Sessions : updatedAt[s] <= time
      /\ \A q \in Flows : answeredAt[q] <= time
  BY SessionsAssumption DEF Times
<1>1. CASE CreateSession(m)
  <2>1. [Done EXCEPT !.first = m] \in Reply
    BY <1>0, ReplyFacts
  <2>2. ChatTypeOK'
    BY <1>0, <1>1, <2>1 DEF CreateSession, Answer
  <2>3. Times'
    BY <1>0, <1>1 DEF CreateSession, Times
  <2>4. op' = op /\ session' = session /\ op[m] = "create" /\ at' = [at EXCEPT ![m] = "answered"]
        /\ reply' = [reply EXCEPT ![m] = [Done EXCEPT !.first = m]]
    BY <1>1 DEF CreateSession, Answer, Sent
  <2> QED
    BY <2>2, <2>3, <2>4
<1>2. CASE ListBegin(m)
  <2>1. [Done EXCEPT !.rows = Existing] \in Reply
    BY ReplyFacts DEF Existing
  <2>2. ChatTypeOK'
    BY <1>2, <2>1 DEF ListBegin, Goto, repository
  <2>3. Times'
    BY <1>0, <1>2 DEF ListBegin, Times, repository
  <2>4. op' = op /\ session' = session /\ op[m] = "list" /\ at' = [at EXCEPT ![m] = "listing"]
        /\ reply' = [reply EXCEPT ![m] = [Done EXCEPT !.rows = Existing]]
    BY <1>2 DEF ListBegin, Goto, Sent
  <2> QED
    BY <2>2, <2>3, <2>4
<1>3. CASE ListEnd(m)
  <2> DEFINE full == [Done EXCEPT !.rows = Rows(m),
                        !.first = IF Rows(m) = {} THEN NoSession ELSE Newest(Rows(m))]
  <2>1. full \in Reply
    <3>1. Rows(m) \in SUBSET Sessions
      BY DEF Rows, SessionsOf
    <3>2. (IF Rows(m) = {} THEN NoSession ELSE Newest(Rows(m))) \in Sessions \union {NoSession}
      BY <3>1, NewestIn
    <3> QED
      BY <3>1, <3>2, ReplyFacts
  <2> HIDE DEF full
  <2>2. PICK r \in Reply : Answer(m, r)
    BY <1>3, <2>1, ReplyFacts DEF ListEnd, full
  <2>3. UNCHANGED <<library, repository, op, access, session, mishaps, contended>>
        /\ op[m] # "upload"
    BY <1>3 DEF ListEnd
  <2> QED
    BY <2>2, <2>3, AnswerTyped
<1>4. CASE GetSession(m)
  <2>1. [Done EXCEPT !.thread = Listing(session[m])] \in Reply
    <3>1. Listing(session[m]) \in [Flows -> Shown]
      BY DEF Listing, Shown
    <3> QED
      BY <3>1, ReplyFacts
  <2>2. PICK r \in Reply : Answer(m, r)
    BY <1>4, <2>1, ReplyFacts DEF GetSession
  <2>3. UNCHANGED <<library, repository, op, access, session, mishaps, contended>>
        /\ op[m] # "upload"
    BY <1>4 DEF GetSession, Sent
  <2> QED
    BY <2>2, <2>3, AnswerTyped
<1>5. CASE QueryInNew(m)
  <2>1. ChatTypeOK'
    BY <1>0, <1>5 DEF QueryInNew, Goto
  <2>2. Times'
    BY <1>0, <1>5 DEF QueryInNew, Times
  <2>3. op' = op /\ op[m] = "query" /\ reply' = reply /\ at' = [at EXCEPT ![m] = "append_question"]
        /\ session' = [session EXCEPT ![m] = m]
    BY <1>5 DEF QueryInNew, Goto, Sent
  <2> QED
    BY <1>0, <2>1, <2>2, <2>3
<1>12. CASE QueryIn(m)
  <2>1. ChatTypeOK'
    BY <1>12 DEF QueryIn, Goto, repository
  <2>2. Times'
    BY <1>0, <1>12 DEF QueryIn, Times, repository
  <2>3. op' = op /\ op[m] = "query" /\ reply' = reply /\ at' = [at EXCEPT ![m] = "append_question"]
        /\ session' = session /\ session[m] \in Sessions
    BY <1>12 DEF QueryIn, Goto, Sent, Found, SessionsOf
  <2> QED
    BY <2>1, <2>2, <2>3
<1>6. CASE Ask(m)
  <2>0. session[m] \in Sessions
    BY <1>6 DEF Ask
  <2>1. ChatTypeOK'
    BY <1>6, <2>0 DEF Ask, Goto
  <2>2. Times'
    BY <1>0, <1>6 DEF Ask, Times
  <2>3. op' = op /\ op[m] # "upload" /\ reply' = reply /\ at' = [at EXCEPT ![m] = "generate"]
        /\ session' = session
    BY <1>6 DEF Ask, Goto
  <2> QED
    BY <2>1, <2>2, <2>3
<1>7. CASE AskRefused(m)
  <2>1. Answer(m, Failed) /\ Failed \in Reply /\ op[m] # "upload"
        /\ UNCHANGED <<library, repository, op, access, session, mishaps, contended>>
    BY <1>7, ReplyFacts DEF AskRefused, Sent
  <2> QED
    BY <2>1, AnswerTyped
<1>8. ASSUME NEW files \in SUBSET Files, RetrieveAndAnswer(m, files) PROVE CallsTyped'
  <2>0. mishaps' \in 0 .. MaxMishaps
    BY <1>8, MishapTyped DEF RetrieveAndAnswer
  <2>1. ChatTypeOK'
    BY <1>8, <2>0 DEF RetrieveAndAnswer, Goto
  <2>2. Times'
    BY <1>0, <1>8 DEF RetrieveAndAnswer, Times
  <2>3. op' = op /\ session' = session /\ op[m] # "upload" /\ reply' = reply
        /\ at' = [at EXCEPT ![m] = "append_answer"]
    BY <1>8 DEF RetrieveAndAnswer, Goto
  <2> QED
    BY <2>1, <2>2, <2>3
<1>9. CASE GenerateRaises(m)
  <2>1. Answer(m, Failed) /\ Failed \in Reply /\ op[m] # "upload"
        /\ UNCHANGED <<library, repository, op, access, session, contended>>
    BY <1>9, ReplyFacts DEF GenerateRaises
  <2>2. mishaps' \in 0 .. MaxMishaps
    BY <1>9, MishapTyped DEF GenerateRaises
  <2> QED
    BY <2>1, <2>2, AnswerTyped
<1>10. CASE AppendAnswer(m)
  <2>1. ChatTypeOK'
    BY <1>10 DEF AppendAnswer, Goto
  <2>2. Times'
    BY <1>0, <1>10 DEF AppendAnswer, Times
  <2>3. op' = op /\ op[m] # "upload" /\ reply' = reply /\ at' = [at EXCEPT ![m] = "touch"]
        /\ session' = session
    BY <1>10 DEF AppendAnswer, Goto
  <2> QED
    BY <2>1, <2>2, <2>3
<1>11. CASE Touch(m)
  <2>1. ChatTypeOK'
    BY <1>11, ReplyFacts DEF Touch, Answer
  <2>2. Times'
    BY <1>0, <1>11 DEF Touch, Times
  <2>3. op' = op /\ session' = session /\ op[m] # "upload" /\ at' = [at EXCEPT ![m] = "answered"]
        /\ reply' = [reply EXCEPT ![m] = Done]
    BY <1>11 DEF Touch, Answer
  <2> QED
    BY <2>1, <2>2, <2>3
<1> QED
  BY <1>1, <1>2, <1>3, <1>4, <1>5, <1>6, <1>7, <1>8, <1>9, <1>10, <1>11, <1>12 DEF ServeStep

LEMMA PanelKept == ASSUME PanelTyped, UNCHANGED panel PROVE PanelTyped'
BY DEF PanelTyped, PanelTypeOK, panel

LEMMA BecomesTyped ==
  ASSUME PageTyped, NEW m \in Flows, NEW k \in Kinds, Becomes(m, k)
  PROVE  /\ kind' \in [Flows -> Kinds \union Abandoned \union {"unused"}]
         /\ epochOf' \in [Flows -> Nat]
BY DEF PageTyped, Becomes

\* What the user does.
LEMMA MoveTyped ==
  ASSUME Typed, NEW m \in Flows, Move(m)
  PROVE  Typed'
<1>1. CallsTyped /\ PanelTyped /\ PageTyped
  BY DEF Typed
<1>2. /\ workspace \in Workspaces /\ active \in Sessions \union {NoSession}
      /\ listed \in SUBSET Sessions /\ thread \in [Flows -> Shown] /\ epoch \in Nat
      /\ Kinds = {"load", "open", "create", "submit", "ask", "other"}
      /\ sending \in BOOLEAN /\ unsettled \in BOOLEAN
  BY <1>1 DEF PageTyped, Kinds
<1>3. ASSUME NEW w \in Workspaces, Switch(m, w) PROVE Typed'
  <2>1. CallsTyped'
    BY <1>1, <1>3, SendTyped DEF Switch, rest, ResetPanel
  <2>2. PanelTyped'
    BY <1>1, <1>3 DEF Switch, ResetPanel, PanelTyped, PanelTypeOK
  <2>3. PageTyped'
    BY <1>1, <1>2, <1>3 DEF Switch, PageTyped, Nothing, Shown, rest
  <2> QED
    BY <2>1, <2>2, <2>3 DEF Typed
<1>4. ASSUME NEW s \in Sessions, Open(m, s) PROVE Typed'
  <2>1. CallsTyped'
    BY <1>1, <1>2, <1>4, SendTyped DEF Open, rest, panel
  <2>2. PanelTyped'
    BY <1>1, <1>4, PanelKept DEF Open
  <2>3. PageTyped'
    BY <1>1, <1>2, <1>4, BecomesTyped DEF Open, PageTyped, Moving, rest
  <2> QED
    BY <2>1, <2>2, <2>3 DEF Typed
<1>5. CASE Create(m)
  <2>1. CallsTyped'
    BY <1>1, <1>2, <1>5, SendTyped DEF Create, rest, panel
  <2>2. PanelTyped'
    BY <1>1, <1>5, PanelKept DEF Create
  <2>3. PageTyped'
    BY <1>1, <1>2, <1>5, BecomesTyped DEF Create, PageTyped, Moving, rest, page
  <2> QED
    BY <2>1, <2>2, <2>3 DEF Typed
<1>6. CASE Submit(m)
  <2>1. CallsTyped'
    BY <1>1, <1>2, <1>6, SendTyped DEF Submit, rest, panel
  <2>2. PanelTyped'
    BY <1>1, <1>6, PanelKept DEF Submit
  <2>3. thread' \in [Flows -> Shown]
    BY <1>2, <1>6 DEF Submit, Shown
  <2>4. PageTyped'
    BY <1>1, <1>2, <1>6, <2>3, BecomesTyped DEF Submit, PageTyped, Moving, rest
  <2> QED
    BY <2>1, <2>2, <2>4 DEF Typed
<1>7. CASE UploadAndAsk(m)
  <2>1. CallsTyped'
    BY <1>1, <1>2, <1>7, SendTyped DEF UploadAndAsk, rest
  <2>2. PanelTyped'
    BY <1>1, <1>7 DEF UploadAndAsk, PanelTyped, PanelTypeOK
  <2>3. PageTyped'
    BY <1>1, <1>2, <1>7, BecomesTyped DEF UploadAndAsk, PageTyped, rest, page
  <2> QED
    BY <2>1, <2>2, <2>3 DEF Typed
<1>8. ASSUME NEW w \in Workspaces, NEW s \in Sessions \union {NoSession}, OtherAsks(m, w, s)
      PROVE  Typed'
  <2>1. CallsTyped'
    BY <1>1, <1>8, SendTyped DEF OtherAsks, rest, panel
  <2>2. PanelTyped'
    BY <1>1, <1>8, PanelKept DEF OtherAsks
  <2>3. PageTyped'
    BY <1>1, <1>2, <1>8, BecomesTyped DEF OtherAsks, PageTyped, rest, page
  <2> QED
    BY <2>1, <2>2, <2>3 DEF Typed
<1> QED
  BY <1>3, <1>4, <1>5, <1>6, <1>7, <1>8 DEF Move

\* What the page does with what it is answered.
LEMMA PageStepTyped ==
  ASSUME Typed, NEW m \in Flows, PageStep(m)
  PROVE  Typed'
<1>1. CallsTyped /\ PanelTyped /\ PageTyped
  BY DEF Typed
<1>2. /\ workspace \in Workspaces /\ active \in Sessions \union {NoSession}
      /\ listed \in SUBSET Sessions /\ thread \in [Flows -> Shown] /\ epoch \in Nat
      /\ sending \in BOOLEAN /\ unsettled \in BOOLEAN
  BY <1>1 DEF PageTyped
<1>3. /\ reply[m] \in Reply /\ reply[m].ok \in BOOLEAN /\ reply[m].rows \in SUBSET Sessions
      /\ reply[m].first \in Sessions \union {NoSession} /\ reply[m].thread \in [Flows -> Shown]
      /\ access[m] \in Workspaces \union {NoWorkspace} /\ session[m] \in Sessions \union {NoSession}
      /\ m \in Sessions
  BY <1>1, ReplyFacts, SessionsAssumption DEF CallsTyped, ChatTypeOK
<1>4. CASE Load(m)
  <2>1. CallsTyped'
    BY <1>1, <1>2, <1>4, SendTyped DEF Load, rest, panel
  <2>2. PanelTyped'
    BY <1>1, <1>4, PanelKept DEF Load
  <2>3. PageTyped'
    BY <1>1, <1>2, <1>4, BecomesTyped DEF Load, PageTyped, rest, page, Kinds
  <2> QED
    BY <2>1, <2>2, <2>3 DEF Typed
<1>5. ASSUME UNCHANGED server, (Ends(m) \/ \E o \in {"list", "get", "query"}, t \in Sessions \union {NoSession} :
                                  Send(m, o, access[m], t)),
             UNCHANGED workspace, listed' \in SUBSET Sessions,
             active' \in Sessions \union {NoSession}, thread' \in [Flows -> Shown],
             sending' \in BOOLEAN, unsettled' \in BOOLEAN
      PROVE  Typed'
  <2>1. CallsTyped'
    BY <1>1, <1>3, <1>5, SendTyped, EndsTyped DEF server, panel
  <2>2. PanelTyped'
    BY <1>1, <1>5, PanelKept DEF server
  <2>3. PageTyped'
    BY <1>1, <1>5 DEF server, flows, PageTyped
  <2> QED
    BY <2>1, <2>2, <2>3 DEF Typed
<1>6. CASE LoadListed(m)
  <2>1. /\ thread' \in [Flows -> Shown] /\ listed' \in SUBSET Sessions
        /\ active' \in Sessions \union {NoSession} /\ unsettled' \in BOOLEAN
    BY <1>2, <1>3, <1>6 DEF LoadListed, Nothing, Shown
  <2>2. Ends(m) \/ Send(m, "get", access[m], reply[m].first)
    BY <1>6 DEF LoadListed
  <2>3. UNCHANGED <<server, workspace, sending>>
    BY <1>6 DEF LoadListed
  <2> QED
    BY <1>2, <1>3, <1>5, <2>1, <2>2, <2>3
<1>7. ASSUME NEW k \in {"load", "open"}, Loaded(m, k) PROVE Typed'
  <2>1. thread' \in [Flows -> Shown] /\ unsettled' \in BOOLEAN
    BY <1>2, <1>3, <1>7 DEF Loaded
  <2>2. Ends(m) /\ UNCHANGED <<server, workspace, listed, active, sending>>
    BY <1>7 DEF Loaded
  <2> QED
    BY <1>2, <1>5, <2>1, <2>2
<1>8. CASE Created(m)
  <2>1. /\ thread' \in [Flows -> Shown] /\ listed' \in SUBSET Sessions
        /\ active' \in Sessions \union {NoSession}
    BY <1>2, <1>3, <1>8 DEF Created, Nothing, Shown
  <2>2. Ends(m) /\ UNCHANGED <<server, workspace, sending, unsettled>>
    BY <1>8 DEF Created
  <2> QED
    BY <1>2, <1>5, <2>1, <2>2
<1>9. CASE SubmitCreated(m)
  <2>1. /\ thread' \in [Flows -> Shown] /\ active' \in Sessions \union {NoSession}
        /\ sending' \in BOOLEAN
    BY <1>2, <1>3, <1>9 DEF SubmitCreated, Shown
  <2>2. Ends(m) \/ Send(m, "query", access[m], m)
    BY <1>9 DEF SubmitCreated
  <2>3. UNCHANGED <<server, workspace, listed, unsettled>>
    BY <1>9 DEF SubmitCreated
  <2> QED
    BY <1>2, <1>3, <1>5, <2>1, <2>2, <2>3
<1>10. \A x \in Shown : Fill(m, x) => thread' \in [Flows -> Shown]
  BY <1>2 DEF Fill
<1>11. CASE Answered(m)
  <2>1. thread' \in [Flows -> Shown] /\ sending' \in BOOLEAN
    BY <1>2, <1>10, <1>11 DEF Answered, Shown
  <2>2. Ends(m) \/ Send(m, "list", access[m], session[m])
    BY <1>11 DEF Answered
  <2>3. UNCHANGED <<server, workspace, listed, active, unsettled>>
    BY <1>11 DEF Answered
  <2> QED
    BY <1>2, <1>3, <1>5, <2>1, <2>2, <2>3
<1>12. CASE Refreshed(m)
  <2>1. CASE reply[m].ok
    <3>1. /\ op' = [op EXCEPT ![m] = "files"] /\ at[m] = "answered"
          /\ UNCHANGED <<at, access, session, reply, thread, sending, server, workspace, active,
                         unsettled>>
      BY <1>12, <2>1 DEF Refreshed, Replied
    <3>2. CallsTyped'
      BY <1>1, <3>1, FilesTyped DEF server, panel
    <3>3. PanelTyped'
      BY <1>1, <3>1, PanelKept DEF server
    <3>4. listed' \in SUBSET Sessions
      BY <1>3, <1>12, <2>1 DEF Refreshed
    <3>5. PageTyped'
      BY <1>1, <3>1, <3>4 DEF server, flows, PageTyped
    <3> QED
      BY <3>2, <3>3, <3>5 DEF Typed
  <2>2. CASE ~ reply[m].ok
    <3>1. thread' \in [Flows -> Shown] /\ sending' \in BOOLEAN
      BY <1>2, <1>10, <1>12, <2>2 DEF Refreshed, Shown
    <3>2. Ends(m) /\ UNCHANGED <<server, workspace, listed, active, unsettled>>
      BY <1>12, <2>2 DEF Refreshed
    <3> QED
      BY <1>2, <1>5, <3>1, <3>2
  <2> QED
    BY <2>1, <2>2
<1>15. CASE FilesRefreshed(m)
  <2>1. thread' \in [Flows -> Shown] /\ sending' \in BOOLEAN
    BY <1>2, <1>10, <1>15 DEF FilesRefreshed, Shown
  <2>2. Ends(m) /\ UNCHANGED <<server, workspace, listed, active, unsettled>>
    BY <1>15 DEF FilesRefreshed
  <2> QED
    BY <1>2, <1>5, <2>1, <2>2
<1>16. CASE RefreshedLate(m)
  <2>1. listed' \in SUBSET Sessions
    BY <1>2, <1>3, <1>16 DEF RefreshedLate
  <2>2. Ends(m) /\ UNCHANGED <<server, workspace, active, thread, sending, unsettled>>
    BY <1>16 DEF RefreshedLate
  <2> QED
    BY <1>2, <1>5, <2>1, <2>2
<1>17. CASE AskRefreshed(m)
  <2>1. /\ Ends(m) /\ error' = (error \/ ~ reply[m].ok)
        /\ UNCHANGED <<library, repository, mishaps, contended, asked, request, status, polling,
                       polls, overtaken, page, flows, plan, unsettled>>
    BY <1>17 DEF AskRefreshed
  <2>2. CallsTyped'
    BY <1>1, <2>1, EndsTyped
  <2>3. PanelTyped'
    BY <1>1, <1>3, <2>1 DEF PanelTyped, PanelTypeOK
  <2>4. PageTyped'
    BY <1>1, <2>1 DEF PageTyped, flows, page
  <2> QED
    BY <2>2, <2>3, <2>4 DEF Typed
<1>13. CASE AskCreated(m)
  <2>1. CallsTyped'
    <3>1. UNCHANGED <<library, repository, mishaps, contended, asked>>
      BY <1>13 DEF AskCreated, PollFor
    <3>2. CASE reply[m].ok
      <4>1. op' = [op EXCEPT ![m] = "files"] /\ at[m] = "answered"
            /\ UNCHANGED <<at, access, session, reply>>
        BY <1>13, <3>2 DEF AskCreated, Replied
      <4> QED
        BY <1>1, <3>1, <4>1, FilesTyped
    <3>3. CASE ~ reply[m].ok
      BY <1>1, <1>13, <3>1, <3>3, EndsTyped DEF AskCreated
    <3> QED
      BY <3>2, <3>3
  <2>2. PanelTyped'
    <3>1. CASE reply[m].ok
      <4>1. asked[m] # "none"
        BY <1>1, <1>13, <3>1 DEF AskCreated, Replied, CallsTyped
      <4>2. /\ request' = m /\ status' = "none" /\ polling' = TRUE /\ overtaken' = FALSE
            /\ UNCHANGED <<asked, polls, error>>
        BY <1>13, <3>1 DEF AskCreated, PollFor
      <4> QED
        BY <1>1, <4>1, <4>2 DEF PanelTyped, PanelTypeOK
    <3>2. CASE ~ reply[m].ok
      <4>1. error' = TRUE /\ UNCHANGED <<asked, polls, request, status, polling, overtaken>>
        BY <1>13, <3>2 DEF AskCreated
      <4> QED
        BY <1>1, <4>1 DEF PanelTyped, PanelTypeOK
    <3> QED
      BY <3>1, <3>2
  <2>3. PageTyped'
    BY <1>1, <1>13 DEF AskCreated, PageTyped, flows, page
  <2> QED
    BY <2>1, <2>2, <2>3 DEF Typed
<1>14. CASE OtherDone(m)
  <2>1. Ends(m) /\ UNCHANGED <<server, page, unsettled>>
    BY <1>14 DEF OtherDone
  <2> QED
    BY <1>2, <1>5, <2>1 DEF page
<1> QED
  BY <1>4, <1>6, <1>7, <1>8, <1>9, <1>11, <1>12, <1>13, <1>14, <1>15, <1>16, <1>17
     DEF PageStep

\* A handler that gives up.
LEMMA GivesUpTyped ==
  ASSUME Typed, NEW m \in Flows, QueryLost(m) \/ FilesFail(m)
  PROVE  Typed'
<1>1. CallsTyped /\ PanelTyped /\ PageTyped
  BY DEF Typed
<1>2. PICK k \in Abandoned : kind' = [kind EXCEPT ![m] = k]
  BY DEF QueryLost, FilesFail, Abandoned
<1>3. /\ Mishap /\ Fill(m, "failed") /\ sending' = FALSE
      /\ UNCHANGED <<library, repository, calls, contended, panel, epochOf, epoch, workspace,
                     listed, active, plan, unsettled>>
  BY DEF QueryLost, FilesFail
<1>4. mishaps' \in 0 .. MaxMishaps
  BY <1>1, <1>3, MishapTyped
<1>5. CallsTyped'
  BY <1>1, <1>3, <1>4 DEF CallsTyped, ChatTypeOK, Times, repository, calls, panel
<1>6. PanelTyped'
  BY <1>1, <1>3, PanelKept
<1>7. thread' \in [Flows -> Shown]
  BY <1>1, <1>3 DEF PageTyped, Fill, Shown
<1>8. PageTyped'
  BY <1>1, <1>2, <1>3, <1>7 DEF PageTyped
<1> QED
  BY <1>5, <1>6, <1>8 DEF Typed

LEMMA PollTyped ==
  ASSUME Typed, NEW p \in Polls, PollStep(p)
  PROVE  Typed'
<1>1. CallsTyped /\ PanelTyped /\ PageTyped
  BY DEF Typed
<1>2. PageTyped'
  BY <1>1 DEF PageTyped, PollStep, client, page, flows
<1>3. /\ asked' = asked /\ mishaps' \in 0 .. MaxMishaps
      /\ UNCHANGED <<library, repository, calls, contended>>
  BY <1>1, MishapTyped DEF PollStep, Poll, PollAnswered, PollDelivered, chatVars, CallsTyped,
     ChatTypeOK
<1>4. CallsTyped'
  BY <1>1, <1>3 DEF CallsTyped, ChatTypeOK, Times, repository, calls
<1>5. PanelTyped'
  <2>1. CASE Poll(p, workspace)
    BY <1>1, <2>1 DEF Poll, PanelTyped, PanelTypeOK, PageTyped
  <2>2. CASE PollAnswered(p)
    <3>1. asked[polls[p].of] \in {"waiting", "ended"}
      BY <1>1, <2>2 DEF PollAnswered, PanelTyped, PanelTypeOK
    <3>2. PICK a \in {"waiting", "ended", "error"} : polls' = [polls EXCEPT ![p].answer = a]
      BY <2>2, <3>1 DEF PollAnswered
    <3> QED
      BY <1>1, <2>2, <3>2 DEF PollAnswered, PanelTyped, PanelTypeOK
  <2>3. CASE PollDelivered(p, workspace)
    <3>1. polls' = [polls EXCEPT ![p] = NoPoll] /\ UNCHANGED <<asked, request>>
      BY <2>3 DEF PollDelivered
    <3>2. /\ status' \in {"none", "waiting", "ended"} /\ error' \in BOOLEAN
          /\ polling' \in {polling, FALSE} /\ overtaken' \in BOOLEAN
      BY <1>1, <2>3 DEF PollDelivered, Show, Stop, PanelTyped, PanelTypeOK
    <3>3. /\ NoPoll.answer = "idle"
          /\ NoPoll \in [of : Flows \union {NoSession}, by : Workspaces \union {NoWorkspace},
                         answer : {"idle", "sent", "waiting", "ended", "error"}]
      BY DEF NoPoll
    <3>4. PanelTypeOK'
      <4> HIDE DEF NoPoll
      <4> QED
        BY <1>1, <3>1, <3>2, <3>3 DEF PanelTyped, PanelTypeOK
    <3> QED
      BY <1>1, <3>1, <3>2, <3>3, <3>4 DEF PanelTyped, PanelTypeOK
  <2> QED
    BY <2>1, <2>2, <2>3 DEF PollStep
<1> QED
  BY <1>2, <1>4, <1>5 DEF Typed

LEMMA TypeStep == Typed /\ [Next]_vars => Typed'
<1> SUFFICES ASSUME Typed, [Next]_vars PROVE Typed'
  OBVIOUS
<1>1. CallsTyped /\ PanelTyped /\ PageTyped
  BY DEF Typed
<1>2. ASSUME UNCHANGED client PROVE PageTyped'
  BY <1>1, <1>2 DEF PageTyped, client, page, flows
<1>3. ASSUME NEW m \in Flows, ApiStep(m) PROVE Typed'
  <2>1. CASE ServeStep(m) /\ UNCHANGED <<panel, client>>
    <3>1. CallsTyped'
      BY <1>1, <2>1, ServeTyped DEF panel
    <3> QED
      BY <1>1, <1>2, <2>1, <3>1, PanelKept DEF Typed
  <2>2. CASE CreateRequest(m) /\ UNCHANGED client
    <3>1. asked' = [asked EXCEPT ![m] = "waiting"] /\ asked' \in [Flows -> {"none", "waiting", "ended"}]
      BY <1>1, <2>2 DEF CreateRequest, PanelTyped, PanelTypeOK
    <3>2. CallsTyped'
      <4>1. /\ asked'[m] # "none"
            /\ \A q \in Flows \ {m} : asked[q] # "none" => asked'[q] # "none"
        BY <1>1, <3>1 DEF PanelTyped, PanelTypeOK
      <4>2. /\ Answer(m, Done) /\ Done \in Reply
            /\ UNCHANGED <<library, repository, op, access, session, mishaps, contended>>
        BY <2>2, ReplyFacts DEF CreateRequest
      <4>3. mishaps \in 0 .. MaxMishaps /\ contended \in SUBSET Sessions
        BY <1>1 DEF CallsTyped, ChatTypeOK
      <4> QED
        BY <1>1, <4>1, <4>2, <4>3, AnswerTyped
    <3>3. PanelTyped'
      BY <1>1, <2>2, <3>1 DEF CreateRequest, PanelTyped, PanelTypeOK
    <3> QED
      BY <1>2, <2>2, <3>2, <3>3 DEF Typed
  <2> QED
    BY <1>3, <2>1, <2>2 DEF ApiStep
<1>4. ASSUME NEW m \in Flows, CallFails(m), UNCHANGED <<panel, client>> PROVE Typed'
  <2>1. /\ Answer(m, Failed) /\ Failed \in Reply /\ Failed.ok = FALSE /\ asked' = asked
        /\ UNCHANGED <<library, repository, op, access, session>>
        /\ mishaps' \in 0 .. MaxMishaps /\ contended' \in SUBSET Sessions
    BY <1>1, <1>4, ReplyFacts, MishapTyped DEF CallFails, panel, CallsTyped, ChatTypeOK
  <2>2. CallsTyped'
    BY <1>1, <2>1, AnswerTyped
  <2> QED
    BY <1>1, <1>2, <1>4, <2>2, PanelKept DEF Typed
<1>5. ASSUME NEW m \in Flows, RequestEnds(m), UNCHANGED client PROVE Typed'
  <2>1. /\ asked' = [asked EXCEPT ![m] = "ended"] /\ asked' \in [Flows -> {"none", "waiting", "ended"}]
        /\ UNCHANGED <<chatVars, request, status, error, polling, polls, overtaken>>
    BY <1>1, <1>5 DEF RequestEnds, PanelTyped, PanelTypeOK
  <2>2. CallsTyped'
    BY <1>1, <2>1 DEF CallsTyped, ChatTypeOK, Times, chatVars, repository, calls, PanelTyped, PanelTypeOK
  <2>3. PanelTyped'
    BY <1>1, <2>1 DEF PanelTyped, PanelTypeOK
  <2> QED
    BY <1>2, <1>5, <2>2, <2>3 DEF Typed
<1>6. CASE UNCHANGED vars
  BY <1>6 DEF vars, chatVars, repository, calls, panel, page, flows, Typed, CallsTyped, ChatTypeOK,
     Times, PanelTyped, PanelTypeOK, PageTyped
<1> QED
  BY <1>3, <1>4, <1>5, <1>6, MoveTyped, PageStepTyped, GivesUpTyped, PollTyped DEF Next

LEMMA TypedAlways == Spec => []Typed
BY TypeInit, TypeStep, PTL DEF Spec

\* The page, its panel and the repository behind them have their types: no poll is sent for
\* a request the server does not know, and a newest session is one that exists.
\* (ChatClientPage, ChatService, InMemoryChatRepository)
THEOREM PageTyping == Spec => []PageTypeOK
<1>1. Typed => PageTypeOK
  BY DEF Typed, CallsTyped, PanelTyped, PageTyped, PageTypeOK
<1> QED
  BY <1>1, TypedAlways, PTL

-----------------------------------------------------------------------------
(* Exchanges *)

\* The session a flow may create does not exist before: when the flow has not begun, when
\* it is about to create one, or when it asks without one.
Unborn(m) == kind[m] = "unused" \/ Sent(m, "create") \/ (op[m] = "query" /\ session[m] = NoSession)

InScope(m) ==
  \A f \in cited[m] : /\ WorkspaceOfFile[f] = access[m]
                      /\ library.selected = {} \/ f \in library.selected

Askers == {"submit", "other"} \union Abandoned

InSession(m) == session[m] \in Sessions /\ workspaceOf[session[m]] = access[m]

\* A flow whose question is to be stored, or is, stays with its session and workspace.
Placed(m) ==
  /\ kind[m] = "unused" => op[m] = "none" /\ at[m] = "idle"
  /\ op[m] # "none" => access[m] \in Workspaces
  /\ op[m] = "query" => kind[m] \in Askers
  /\ Unborn(m) => workspaceOf[m] = NoWorkspace
  /\ InQuery(m) => op[m] = "query" /\ stored[m] # "none"
  /\ at[m] = "append_question" => op[m] = "query" /\ stored[m] = "none" /\ InSession(m)
  /\ at[m] \in {"generate", "append_answer"} => stored[m] = "question"
  /\ stored[m] # "none" =>
       /\ kind[m] \in Askers
       /\ op[m] \in {"list", "files"} \/ (op[m] = "query" /\ at[m] # "sent")
       /\ InSession(m)
  /\ stored[m] = "none" => cited[m] = {}
  /\ InScope(m)

\* In a session without overlapping queries each touch is later than the one before it.
Recent ==
  \A m \in Flows : session[m] \notin contended =>
    /\ \A n \in Flows : (InQuery(m) /\ InQuery(n) /\ session[n] = session[m]) => n = m
    /\ (stored[m] = "answer" /\ ~ InQuery(m)) => answeredAt[m] <= updatedAt[session[m]]
    /\ at[m] \in {"append_answer", "touch"} => updatedAt[session[m]] <= answeredAt[m]

Exchanges == Typed /\ (\A m \in Flows : Placed(m)) /\ Recent

LEMMA ExchangesInit == Init => Exchanges
<1> SUFFICES ASSUME Init PROVE Exchanges
  OBVIOUS
<1>1. \A m \in Flows : Placed(m)
  BY SessionsAssumption DEF Init, ChatInit, Placed, Unborn, Sent, InQuery, InScope, InSession
<1>2. Recent
  BY DEF Init, ChatInit, Recent, InQuery
<1> QED
  BY <1>1, <1>2, TypeInit DEF Exchanges

\* A step of flow m that leaves the repository alone and begins no query.
LEMMA FlowStep ==
  ASSUME Exchanges, Typed', NEW m \in Flows, UNCHANGED <<library, repository, contended>>,
         \A q \in Flows \ {m} : /\ at'[q] = at[q] /\ op'[q] = op[q] /\ kind'[q] = kind[q]
                                /\ access'[q] = access[q] /\ session'[q] = session[q],
         InQuery(m) => at[m] = "generate", ~ InQuery(m)',
         kind'[m] # "unused",
         op'[m] # "none" => access'[m] \in Workspaces,
         op'[m] = "query" => kind'[m] \in Askers,
         Unborn(m)' => workspaceOf[m] = NoWorkspace,
         at'[m] = "append_question" => op'[m] = "query" /\ stored[m] = "none" /\ InSession(m)',
         stored[m] # "none" =>
           /\ kind'[m] = kind[m] /\ session'[m] = session[m] /\ access'[m] = access[m]
           /\ op'[m] \in {"list", "files"} \/ (op'[m] = "query" /\ at'[m] # "sent")
  PROVE  Exchanges'
<1> USE DEF repository
<1>1. \A q \in Flows : Placed(q)
  BY DEF Exchanges
<1>2. ASSUME NEW q \in Flows, q # m PROVE Placed(q)'
  BY <1>1, <1>2 DEF Placed, Unborn, Sent, InQuery, InScope, InSession
<1>3. Placed(m)'
  BY <1>1 DEF Placed, InQuery, InScope, InSession
<1>4. Recent'
  <2>1. \A q \in Flows : InQuery(q)' => InQuery(q) /\ q # m
    BY DEF InQuery
  <2>2. ASSUME NEW q \in Flows, q # m, session[q] \notin contended
        PROVE  /\ \A n \in Flows : (InQuery(q)' /\ InQuery(n)' /\ session'[n] = session'[q]) => n = q
               /\ (stored[q] = "answer" /\ ~ InQuery(q)') => answeredAt[q] <= updatedAt[session[q]]
               /\ at[q] \in {"append_answer", "touch"} => updatedAt[session[q]] <= answeredAt[q]
    BY <2>1, <2>2 DEF Exchanges, Recent, InQuery
  <2>3. (session[m] \notin contended /\ stored[m] = "answer") =>
          answeredAt[m] <= updatedAt[session[m]] /\ session'[m] = session[m]
    BY <1>1 DEF Exchanges, Recent, Placed
  <2>4. stored[m] = "answer" => session'[m] = session[m]
    OBVIOUS
  <2>5. at'[m] \notin {"append_answer", "touch"}
    BY DEF InQuery
  <2> QED
    BY <2>1, <2>2, <2>3, <2>4, <2>5 DEF Recent
<1> QED
  BY <1>1, <1>2, <1>3, <1>4 DEF Exchanges

LEMMA MoveExchanges ==
  ASSUME Exchanges, Typed', NEW m \in Flows, Move(m)
  PROVE  Exchanges'
<1> DEFINE Called(o, k, w, t) ==
             /\ Send(m, o, w, t) /\ kind' = [kind EXCEPT ![m] = k]
             /\ UNCHANGED <<library, repository, contended>>
<1>1. /\ kind[m] = "unused" /\ at[m] = "idle" /\ stored[m] = "none"
      /\ workspaceOf[m] = NoWorkspace
  BY DEF Exchanges, Placed, Unborn, Move, Switch, Open, Create, Submit, UploadAndAsk, OtherAsks,
     Fresh
<1>2. workspace \in Workspaces /\ Typed /\ CallsTyped /\ ChatTypeOK /\ PageTyped
  BY DEF Exchanges, Typed, PageTyped, CallsTyped
<1>3. ASSUME NEW o, NEW k, NEW w \in Workspaces, NEW t, Called(o, k, w, t),
             k # "unused", o = "query" => k \in Askers
      PROVE  Exchanges'
  <2>1. /\ \A q \in Flows \ {m} : /\ at'[q] = at[q] /\ op'[q] = op[q] /\ kind'[q] = kind[q]
                                 /\ access'[q] = access[q] /\ session'[q] = session[q]
        /\ at'[m] = "sent" /\ kind'[m] = k /\ access'[m] = w /\ op'[m] = o
    BY <1>2, <1>3 DEF Send, Goto, ChatTypeOK, PageTyped
  <2>2. /\ UNCHANGED <<library, repository, contended>> /\ ~ InQuery(m)' /\ ~ InQuery(m)
    BY <1>1, <1>3, <2>1 DEF InQuery
  <2> QED
    BY <1>1, <1>3, <2>1, <2>2, FlowStep
<1>4. ASSUME NEW w \in Workspaces, Switch(m, w) PROVE Exchanges'
  <2>1. Called("list", "load", w, NoSession)
    BY <1>4 DEF Switch, rest
  <2> QED
    BY <1>3, <2>1
<1>5. ASSUME NEW t \in Sessions, Open(m, t) PROVE Exchanges'
  <2>1. Called("get", "open", workspace, t)
    BY <1>5 DEF Open, Becomes, rest
  <2> QED
    BY <1>2, <1>3, <2>1
<1>6. CASE Create(m)
  <2>1. Called("create", "create", workspace, NoSession)
    BY <1>6 DEF Create, Becomes, rest
  <2> QED
    BY <1>2, <1>3, <2>1
<1>7. CASE Submit(m)
  <2>1. Called("create", "submit", workspace, NoSession) \/ Called("query", "submit", workspace, active)
    BY <1>7 DEF Submit, Becomes, rest
  <2> QED
    BY <1>2, <1>3, <2>1 DEF Askers
<1>8. CASE UploadAndAsk(m)
  <2>1. Called("upload", "ask", workspace, NoSession)
    BY <1>8 DEF UploadAndAsk, Becomes, rest
  <2> QED
    BY <1>2, <1>3, <2>1
<1>9. ASSUME NEW w \in Workspaces, NEW t \in Sessions \union {NoSession}, OtherAsks(m, w, t)
      PROVE  Exchanges'
  <2>1. Called("query", "other", w, t)
    BY <1>9 DEF OtherAsks, Becomes, rest
  <2> QED
    BY <1>3, <2>1 DEF Askers
<1> QED
  BY <1>4, <1>5, <1>6, <1>7, <1>8, <1>9 DEF Move

LEMMA PageStepExchanges ==
  ASSUME Exchanges, Typed', NEW m \in Flows, PageStep(m)
  PROVE  Exchanges'
<1>1. /\ Typed /\ CallsTyped /\ ChatTypeOK /\ PageTyped /\ workspace \in Workspaces
      /\ m \in Sessions /\ NoSession \notin Sessions /\ Placed(m)
  BY SessionsAssumption DEF Exchanges, Typed, PageTyped, CallsTyped
<1>2. CASE Load(m)
  <2>1. /\ kind[m] = "unused" /\ at[m] = "idle" /\ stored[m] = "none"
    BY <1>1, <1>2 DEF Placed, Load, Fresh
  <2>2. /\ \A q \in Flows \ {m} : /\ at'[q] = at[q] /\ op'[q] = op[q] /\ kind'[q] = kind[q]
                                 /\ access'[q] = access[q] /\ session'[q] = session[q]
        /\ at'[m] = "sent" /\ kind'[m] = "load" /\ access'[m] = workspace /\ op'[m] = "list"
    BY <1>1, <1>2 DEF Load, Becomes, Send, Goto, ChatTypeOK, PageTyped
  <2>3. UNCHANGED <<library, repository, contended>> /\ ~ InQuery(m)' /\ ~ InQuery(m)
        /\ ~ Unborn(m)'
    BY <1>2, <2>1, <2>2 DEF InQuery, Load, rest, Unborn, Sent
  <2> QED
    BY <1>1, <2>1, <2>2, <2>3, FlowStep
<1>3. ASSUME kind[m] # "unused", op[m] # "none", at[m] = "answered",
             UNCHANGED <<kind, library, repository, contended>>,
             \/ Ends(m)
             \/ Send(m, "get", access[m], reply[m].first) /\ stored[m] = "none"
             \/ Send(m, "query", access[m], m) /\ stored[m] = "none" /\ kind[m] = "submit"
             \/ Send(m, "list", access[m], session[m])
             \/ op' = [op EXCEPT ![m] = "files"] /\ UNCHANGED <<at, access, session>>
      PROVE  Exchanges'
  <2>1. \A q \in Flows \ {m} : /\ at'[q] = at[q] /\ op'[q] = op[q] /\ kind'[q] = kind[q]
                              /\ access'[q] = access[q] /\ session'[q] = session[q]
    BY <1>1, <1>3 DEF Ends, Send, Goto, ChatTypeOK
  <2>2. access'[m] = access[m] /\ at'[m] \in {"idle", "sent", "answered"} /\ kind'[m] = kind[m]
    BY <1>1, <1>3 DEF Ends, Send, Goto, ChatTypeOK
  <2>3. access[m] \in Workspaces /\ ~ InQuery(m) /\ ~ InQuery(m)'
    BY <1>1, <1>3, <2>2 DEF Placed, InQuery
  <2>4. stored[m] # "none" =>
          /\ session'[m] = session[m]
          /\ op'[m] \in {"list", "files"} \/ (op'[m] = "query" /\ at'[m] # "sent")
    BY <1>1, <1>3 DEF Ends, Send, Goto, ChatTypeOK, Placed
  <2>6. op'[m] = "query" => kind[m] \in Askers
    BY <1>1, <1>3 DEF Ends, Send, Goto, ChatTypeOK, Placed, Askers
  <2>5. Unborn(m)' => workspaceOf[m] = NoWorkspace
    <3>1. CASE Ends(m)
      BY <1>1, <1>3, <3>1 DEF Ends, Goto, Unborn, Sent, Placed, ChatTypeOK
    <3>2. CASE ~ Ends(m)
      BY <1>1, <1>3, <3>2 DEF Send, Goto, Unborn, Sent, ChatTypeOK
    <3> QED
      BY <3>1, <3>2
  <2> QED
    BY <1>3, <2>1, <2>2, <2>3, <2>4, <2>5, <2>6, FlowStep
<1>4. ASSUME UNCHANGED server PROVE UNCHANGED <<kind, library, repository, contended>>
  BY <1>4 DEF server, flows
<1>5. CASE LoadListed(m)
  <2>1. stored[m] = "none" /\ kind[m] = "load" /\ op[m] = "list" /\ at[m] = "answered"
    BY <1>1, <1>5 DEF LoadListed, Replied, Placed, Askers, Abandoned
  <2>2. Ends(m) \/ Send(m, "get", access[m], reply[m].first)
    BY <1>5 DEF LoadListed
  <2> QED
    BY <1>3, <1>4, <1>5, <2>1, <2>2 DEF LoadListed
<1>6. CASE Loaded(m, "load") \/ Loaded(m, "open")
  BY <1>3, <1>4, <1>6 DEF Loaded, Replied
<1>7. CASE Created(m)
  BY <1>3, <1>4, <1>7 DEF Created, Replied
<1>8. CASE SubmitCreated(m)
  <2>1. stored[m] = "none" /\ kind[m] = "submit" /\ op[m] = "create" /\ at[m] = "answered"
    BY <1>1, <1>8 DEF SubmitCreated, Replied, Placed
  <2>2. Ends(m) \/ Send(m, "query", access[m], m)
    BY <1>8 DEF SubmitCreated
  <2> QED
    BY <1>3, <1>4, <1>8, <2>1, <2>2 DEF SubmitCreated
<1>9. CASE Answered(m)
  BY <1>3, <1>4, <1>9 DEF Answered, Replied
<1>10. CASE Refreshed(m)
  BY <1>3, <1>4, <1>10 DEF Refreshed, Replied
<1>11. CASE AskCreated(m)
  BY <1>3, <1>11 DEF AskCreated, Replied, flows
<1>13. CASE FilesRefreshed(m)
  BY <1>3, <1>4, <1>13 DEF FilesRefreshed, Replied
<1>14. CASE RefreshedLate(m)
  BY <1>3, <1>4, <1>14 DEF RefreshedLate, Replied
<1>15. CASE AskRefreshed(m)
  BY <1>3, <1>15 DEF AskRefreshed, Replied, flows
<1>12. CASE OtherDone(m)
  BY <1>3, <1>4, <1>12 DEF OtherDone, Replied
<1> QED
  BY <1>2, <1>5, <1>6, <1>7, <1>8, <1>9, <1>10, <1>11, <1>12, <1>13, <1>14, <1>15
     DEF PageStep

\* A call that is answered, with the repository as it was.
LEMMA AnswerExchanges ==
  ASSUME Exchanges, Typed', NEW m \in Flows, NEW r, Answer(m, r),
         UNCHANGED <<library, repository, contended, op, access, session, kind>>,
         at[m] \in {"sent", "listing", "generate", "answered"},
         at[m] = "sent" => stored[m] = "none" \/ op[m] # "query"
  PROVE  Exchanges'
<1>1. Typed /\ CallsTyped /\ ChatTypeOK /\ PageTyped /\ Placed(m)
  BY DEF Exchanges, Typed, CallsTyped
<1>2. \A q \in Flows \ {m} : at'[q] = at[q]
  BY <1>1 DEF Answer, ChatTypeOK
<1>3. at'[m] = "answered"
  BY <1>1 DEF Answer, ChatTypeOK
<1>4. (InQuery(m) => at[m] = "generate") /\ ~ InQuery(m)' /\ kind[m] # "unused"
  BY <1>1, <1>3 DEF InQuery, Placed
<1>5. Unborn(m)' => Unborn(m)
  BY <1>3, <1>4 DEF Unborn, Sent
<1> QED
  BY <1>1, <1>2, <1>3, <1>4, <1>5, FlowStep DEF Placed

\* A new session holds nothing yet.
LEMMA NewSession ==
  ASSUME Exchanges, NEW m \in Flows, workspaceOf[m] = NoWorkspace
  PROVE  \A q \in Flows : (stored[q] # "none" \/ at[q] = "append_question") =>
           session[q] # m /\ workspaceOf[session[q]] \in Workspaces
BY SessionsAssumption DEF Exchanges, Placed, InSession

\* The time of a new session, and the flows that are elsewhere.
LEMMA CreationExchanges ==
  ASSUME Exchanges, Typed', NEW m \in Flows, Unborn(m), op[m] # "none", stored[m] = "none",
         ~ InQuery(m), kind' = kind,
         UNCHANGED <<library, stored, answeredAt, cited, op, access, contended>>,
         workspaceOf' = [workspaceOf EXCEPT ![m] = access[m]],
         updatedAt' = [updatedAt EXCEPT ![m] = time + 1],
         \A q \in Flows \ {m} : at'[q] = at[q] /\ session'[q] = session[q],
         \/ at'[m] = "answered" /\ op[m] = "create"
         \/ at'[m] = "append_question" /\ session'[m] = m /\ op[m] = "query"
  PROVE  Exchanges'
<1>1. /\ Typed /\ CallsTyped /\ ChatTypeOK /\ \A q \in Flows : Placed(q)
      /\ m \in Sessions /\ NoSession \notin Sessions
  BY SessionsAssumption DEF Exchanges, Typed, CallsTyped
<1>2. workspaceOf[m] = NoWorkspace
  BY <1>1 DEF Placed
<1>3. \A q \in Flows : (stored[q] # "none" \/ at[q] = "append_question") => session[q] # m
  BY <1>2, NewSession
<1>4. workspaceOf \in [Sessions -> Workspaces \union {NoWorkspace}] /\ updatedAt \in [Sessions -> Nat]
  BY <1>1 DEF ChatTypeOK
<1>5. kind[m] # "unused" /\ access[m] \in Workspaces
  BY <1>1 DEF Placed
<1>6. Placed(m)'
  BY <1>1, <1>4, <1>5 DEF Placed, Unborn, Sent, InQuery, InScope, InSession
<1>7. ASSUME NEW q \in Flows \ {m} PROVE Placed(q)'
  <2>1. workspaceOf'[q] = workspaceOf[q] /\ q \in Sessions
    BY <1>4, <1>7, SessionsAssumption
  <2>2. (stored[q] # "none" \/ at[q] = "append_question") =>
          workspaceOf'[session[q]] = workspaceOf[session[q]]
    BY <1>1, <1>3, <1>4, <1>7 DEF Placed, InSession
  <2> QED
    BY <1>1, <1>7, <2>1, <2>2 DEF Placed, Unborn, Sent, InQuery, InScope, InSession
<1>8. Recent'
  <2>1. \A q \in Flows : InQuery(q) => stored[q] # "none"
    BY <1>1 DEF Placed
  <2>2. ASSUME NEW q \in Flows \ {m}, stored[q] # "none"
        PROVE  updatedAt'[session'[q]] = updatedAt[session[q]] /\ session'[q] # m
    BY <1>1, <1>3, <1>4, <2>2 DEF Placed, InSession
  <2>3. \A q \in Flows \ {m} : InQuery(q)' <=> InQuery(q)
    BY DEF InQuery
  <2>4. ~ InQuery(m)' /\ at'[m] \notin {"append_answer", "touch"} /\ stored'[m] # "answer"
    BY DEF InQuery
  <2>5. ASSUME NEW q \in Flows \ {m}, session[q] \notin contended
        PROVE  /\ \A n \in Flows : (InQuery(q)' /\ InQuery(n)' /\ session'[n] = session'[q]) => n = q
               /\ (stored'[q] = "answer" /\ ~ InQuery(q)') => answeredAt[q] <= updatedAt'[session'[q]]
               /\ at'[q] \in {"append_answer", "touch"} => updatedAt'[session'[q]] <= answeredAt[q]
    <3>1. ASSUME NEW n \in Flows, InQuery(q)', InQuery(n)', session'[n] = session'[q] PROVE n = q
      BY <2>3, <2>4, <2>5, <3>1 DEF Exchanges, Recent
    <3>2. (stored'[q] = "answer" /\ ~ InQuery(q)') => answeredAt[q] <= updatedAt'[session'[q]]
      BY <2>2, <2>3, <2>5 DEF Exchanges, Recent
    <3>3. at'[q] \in {"append_answer", "touch"} => updatedAt'[session'[q]] <= answeredAt[q]
      BY <2>1, <2>2, <2>5 DEF Exchanges, Recent, InQuery
    <3> QED
      BY <3>1, <3>2, <3>3
  <2> QED
    BY <2>4, <2>5 DEF Recent
<1> QED
  BY <1>6, <1>7, <1>8 DEF Exchanges

\* A step inside a query: the sessions stay, and so do the other flows.
LEMMA QueryExchanges ==
  ASSUME Exchanges, Typed', NEW m \in Flows, op[m] = "query",
         UNCHANGED <<library, workspaceOf, kind, op, access, session>>,
         contended \subseteq contended',
         \A q \in Flows \ {m} : /\ at'[q] = at[q] /\ stored'[q] = stored[q]
                                /\ cited'[q] = cited[q] /\ answeredAt'[q] = answeredAt[q],
         stored'[m] # "none", at'[m] \in {"generate", "append_answer", "touch", "answered"},
         at'[m] \in {"generate", "append_answer"} => stored'[m] = "question",
         session[m] \in Sessions, workspaceOf[session[m]] = access[m],
         InScope(m)', Recent'
  PROVE  Exchanges'
<1>1. \A q \in Flows : Placed(q)
  BY DEF Exchanges
<1>2. Placed(m)'
  BY <1>1, SessionsAssumption DEF Placed, Unborn, Sent, InQuery, InSession
<1>3. ASSUME NEW q \in Flows \ {m} PROVE Placed(q)'
  BY <1>1, <1>3 DEF Placed, Unborn, Sent, InQuery, InScope, InSession
<1> QED
  BY <1>2, <1>3 DEF Exchanges

LEMMA AskExchanges ==
  ASSUME Exchanges, Typed', NEW m \in Flows, Ask(m), kind' = kind
  PROVE  Exchanges'
<1>1. /\ Typed /\ CallsTyped /\ ChatTypeOK /\ \A q \in Flows : Placed(q)
  BY DEF Exchanges, Typed, CallsTyped
<1>2. /\ stored' = [stored EXCEPT ![m] = "question"] /\ at' = [at EXCEPT ![m] = "generate"]
      /\ UNCHANGED <<library, workspaceOf, updatedAt, answeredAt, cited, op, access, session>>
      /\ op[m] = "query" /\ at[m] = "append_question" /\ contended \subseteq contended'
      /\ session[m] \in Sessions /\ workspaceOf[session[m]] = access[m]
  BY <1>1 DEF Ask, Goto, Placed, InSession
<1>3. session[m] \notin contended' => \A q \in Flows : ~ (InQuery(q) /\ session[q] = session[m])
  BY <1>1 DEF Ask
<1>4. Recent'
  <2>1. \A q \in Flows \ {m} : InQuery(q)' <=> InQuery(q)
    BY <1>1, <1>2 DEF InQuery, ChatTypeOK
  <2>2. ASSUME NEW q \in Flows \ {m}, session[q] \notin contended'
        PROVE  /\ \A n \in Flows : (InQuery(q)' /\ InQuery(n)' /\ session[n] = session[q]) => n = q
               /\ (stored'[q] = "answer" /\ ~ InQuery(q)') => answeredAt[q] <= updatedAt[session[q]]
               /\ at'[q] \in {"append_answer", "touch"} => updatedAt[session[q]] <= answeredAt[q]
    <3>1. session[q] \notin contended /\ stored'[q] = stored[q] /\ at'[q] = at[q]
      BY <1>1, <1>2, <2>2 DEF ChatTypeOK
    <3> QED
      BY <1>3, <2>1, <2>2, <3>1 DEF Exchanges, Recent
  <2>3. stored'[m] = "question" /\ at'[m] = "generate"
    BY <1>1, <1>2 DEF ChatTypeOK
  <2>4. session[m] \notin contended' =>
          \A n \in Flows : (InQuery(m)' /\ InQuery(n)' /\ session[n] = session[m]) => n = m
    BY <1>3, <2>1
  <2> QED
    BY <1>2, <2>2, <2>3, <2>4 DEF Recent
<1>5. InScope(m)'
  BY <1>1, <1>2 DEF Placed, InScope
<1>6. /\ stored'[m] = "question" /\ at'[m] = "generate"
      /\ \A q \in Flows \ {m} : at'[q] = at[q] /\ stored'[q] = stored[q]
  BY <1>1, <1>2 DEF ChatTypeOK
<1> QED
  BY <1>2, <1>4, <1>5, <1>6, QueryExchanges

\* Both retrievals look at the files of the workspace and the selection.
LEMMA RetrievedInScope ==
  ASSUME NEW m \in Flows, NEW files \in SUBSET Files, RetrieveAndAnswer(m, files),
         NEW f \in files
  PROVE  /\ WorkspaceOfFile[f] = access[m]
         /\ library.selected = {} \/ f \in library.selected
<1>1. CASE files \in Retrieved(Candidates(access[m]))
  BY <1>1 DEF Retrieved, Candidates, FilesOf
<1>2. CASE ~ FallbackRefuses(access[m]) /\ files \in Retrieved(FallbackFinds(access[m]))
  BY <1>2 DEF Retrieved, FallbackFinds, FallbackRefuses, FilesOf
<1> QED
  BY <1>1, <1>2 DEF RetrieveAndAnswer

LEMMA RetrieveExchanges ==
  ASSUME Exchanges, Typed', NEW m \in Flows, NEW files \in SUBSET Files,
         RetrieveAndAnswer(m, files), kind' = kind
  PROVE  Exchanges'
<1>1. /\ Typed /\ CallsTyped /\ ChatTypeOK /\ Times /\ \A q \in Flows : Placed(q)
  BY DEF Exchanges, Typed, CallsTyped
<1>2. /\ cited' = [cited EXCEPT ![m] = files] /\ at' = [at EXCEPT ![m] = "append_answer"]
      /\ answeredAt' = [answeredAt EXCEPT ![m] = time + 1] /\ at[m] = "generate"
      /\ UNCHANGED <<library, workspaceOf, updatedAt, stored, op, access, session, contended>>
  BY DEF RetrieveAndAnswer, Goto
<1>3. /\ op[m] = "query" /\ stored[m] = "question" /\ session[m] \in Sessions
      /\ workspaceOf[session[m]] = access[m]
  BY <1>1, <1>2 DEF Placed, InQuery, InSession
<1>4. InScope(m)'
  BY <1>1, <1>2, RetrievedInScope DEF InScope, ChatTypeOK
<1>5. Recent'
  <2>1. \A q \in Flows : InQuery(q)' <=> InQuery(q)
    BY <1>1, <1>2 DEF InQuery, ChatTypeOK
  <2>2. ASSUME NEW q \in Flows \ {m} PROVE at'[q] = at[q] /\ answeredAt'[q] = answeredAt[q]
    BY <1>1, <1>2 DEF ChatTypeOK
  <2>3. updatedAt[session[m]] <= answeredAt'[m]
    <3>1. updatedAt[session[m]] <= time /\ updatedAt[session[m]] \in Nat /\ time \in Nat
          /\ answeredAt'[m] = time + 1
      BY <1>1, <1>2, <1>3 DEF ChatTypeOK, Times
    <3> QED
      BY <3>1
  <2> QED
    BY <1>2, <1>3, <2>1, <2>2, <2>3 DEF Exchanges, Recent
<1>6. /\ at'[m] = "append_answer"
      /\ \A q \in Flows \ {m} : at'[q] = at[q] /\ cited'[q] = cited[q] /\ answeredAt'[q] = answeredAt[q]
  BY <1>1, <1>2 DEF ChatTypeOK
<1> QED
  BY <1>2, <1>3, <1>4, <1>5, <1>6, QueryExchanges

LEMMA AppendExchanges ==
  ASSUME Exchanges, Typed', NEW m \in Flows, AppendAnswer(m), kind' = kind
  PROVE  Exchanges'
<1>1. /\ Typed /\ CallsTyped /\ ChatTypeOK /\ \A q \in Flows : Placed(q)
  BY DEF Exchanges, Typed, CallsTyped
<1>2. /\ stored' = [stored EXCEPT ![m] = "answer"] /\ at' = [at EXCEPT ![m] = "touch"]
      /\ at[m] = "append_answer"
      /\ UNCHANGED <<library, workspaceOf, updatedAt, answeredAt, cited, op, access, session, contended>>
  BY DEF AppendAnswer, Goto
<1>3. /\ op[m] = "query" /\ session[m] \in Sessions /\ workspaceOf[session[m]] = access[m]
  BY <1>1, <1>2 DEF Placed, InQuery, InSession
<1>4. /\ at'[m] = "touch" /\ stored'[m] = "answer"
      /\ \A q \in Flows \ {m} : at'[q] = at[q] /\ stored'[q] = stored[q]
  BY <1>1, <1>2 DEF ChatTypeOK
<1>5. \A q \in Flows : InQuery(q)' <=> InQuery(q)
  BY <1>2, <1>4 DEF InQuery
<1>6. Recent'
  BY <1>2, <1>4, <1>5 DEF Exchanges, Recent, InQuery
<1>7. InScope(m)'
  BY <1>1, <1>2 DEF Placed, InScope
<1> QED
  BY <1>2, <1>3, <1>4, <1>6, <1>7, QueryExchanges

LEMMA TouchExchanges ==
  ASSUME Exchanges, Typed', NEW m \in Flows, Touch(m), kind' = kind
  PROVE  Exchanges'
<1>1. /\ Typed /\ CallsTyped /\ ChatTypeOK /\ \A q \in Flows : Placed(q)
  BY DEF Exchanges, Typed, CallsTyped
<1>2. /\ updatedAt' = [updatedAt EXCEPT ![session[m]] = answeredAt[m]]
      /\ at' = [at EXCEPT ![m] = "answered"] /\ at[m] = "touch"
      /\ UNCHANGED <<library, workspaceOf, stored, answeredAt, cited, op, access, session, contended>>
  BY DEF Touch, Answer
<1>3. /\ op[m] = "query" /\ session[m] \in Sessions /\ workspaceOf[session[m]] = access[m]
      /\ stored[m] # "none" /\ InQuery(m)
  BY <1>1, <1>2 DEF Placed, InQuery, InSession
<1>4. /\ at'[m] = "answered" /\ \A q \in Flows \ {m} : at'[q] = at[q]
  BY <1>1, <1>2 DEF ChatTypeOK
<1>5. Recent'
  <2>1. ~ InQuery(m)' /\ \A q \in Flows \ {m} : InQuery(q)' <=> InQuery(q)
    BY <1>4 DEF InQuery
  <2>2. \A q \in Flows : session[q] # session[m] => updatedAt'[session[q]] = updatedAt[session[q]]
    BY <1>1, <1>2, <1>3 DEF ChatTypeOK
  <2>3. updatedAt'[session[m]] = answeredAt[m] /\ answeredAt[m] \in Nat
        /\ updatedAt[session[m]] \in Nat /\ \A q \in Flows : answeredAt[q] \in Nat
    BY <1>1, <1>2, <1>3 DEF ChatTypeOK
  <2>4. ASSUME NEW q \in Flows, session[q] \notin contended
        PROVE  /\ \A n \in Flows : (InQuery(q)' /\ InQuery(n)' /\ session[n] = session[q]) => n = q
               /\ (stored[q] = "answer" /\ ~ InQuery(q)') => answeredAt[q] <= updatedAt'[session[q]]
               /\ at'[q] \in {"append_answer", "touch"} => updatedAt'[session[q]] <= answeredAt[q]
    <3>1. CASE session[q] # session[m]
      BY <1>3, <1>4, <2>1, <2>2, <2>4, <3>1 DEF Exchanges, Recent
    <3>2. CASE session[q] = session[m]
      <4>1. q # m => ~ InQuery(q)
        BY <1>3, <2>4, <3>2 DEF Exchanges, Recent
      <4>2. ~ InQuery(q)' /\ at'[q] \notin {"append_answer", "touch"}
        BY <1>4, <2>1, <4>1 DEF InQuery
      <4>3. updatedAt[session[m]] <= answeredAt[m]
        BY <1>2, <2>4, <3>2 DEF Exchanges, Recent
      <4>4. (stored[q] = "answer" /\ q # m) => answeredAt[q] <= updatedAt[session[m]]
        BY <2>4, <3>2, <4>1 DEF Exchanges, Recent
      <4>5. stored[q] = "answer" => answeredAt[q] <= updatedAt'[session[q]]
        BY <2>3, <3>2, <4>3, <4>4
      <4> QED
        BY <4>2, <4>5
    <3> QED
      BY <3>1, <3>2
  <2> QED
    BY <1>2, <2>4 DEF Recent
<1>6. InScope(m)'
  BY <1>1, <1>2 DEF Placed, InScope
<1> QED
  BY <1>2, <1>3, <1>4, <1>5, <1>6, QueryExchanges

LEMMA ServeExchanges ==
  ASSUME Exchanges, Typed', NEW m \in Flows, ServeStep(m), kind' = kind
  PROVE  Exchanges'
<1>1. /\ Typed /\ CallsTyped /\ ChatTypeOK /\ Placed(m) /\ m \in Sessions
      /\ \A q \in Flows : stored[q] # "none" =>
           op[q] \in {"list", "files"} \/ (op[q] = "query" /\ at[q] # "sent")
  BY SessionsAssumption DEF Exchanges, Typed, CallsTyped, Placed
<1>2. CASE CreateSession(m)
  <2>1. /\ at[m] = "sent" /\ op[m] = "create" /\ Unborn(m) /\ ~ InQuery(m) /\ stored[m] = "none"
    BY <1>1, <1>2 DEF CreateSession, Sent, Unborn, InQuery
  <2>2. /\ UNCHANGED <<library, answeredAt, cited, op, access, contended, session, stored>>
        /\ workspaceOf' = [workspaceOf EXCEPT ![m] = access[m]]
        /\ updatedAt' = [updatedAt EXCEPT ![m] = time + 1]
        /\ at' = [at EXCEPT ![m] = "answered"]
    BY <1>2 DEF CreateSession, Answer
  <2>3. at'[m] = "answered" /\ \A q \in Flows \ {m} : at'[q] = at[q]
    BY <1>1, <2>2 DEF ChatTypeOK
  <2> QED
    BY <2>1, <2>2, <2>3, CreationExchanges
<1>3. CASE QueryInNew(m)
  <2>1. /\ at[m] = "sent" /\ op[m] = "query" /\ Unborn(m) /\ ~ InQuery(m) /\ stored[m] = "none"
    BY <1>1, <1>3 DEF QueryInNew, Sent, Unborn, InQuery
  <2>2. /\ UNCHANGED <<library, stored, answeredAt, cited, op, access, contended>>
        /\ workspaceOf' = [workspaceOf EXCEPT ![m] = access[m]]
        /\ updatedAt' = [updatedAt EXCEPT ![m] = time + 1]
        /\ at' = [at EXCEPT ![m] = "append_question"]
        /\ session' = [session EXCEPT ![m] = m]
    BY <1>3 DEF QueryInNew, Goto
  <2>3. /\ at'[m] = "append_question" /\ session'[m] = m
        /\ \A q \in Flows \ {m} : at'[q] = at[q] /\ session'[q] = session[q]
    BY <1>1, <2>2 DEF ChatTypeOK
  <2> QED
    BY <2>1, <2>2, <2>3, CreationExchanges
<1>8. CASE QueryIn(m)
  <2>1. /\ at[m] = "sent" /\ op[m] = "query" /\ at' = [at EXCEPT ![m] = "append_question"]
        /\ session[m] \in Sessions /\ workspaceOf[session[m]] = access[m]
        /\ UNCHANGED <<library, repository, contended, op, access, session>>
    BY <1>8 DEF QueryIn, Sent, Goto, Found, SessionsOf
  <2>2. at'[m] = "append_question" /\ \A q \in Flows \ {m} : at'[q] = at[q]
    BY <1>1, <2>1 DEF ChatTypeOK
  <2>3. /\ ~ InQuery(m) /\ ~ InQuery(m)' /\ kind[m] # "unused" /\ ~ Unborn(m)'
        /\ stored[m] = "none" /\ InSession(m)'
    BY <1>1, <2>1, <2>2, SessionsAssumption DEF Placed, InQuery, Unborn, Sent, InSession, repository
  <2> QED
    BY <1>1, <2>1, <2>2, <2>3, FlowStep DEF Placed
<1>4. CASE ListBegin(m)
  <2>1. /\ at[m] = "sent" /\ op[m] = "list" /\ at' = [at EXCEPT ![m] = "listing"]
        /\ UNCHANGED <<library, repository, contended, op, access, session>>
    BY <1>4 DEF ListBegin, Sent, Goto
  <2>2. at'[m] = "listing" /\ \A q \in Flows \ {m} : at'[q] = at[q]
    BY <1>1, <2>1 DEF ChatTypeOK
  <2>3. ~ InQuery(m) /\ ~ InQuery(m)' /\ kind[m] # "unused" /\ ~ Unborn(m)'
    BY <1>1, <2>1, <2>2 DEF Placed, InQuery, Unborn, Sent
  <2> QED
    BY <1>1, <2>1, <2>2, <2>3, FlowStep DEF Placed
<1>5. ASSUME NEW r, Answer(m, r), at[m] \in {"sent", "listing", "generate"},
             UNCHANGED <<library, repository, contended, op, access, session>>
      PROVE  Exchanges'
  BY <1>1, <1>5, AnswerExchanges
<1>6. CASE ListEnd(m)
  <2>1. \E r : Answer(m, r)
    BY <1>6 DEF ListEnd
  <2> QED
    BY <1>5, <1>6, <2>1 DEF ListEnd
<1>7. CASE GetSession(m) \/ AskRefused(m) \/ GenerateRaises(m)
  <2>1. \E r : Answer(m, r)
    BY <1>7 DEF GetSession, AskRefused, GenerateRaises
  <2> QED
    BY <1>5, <1>7, <2>1 DEF GetSession, AskRefused, GenerateRaises, Sent
<1> QED
  BY <1>2, <1>3, <1>4, <1>6, <1>7, <1>8, AskExchanges, RetrieveExchanges, AppendExchanges, TouchExchanges
     DEF ServeStep

\* A handler that gives up leaves its call to the server.
LEMMA GivesUpExchanges ==
  ASSUME Exchanges, Typed', NEW m \in Flows, QueryLost(m) \/ FilesFail(m)
  PROVE  Exchanges'
<1>1. PageTyped /\ \A q \in Flows : Placed(q)
  BY DEF Exchanges, Typed
<1>2. /\ UNCHANGED <<library, workspaceOf, updatedAt, stored, answeredAt, cited, op, at, access,
                     session, contended>>
      /\ kind[m] = "submit" /\ kind'[m] \in Abandoned
      /\ \A q \in Flows \ {m} : kind'[q] = kind[q]
  BY <1>1 DEF QueryLost, FilesFail, repository, calls, PageTyped, Abandoned
<1>3. ASSUME NEW q \in Flows PROVE Placed(q)'
  <2>1. /\ kind'[q] = "unused" <=> kind[q] = "unused"
        /\ kind[q] \in Askers => kind'[q] \in Askers
    BY <1>2 DEF Askers, Abandoned
  <2> QED
    BY <1>1, <1>2, <2>1 DEF Placed, Unborn, Sent, InQuery, InScope, InSession
<1>4. Recent'
  BY <1>2 DEF Exchanges, Recent, InQuery
<1> QED
  BY <1>3, <1>4 DEF Exchanges

LEMMA ExchangesStep == Exchanges /\ [Next]_vars => Exchanges'
<1> SUFFICES ASSUME Exchanges, [Next]_vars PROVE Exchanges'
  OBVIOUS
<1>1. Typed' /\ \A q \in Flows : Placed(q)
  BY TypeStep DEF Exchanges
<1>2. ASSUME UNCHANGED client PROVE kind' = kind
  BY <1>2 DEF client, flows
<1>3. ASSUME UNCHANGED <<library, repository, calls, contended, kind>> PROVE Exchanges'
  <2>1. UNCHANGED <<workspaceOf, updatedAt, stored, answeredAt, cited, op, at, access, session>>
    BY <1>3 DEF repository, calls
  <2>2. ASSUME NEW q \in Flows PROVE Placed(q)'
    BY <1>1, <1>3, <2>1 DEF Placed, Unborn, Sent, InQuery, InScope, InSession
  <2>3. Recent'
    BY <1>3, <2>1 DEF Exchanges, Recent, InQuery
  <2> QED
    BY <1>1, <2>2, <2>3 DEF Exchanges
<1>4. ASSUME NEW m \in Flows, ApiStep(m) PROVE Exchanges'
  <2>1. CASE ServeStep(m) /\ UNCHANGED <<panel, client>>
    BY <1>1, <1>2, <2>1, ServeExchanges
  <2>2. CASE CreateRequest(m) /\ UNCHANGED client
    <3>1. /\ Answer(m, Done) /\ at[m] = "sent" /\ op[m] = "upload"
          /\ UNCHANGED <<library, repository, contended, op, access, session>>
      BY <2>2 DEF CreateRequest, Sent
    <3> QED
      BY <1>1, <1>2, <2>2, <3>1, AnswerExchanges
  <2> QED
    BY <1>4, <2>1, <2>2 DEF ApiStep
<1>5. ASSUME NEW m \in Flows, CallFails(m), UNCHANGED <<panel, client>> PROVE Exchanges'
  <2>1. /\ Answer(m, Failed) /\ at[m] \in {"sent", "answered"}
        /\ UNCHANGED <<library, repository, contended, op, access, session>>
    BY <1>5 DEF CallFails
  <2>2. at[m] = "sent" => stored[m] = "none" \/ op[m] # "query"
    BY <1>1 DEF Placed
  <2> QED
    BY <1>1, <1>2, <1>5, <2>1, <2>2, AnswerExchanges
<1>6. ASSUME NEW m \in Flows, RequestEnds(m), UNCHANGED client PROVE Exchanges'
  BY <1>2, <1>3, <1>6 DEF RequestEnds, chatVars
<1>7. ASSUME NEW p \in Polls, PollStep(p) PROVE Exchanges'
  BY <1>2, <1>3, <1>7 DEF PollStep, Poll, PollAnswered, PollDelivered, chatVars
<1>8. CASE UNCHANGED vars
  BY <1>3, <1>8 DEF vars, chatVars, flows
<1>9. ASSUME NEW m \in Flows, QueryLost(m) \/ FilesFail(m) PROVE Exchanges'
  BY <1>1, <1>9, GivesUpExchanges
<1> QED
  BY <1>1, <1>4, <1>5, <1>6, <1>7, <1>8, <1>9, MoveExchanges, PageStepExchanges DEF Next

LEMMA ExchangesAlways == Spec => []Exchanges
BY ExchangesInit, ExchangesStep, PTL DEF Spec

\* However calls and page handlers interleave, and whatever fails, an answer that reaches a
\* session cites files of the session's workspace and of the user's selection only.
\* (ChatService.query, PostgresIndexedRetrievalService.retrieve and its fallback)
THEOREM PageCitedWithinScope == Spec => []CitedWithinScope
<1>1. Exchanges => CitedWithinScope
  BY DEF Exchanges, Placed, InScope, InSession, CitedWithinScope
<1> QED
  BY <1>1, ExchangesAlways, PTL

\* A session no two queries overlapped in is as recent as its newest answer, once no query
\* is under way there: the touches of one session come in the order of its answers.
\* (ChatService.query, InMemoryChatRepository.touch_session)
THEOREM PageUpdatedWithNewest == Spec => []UpdatedWithNewest
<1>1. Exchanges => UpdatedWithNewest
  BY DEF Exchanges, Recent, UpdatedWithNewest
<1> QED
  BY <1>1, ExchangesAlways, PTL
=============================================================================
