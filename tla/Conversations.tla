--------------------------- MODULE Conversations ---------------------------
(***************************************************************************)
(* What the chat repository keeps for its users: sessions that stay in the *)
(* workspace they were begun in, and in each session questions that are    *)
(* asked once and answered at most once, from files of that workspace and  *)
(* of the user's selection.  Who asks, the calls that are under way and    *)
(* those that fail do not show.                                            *)
(***************************************************************************)
CONSTANTS Sessions, NoSession, Workspaces, NoWorkspace, Flows, WorkspaceOfFile

VARIABLES
  workspaceOf,  \* the workspace of each session, NoWorkspace if it does not exist
  selected,     \* the files the users have selected: none is all
  posted,       \* how much of each exchange there is
  place,        \* the session it is in
  cites         \* the files its answer cites

vars == <<workspaceOf, selected, posted, place, cites>>

Init ==
  /\ workspaceOf \in [Sessions -> Workspaces \union {NoWorkspace}]
  /\ posted = [m \in Flows |-> "none"]
  /\ place  = [m \in Flows |-> NoSession]
  /\ cites  = [m \in Flows |-> {}]

Begin(s, w) ==
  /\ workspaceOf[s] = NoWorkspace
  /\ workspaceOf' = [workspaceOf EXCEPT ![s] = w]

\* A question is put in a session there is.
Ask(m, s) ==
  /\ posted[m] = "none"
  /\ workspaceOf[s] # NoWorkspace
  /\ posted' = [posted EXCEPT ![m] = "question"]
  /\ place' = [place EXCEPT ![m] = s]
  /\ UNCHANGED <<workspaceOf, selected, cites>>

Answer(m) ==
  /\ posted[m] = "question"
  /\ posted' = [posted EXCEPT ![m] = "answer"]
  /\ \E files \in SUBSET {f \in DOMAIN WorkspaceOfFile :
                            /\ WorkspaceOfFile[f] = workspaceOf[place[m]]
                            /\ selected = {} \/ f \in selected} :
       cites' = [cites EXCEPT ![m] = files]
  /\ UNCHANGED <<workspaceOf, selected, place>>

Next ==
  \/ \E s \in Sessions, w \in Workspaces : Begin(s, w) /\ UNCHANGED <<selected, posted, place, cites>>
  \/ \E m \in Flows : Answer(m) \/ \E s \in Sessions : Ask(m, s)

Spec == Init /\ [][Next]_vars
=============================================================================
