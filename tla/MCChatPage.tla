----------------------------- MODULE MCChatPage -----------------------------
(* ChatPage on small instances: see the README for the bounds. *)
EXTENDS ChatPage, TLC

CONSTANTS w1, w2, w3, f1, f2, g, FlowCount

MCFlows == 1 .. FlowCount
\* Two sessions in the workspace of the start, one in another, none in the third.
MCSessions == MCFlows \union {11, 12, 21}
MCWorkspaceGiven == (11 :> w1 @@ 12 :> w1 @@ 21 :> w2)
MCWorkspaceOfFile == (f1 :> w1 @@ f2 :> w1 @@ g :> w2)

Library(rows, indexed, selected) ==
  [rows |-> rows, records |-> {f1, f2, g}, indexed |-> indexed, selected |-> selected]
Empty == Library({}, {}, {})
\* Postgres finds more than is asked for; only the fallback has a file; it is asked for
\* a file of the other workspace.
Finds    == Library({f1, f2, g}, {f1}, {f1, f2})
FallsBack == Library({}, {f1, g}, {})
Refuses  == Library({}, {f1, g}, {f1, g})
MCLibraries == {Empty, Finds, FallsBack, Refuses}

\* Some moves, n flows with the load of the page and k mishaps.
Plan(m, l, n, k) == [moves |-> m, library |-> l, flows |-> n, mishaps |-> k]
MCPlans ==
  {Plan({"switch", "open"}, Empty, 4, 0), Plan({"switch", "open"}, Empty, 3, 1),
   Plan({"submit", "open"}, Empty, 3, 1), Plan({"submit", "switch"}, Empty, 3, 1),
   Plan({"submit", "create"}, Refuses, 3, 1), Plan({"submit", "other"}, Refuses, 2, 1),
   Plan({"submit", "other"}, Finds, 2, 1), Plan({"other"}, FallsBack, 3, 0),
   Plan({"ask", "switch"}, Empty, 3, 0), Plan({"ask"}, Empty, 2, 1)}
=============================================================================
