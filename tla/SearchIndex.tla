---------------------------- MODULE SearchIndex ----------------------------
(***************************************************************************)
(* What ingestion promises retrieval: a file is either not searchable, or  *)
(* searchable with one complete content, every chunk with its own vector.  *)
(* A content is published whole and withdrawn whole; it is never edited in *)
(* place and never replaced without being withdrawn first.                 *)
(***************************************************************************)
CONSTANTS Files, Contents(_), Nothing

VARIABLE visible

Init == visible = [f \in Files |-> Nothing]

Publish(f) ==
  /\ visible[f] = Nothing
  /\ \E c \in Contents(f) : visible' = [visible EXCEPT ![f] = c]

Withdraw(f) ==
  /\ visible[f] # Nothing
  /\ visible' = [visible EXCEPT ![f] = Nothing]

Next == \E f \in Files : Publish(f) \/ Withdraw(f)

Spec == Init /\ [][Next]_visible
=============================================================================
