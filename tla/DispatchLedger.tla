--------------------------- MODULE DispatchLedger ---------------------------
(***************************************************************************)
(* What a dispatch state file promises its readers, with no file, copy or  *)
(* lock in sight: a status per dispatch, each changed by one move of the   *)
(* transition table at a time, except that a resumed campaign may take     *)
(* several failures back to pending at once.                               *)
(***************************************************************************)
EXTENDS DispatchStates

CONSTANT Names

VARIABLE status

Init == status \in [Names -> Statuses \cup {Absent}]

\* A dispatch the file does not list yet is appended with its outcome.
Enlist(n, s) ==
  /\ status[n] = Absent
  /\ status' = [status EXCEPT ![n] = s]

\* Any other change of one dispatch follows the table.
Move(n, s) ==
  /\ Valid(status[n], s)
  /\ status' = [status EXCEPT ![n] = s]

\* Failed dispatches are given another try together.
Retry(failed) ==
  /\ \A n \in failed : status[n] = "failure"
  /\ status' = [n \in Names |-> IF n \in failed THEN "pending" ELSE status[n]]

Next ==
  \/ \E n \in Names, s \in Statuses : Enlist(n, s) \/ Move(n, s)
  \/ \E failed \in SUBSET Names : Retry(failed)

Spec == Init /\ [][Next]_status
=============================================================================
