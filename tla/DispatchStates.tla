--------------------------- MODULE DispatchStates ---------------------------
(***************************************************************************)
(* The vocabulary of the fleet state files (fleet/state_types.py): the     *)
(* statuses of a dispatch, the transition table every writer validates     *)
(* against, the record a file keeps per dispatch, and the pure decisions   *)
(* taken over a whole file (halt, retry, choice of the next dispatch).     *)
(*                                                                         *)
(* A dispatch is named by its position in the file's list, 1..N, so the    *)
(* list order the code iterates in is the order of the naturals.           *)
(***************************************************************************)
EXTENDS Naturals, FiniteSetsExt

\* DispatchStatus.
Statuses == {"pending", "running", "success", "failure", "interrupted",
             "resumable", "skipped", "refused", "released"}

\* Not a DispatchStatus: the file's list has no record of that name.
Absent == "absent"

\* _ALLOWED_TRANSITIONS, as the set of pairs the table lets through.
AllowedTransitions ==
  ({"pending"} \X {"running", "success", "failure", "skipped", "refused", "released"})
    \cup ({"running"} \X {"success", "failure", "interrupted", "resumable"})
    \cup ({"resumable"} \X {"running", "success", "failure", "interrupted"})
    \cup {<<"failure", "pending">>}

\* _validate_transition lets the write go ahead; otherwise it raises ValueError.
Valid(old, new) == <<old, new>> \in AllowedTransitions

\* TERMINAL_DISPATCH_STATUSES.
Terminal == {"success", "failure", "skipped", "released"}

(***************************************************************************)
(* The reasons of a record, up to what the code tells apart: the two       *)
(* infrastructure reasons of _INFRASTRUCTURE_FAILURE_REASONS ("infra"),    *)
(* any other failure ("logic"), none.  Only has_failed_dispatch reads a    *)
(* reason, and only of a failure: the reason of any other record is left   *)
(* out, that is, "".                                                       *)
(***************************************************************************)
Reasons == {"", "infra", "logic"}

(***************************************************************************)
(* kill_reason with infra_exit_category, up to _is_abandon_kill_reason:    *)
(* "abandon" for the four reasons of _ABANDON_KILL_REASONS and for RESUME  *)
(* after context exhaustion, "retry" for every other reason.               *)
(***************************************************************************)
KillReasons == {"", "retry", "abandon"}

DispatchRecord == [status  : Statuses \cup {Absent},
                   reason  : Reasons,
                   kill    : KillReasons,
                   sidecar : BOOLEAN]

\* A record as the DispatchRecord constructor builds it.
Record(s, reason, kill) ==
  [status |-> s, reason |-> reason, kill |-> kill, sidecar |-> FALSE]

\* ... with its metadata at the dataclass defaults.
Blank(s) == Record(s, "", "")

\* _clear_dispatch_for_retry: everything is cleared but the kill metadata.
Cleared(r) == [status |-> "pending", reason |-> "", kill |-> r.kill, sidecar |-> FALSE]

\* has_failed_dispatch: a failure that is not put down to the infrastructure.
HasLogicFailure(content) ==
  \E n \in DOMAIN content :
    content[n].status = "failure" /\ content[n].reason # "infra"

TerminalNames(content) ==    \* mutant: every terminal dispatch is given another try
  {n \in DOMAIN content : content[n].status \in Terminal}
FailedNames(content) == {n \in DOMAIN content : content[n].status = "failure"}

(***************************************************************************)
(* The tail of resume_campaign_from_state: the first dispatch of the list  *)
(* that is resumable or pending is offered next; 0 is the empty name.      *)
(***************************************************************************)
Offered(content) == {n \in DOMAIN content : content[n].status \in {"resumable", "pending"}}

NextDispatch(content) == IF Offered(content) = {} THEN 0 ELSE Min(Offered(content))
=============================================================================
