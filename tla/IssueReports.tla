---------------------------- MODULE IssueReports ----------------------------
(***************************************************************************)
(* The tools that write issues: report_bug, whose sessions run in the      *)
(* background and end by filing or extending an issue; bulk_close_issues;  *)
(* and batch_create_issues, a callable of run_python.                      *)
(*                                                                         *)
(* An issue is a fingerprint, whether it is open and what its body holds:  *)
(* the errors that occurred and a closing note.  Bodies are replaced as a *)
(* whole, from a copy read earlier; the search shows a new issue late.     *)
(***************************************************************************)
EXTENDS Naturals, Sequences, FiniteSets

CONSTANTS
  Reports,       \* calls of report_bug
  Fingerprints,  \* what their sessions may find
  Errors,        \* what they are called about
  Seconds,       \* the seconds in which they may be made
  Tickets,       \* how many ticket bodies the audit has
  Chunk,         \* chunk_size of batch_create_issues
  MaxBatches     \* how often batch_create_issues is called

ASSUME ReportsAssumption == {Tickets, Chunk, MaxBatches} \subseteq Nat /\ Chunk > 0

VARIABLES
  rpt,        \* where each report stands, its second, its answer
  statusAt,   \* the .status.json of each second
  issues,     \* the repository's issues, oldest first
  listed,     \* how many of them the search shows
  throttled,  \* a mutating call started less than a second ago
  closing,    \* bulk_close_issues
  batches,    \* the calls of batch_create_issues
  filed,      \* the tickets issues were created for, in order
  raced       \* some search or read was overtaken by another's write

issueVars == <<rpt, statusAt, issues, listed, throttled, closing, batches,
               filed, raced>>

IssueIds == 1..Len(issues)
note == "note"
nothing == "nothing"
NotCalled ==
  [pc |-> "idle", at |-> CHOOSE s \in Seconds : TRUE, error |-> nothing, fp |-> nothing, to |-> 0, copy |-> {}, says |-> nothing]

IssuesInit ==
  /\ rpt = [r \in Reports |-> NotCalled]
  /\ statusAt = [s \in Seconds |-> "none"]
  /\ issues = <<>> /\ listed = 0 /\ throttled = FALSE /\ raced = FALSE
  /\ closing = [pc |-> "idle", todo |-> <<>>, copy |-> {}, closed |-> {}, failed |-> {}]
  /\ batches = <<>> /\ filed = <<>>

Moves(r, fields) ==
  rpt' = [rpt EXCEPT ![r] = [f \in DOMAIN @ |-> IF f \in DOMAIN fields THEN fields[f] ELSE @[f]]]
Tells(r, word) == statusAt' = [statusAt EXCEPT ![rpt[r].at] = word]

\* Others that have read what they will write from, or found nothing and will create.
Overlapping(r) == \E q \in Reports \ {r} : rpt[q].pc \in {"update", "create"} /\ rpt[q].fp = rpt[r].fp
Editing(i) == closing.pc = "edit" /\ closing.todo[1] = i

----------------------------------------------------------------------------
(* report_bug                                                              *)

\* The paths are named by the second; a background session's status is pending at once.
report_bug(r) ==
  /\ rpt[r].pc = "idle"
  /\ \E s \in Seconds, e \in Errors, background \in BOOLEAN :
       /\ Moves(r, [pc |-> "session", at |-> s, error |-> e])
       /\ statusAt' = [statusAt EXCEPT ![s] = IF background THEN "pending" ELSE @]
  /\ UNCHANGED <<issues, listed, throttled, closing, batches, filed, raced>>

\* A report without background has no status file.
Status(r, word) == IF statusAt[rpt[r].at] = "none" THEN UNCHANGED statusAt ELSE Tells(r, word)

\* What the session wrote goes to the report file of the second, which nothing reads.  Anything
\* that raises ends the same way.
SessionFails(r) ==
  /\ rpt[r].pc = "session" /\ Status(r, "failed") /\ Moves(r, [pc |-> "done", says |-> "failed"])
  /\ UNCHANGED <<issues, listed, throttled, closing, batches, filed, raced>>

SessionReports(r) ==
  /\ rpt[r].pc = "session"
  /\ \/ \E fp \in Fingerprints : Moves(r, [pc |-> "search", fp |-> fp]) /\ UNCHANGED statusAt
     \/ Status(r, "complete") /\ Moves(r, [pc |-> "done", says |-> "skipped"])   \* no filing, or no token
  /\ UNCHANGED <<issues, listed, throttled, closing, batches, filed, raced>>

\* Open issues of the fingerprint the search shows, the first of which is taken.
Found(fp) == {i \in 1..listed : issues[i].open /\ issues[i].fp = fp}

search_issues(r) ==
  LET found == Found(rpt[r].fp)
  IN /\ rpt[r].pc = "search"
     /\ \/ Status(r, "complete") /\ Moves(r, [pc |-> "done", says |-> "skipped"]) /\ UNCHANGED raced
        \/ \E i \in found :
             /\ raced' = (raced \/ Overlapping(r) \/ Editing(i))
             /\ IF rpt[r].error \in issues[i].body
                  THEN Status(r, "complete") /\ Moves(r, [pc |-> "done", to |-> i, says |-> "duplicate"])
                  ELSE Moves(r, [pc |-> "update", to |-> i, copy |-> issues[i].body]) /\ UNCHANGED statusAt
        \/ /\ found = {} /\ Moves(r, [pc |-> "create"]) /\ UNCHANGED statusAt
           /\ raced' = (raced \/ Overlapping(r)
                          \/ \E i \in IssueIds : issues[i].open /\ issues[i].fp = rpt[r].fp)
  /\ UNCHANGED <<issues, listed, throttled, closing, batches, filed>>

\* _throttle_mutating: a second between the starts of two mutating calls.
Mutates == ~throttled /\ throttled' = TRUE

\* Mutant: only the new section is written.
NewOccurrence(r) == {rpt[r].error}

\* The body that was found, and the new occurrence after it.
Occurrence(r) == rpt[r].copy \union {rpt[r].error}

\* A request may fail, before GitHub acts or after.
update_issue_body(r) ==
  /\ rpt[r].pc = "update" /\ Mutates /\ Status(r, "complete")
  /\ \E lands, answers \in BOOLEAN :
       /\ answers => lands
       /\ issues' = IF lands THEN [issues EXCEPT ![rpt[r].to].body = Occurrence(r)] ELSE issues
       /\ Moves(r, [pc |-> "done", says |-> IF answers THEN "updated" ELSE "update_failed"])
       /\ raced' = (raced \/ (lands /\ Editing(rpt[r].to)))
  /\ UNCHANGED <<listed, closing, batches, filed>>

create_issue(r) ==
  /\ rpt[r].pc = "create" /\ Mutates /\ Status(r, "complete")
  /\ \E lands, answers \in BOOLEAN :
       /\ answers => lands
       /\ issues' = IF lands THEN Append(issues, [fp |-> rpt[r].fp, open |-> TRUE, body |-> {rpt[r].error}]) ELSE issues
       /\ Moves(r, [pc |-> "done", to |-> IF answers THEN Len(issues) + 1 ELSE 0,
                   says |-> IF answers THEN "created" ELSE "create_failed"])
  /\ UNCHANGED <<listed, closing, batches, filed, raced>>

\* The server goes down; nobody waits for its background tasks.
ServerStops ==
  /\ \E r \in Reports : rpt[r].pc \notin {"idle", "done", "cut"}
  /\ rpt' = [r \in Reports |-> IF rpt[r].pc \in {"idle", "done"} THEN rpt[r] ELSE [rpt[r] EXCEPT !.pc = "cut"]]
  /\ UNCHANGED <<statusAt, issues, listed, throttled, closing, batches, filed, raced>>

SearchCatchesUp ==
  /\ listed < Len(issues) /\ listed' = listed + 1
  /\ UNCHANGED <<rpt, statusAt, issues, throttled, closing, batches, filed, raced>>

SecondPasses ==
  /\ throttled /\ throttled' = FALSE
  /\ UNCHANGED <<rpt, statusAt, issues, listed, closing, batches, filed, raced>>

ReportSteps ==
  (\E r \in Reports : \/ report_bug(r) \/ SessionFails(r) \/ SessionReports(r) \/ search_issues(r)
                      \/ update_issue_body(r) \/ create_issue(r))
  \/ ServerStops \/ SearchCatchesUp \/ SecondPasses

----------------------------------------------------------------------------
(* bulk_close_issues, once, on all issues there are; gh is not throttled.  *)

bulk_close_issues ==
  /\ closing.pc = "idle" /\ issues # <<>>
  /\ closing' = [closing EXCEPT !.pc = "view", !.todo = [i \in IssueIds |-> i]]
  /\ UNCHANGED <<rpt, statusAt, issues, listed, throttled, batches, filed, raced>>

NextIssue(outcome) ==
  closing' = [closing EXCEPT !.todo = Tail(@), !.pc = IF Len(closing.todo) = 1 THEN "done" ELSE "view",
                             ![outcome] = @ \union {closing.todo[1]}]

ViewBody ==
  /\ closing.pc = "view"
  /\ \/ closing' = [closing EXCEPT !.pc = "edit", !.copy = issues[closing.todo[1]].body]
        /\ raced' = (raced \/ \E r \in Reports : rpt[r].pc = "update" /\ rpt[r].to = closing.todo[1])
     \/ NextIssue("failed") /\ UNCHANGED raced
  /\ UNCHANGED <<rpt, statusAt, issues, listed, throttled, batches, filed>>

EditBody ==
  LET i == closing.todo[1]
  IN /\ closing.pc = "edit"
     /\ \/ issues' = [issues EXCEPT ![i].body = closing.copy \union {note}] /\ closing' = [closing EXCEPT !.pc = "close"]
        \/ issues' \in {issues, [issues EXCEPT ![i].body = closing.copy \union {note}]} /\ NextIssue("failed")
  /\ UNCHANGED <<rpt, statusAt, listed, throttled, batches, filed, raced>>

CloseIssue ==
  /\ closing.pc = "close"
  /\ \/ issues' = [issues EXCEPT ![closing.todo[1]].open = FALSE] /\ NextIssue("closed")
     \/ issues' \in {issues, [issues EXCEPT ![closing.todo[1]].open = FALSE]} /\ NextIssue("failed")
  /\ UNCHANGED <<rpt, statusAt, listed, throttled, batches, filed, raced>>

Closing == bulk_close_issues \/ ViewBody \/ EditBody \/ CloseIssue

----------------------------------------------------------------------------
(* batch_create_issues: a thread of its own, which a timeout does not end. *)

reporting == <<rpt, statusAt, issues, listed, throttled, closing, raced>>

RunPython ==
  /\ Len(batches) < MaxBatches
  /\ \A b \in DOMAIN batches : batches[b].says \notin {nothing, "created"}
  /\ batches' = Append(batches, [pc |-> "mutation", next |-> 1, says |-> nothing, urls |-> 0])
  /\ UNCHANGED <<reporting, filed>>

\* One mutation per chunk, executed alias by alias; an error in any of them raises.
CreateChunk(b) ==
  LET first == batches[b].next
      last == IF first + Chunk - 1 < Tickets THEN first + Chunk - 1 ELSE Tickets
  IN /\ batches[b].pc = "mutation"
     /\ \E to \in (first - 1)..last :
          /\ filed' = filed \o [t \in 1..(to + 1 - first) |-> first + t - 1]
          /\ \/ /\ to = last
                /\ batches' = [batches EXCEPT ![b].next = to + 1, ![b].urls = @ + to + 1 - first,
                                              ![b].pc = IF to = Tickets THEN "returns" ELSE "mutation"]
             \/ batches' = [batches EXCEPT ![b].pc = "ended", ![b].says = IF @ = nothing THEN "raised" ELSE @]
     /\ UNCHANGED reporting

ReturnURLs(b) ==
  /\ batches[b].pc = "returns"
  /\ batches' = [batches EXCEPT ![b].pc = "ended", ![b].says = IF @ = nothing THEN "created" ELSE @]
  /\ UNCHANGED <<reporting, filed>>

\* The caller is told of a timeout; the thread goes on.
RunPythonTimeout(b) ==
  /\ batches[b].says = nothing /\ batches' = [batches EXCEPT ![b].says = "timeout"]
  /\ UNCHANGED <<reporting, filed>>

Batch == RunPython \/ \E b \in DOMAIN batches : CreateChunk(b) \/ ReturnURLs(b) \/ RunPythonTimeout(b)

IssuesNext == ReportSteps \/ Closing \/ Batch

IssuesSpec == IssuesInit /\ [][IssuesNext]_issueVars

----------------------------------------------------------------------------

\* The word of a status file is that of its report when no other was made in the same
\* second: pending while the report is under way or was cut off, final when it is done.
StatusTold ==
  \A r \in Reports :
    /\ rpt[r].pc # "idle" /\ statusAt[rpt[r].at] # "none"
    /\ \A q \in Reports \ {r} : rpt[q].pc = "idle" \/ rpt[q].at # rpt[r].at
    => statusAt[rpt[r].at] = IF rpt[r].pc # "done" THEN "pending"
                             ELSE IF rpt[r].says = "failed" THEN "failed" ELSE "complete"

\* Unless a search or a read was overtaken, a fingerprint has one open issue, what a
\* report was told of is in its issue, and what was closed is closed with its note.
NothingLostAlone ==
  ~raced =>
    /\ \A i, j \in IssueIds : i # j /\ issues[i].fp = issues[j].fp 
         => ~(issues[i].open /\ issues[j].open)
    /\ \A r \in Reports : rpt[r].says \in {"updated", "created", "duplicate"} => rpt[r].error \in issues[rpt[r].to].body
    /\ \A i \in closing.closed : ~issues[i].open /\ note \in issues[i].body

\* A batch that answers with its issues has created one for every ticket, and no ticket
\* has a second one unless an earlier batch failed, or was taken for failed.
BatchOnce ==
  /\ \A b \in DOMAIN batches : batches[b].says = "created" => batches[b].urls = Tickets
  /\ \A i, j \in DOMAIN filed : i # j /\ filed[i] = filed[j] => Len(batches) > 1

ReportsSafe == StatusTold /\ NothingLostAlone /\ BatchOnce
=============================================================================
