------------------------------ MODULE CIWatch ------------------------------
(***************************************************************************)
(* wait_for_ci: the CI watcher looks back for a completed run, polls until *)
(* a run appears, waits until it completes; when no run ever appears, an   *)
(* empty commit is pushed and the watcher runs once more.  Runs appear and *)
(* complete, and other people push, meanwhile.                             *)
(***************************************************************************)
EXTENDS Integers, Sequences, FiniteSets

CONSTANTS Page,      \* completed runs a look-back returns (per_page)
          Patience,  \* timeout_seconds, in polls
          MaxRuns    \* bound: runs GitHub starts

ASSUME CIAssumption ==
  Page \in Nat \ {0} /\ Patience \in Nat /\ MaxRuns \in Nat \ {0}

\* Commits: one pushed before the call, the caller's HEAD, the empty one of the
\* trigger, one pushed by somebody else.
Commits == {"before", "head", "trigger", "foreign"}
AnyCommit == "any"
NoRun == 0

VARIABLES runs,      \* GitHub: [sha, status, stale], in the order they started
          remote,    \* GitHub: the branch
          cpc, local, goal, known, time, found, verdict,
          polled,    \* run_data has been assigned
          triggered, \* the wait that follows a push
          looked,    \* history: runs that had started at the last look for active ones
          foggy      \* history: an answer of git was lost

hubVars == <<runs, remote>>
ciVars == <<hubVars, cpc, local, goal, known, time, found, verdict, polled, triggered, looked, foggy>>

\* "completed" stands for the run's own conclusion, reported as it is.
Statuses == {"active", "completed"}
Run == [sha : Commits, status : Statuses, stale : BOOLEAN]
Conclusions == {"completed", "no_runs", "timed_out", "error", "raised",
                "merge_conflict", "gh_view_failed", "auto_trigger_failed"}
NoVerdict == [conclusion |-> "none", run |-> NoRun]

CITypeOK ==
  /\ runs \in Seq(Run) /\ Len(runs) <= MaxRuns
  /\ {remote, local, known} \subseteq Commits /\ goal \in Commits \union {AnyCommit}
  /\ cpc \in {"new", "lookback", "active", "recheck", "sleep", "follow", "ended", "view",
              "commit", "push", "reset", "done"}
  /\ time \in 0..Patience /\ {found, looked} \subseteq 0..MaxRuns
  /\ verdict.conclusion \in Conclusions \union {"none"} /\ verdict.run \in 0..MaxRuns
  /\ {polled, triggered, foggy} \subseteq BOOLEAN

CIInit ==
  /\ runs = <<>> /\ remote = "head" /\ cpc = "new" /\ local = "head" /\ goal = AnyCommit
  /\ known = "head" /\ time = Patience /\ found = NoRun /\ verdict = NoVerdict
  /\ polled = FALSE /\ triggered = FALSE /\ looked = 0 /\ foggy = FALSE

----------------------------------------------------------------------------
(* GitHub.                                                                  *)

\* A commit that was pushed has its runs started some time later.
StartRun ==
  /\ Len(runs) < MaxRuns
  /\ \E sha \in {"before", remote} :
       runs' = Append(runs, [sha |-> sha, status |-> "active", stale |-> FALSE])
  /\ UNCHANGED remote

EndRun ==
  /\ \E r \in DOMAIN runs :
       /\ runs[r].status = "active" /\ runs' = [runs EXCEPT ![r].status = "completed"]
  /\ UNCHANGED remote

\* Somebody else pushes the branch.
ForeignPush == remote # "foreign" /\ remote' = "foreign" /\ UNCHANGED runs

Hub ==
  /\ cpc \notin {"new", "done"}
  /\ StartRun \/ EndRun \/ ForeignPush
  /\ UNCHANGED <<cpc, local, goal, known, time, found, verdict, polled, triggered, looked,
                 foggy>>

----------------------------------------------------------------------------
(* DefaultCIWatcher.wait.                                                   *)

\* _validate_run_matches_scope
Matches(r) == goal \in {AnyCommit, runs[r].sha}

Ended == {r \in DOMAIN runs : runs[r].status # "active"}

\* The page of completed runs, the newest, without those before the cutoff.
Completed ==
  {r \in Ended : Cardinality({q \in Ended : q > r}) < Page /\ ~runs[r].stale}

CompletedMatch == {r \in Completed : Matches(r)}
Latest(found_runs) == CHOOSE r \in found_runs : \A q \in found_runs : q <= r

\* Only the newest run is asked for.
ActiveMatch ==
  {r \in DOMAIN runs : r = Len(runs) /\ runs[r].status = "active" /\ Matches(r)}

KeepCaller == UNCHANGED <<hubVars, local, known, foggy, triggered>>

Conclude(conclusion, r) == verdict' = [conclusion |-> conclusion, run |-> r] /\ cpc' = "ended"
Report(r) == Conclude(runs[r].status, r)

\* A HEAD that git does not tell leaves the scope open.
CIBegin ==
  /\ cpc = "new" /\ cpc' = "lookback"
  /\ runs' \in {<<>>, <<[sha |-> "before", status |-> "active", stale |-> FALSE]>>}
                \union {<<[sha |-> "before", status |-> "completed", stale |-> old]>> :
                          old \in BOOLEAN}
  /\ \/ goal' = local /\ UNCHANGED foggy
     \/ goal' = AnyCommit /\ foggy' = TRUE
  /\ UNCHANGED <<remote, local, known, time, found, verdict, polled, triggered, looked>>

\* An HTTP error ends the wait in every phase.
RequestFails ==
  /\ cpc \in {"lookback", "active", "recheck", "follow"}
  /\ Conclude("error", NoRun)
  /\ KeepCaller /\ UNCHANGED <<goal, time, found, polled, looked>>

Lookback ==
  /\ cpc = "lookback"
  /\ IF CompletedMatch # {} THEN Report(Latest(CompletedMatch))
                            ELSE cpc' = "active" /\ UNCHANGED verdict
  /\ KeepCaller /\ UNCHANGED <<goal, time, found, polled, looked>>

\* The request may outlast the deadline.
PollActive ==
  /\ cpc = "active" /\ time > 0
  /\ looked' = Len(runs)
  /\ IF ActiveMatch # {}
     THEN found' = Latest(ActiveMatch) /\ cpc' = "follow" /\ time' \in {0, time}
     ELSE cpc' = "recheck" /\ UNCHANGED <<found, time>>
  /\ KeepCaller /\ UNCHANGED <<goal, verdict, polled>>

NoRuns ==
  /\ cpc = "active" /\ time = 0 /\ Conclude("no_runs", NoRun)
  /\ KeepCaller /\ UNCHANGED <<goal, time, found, polled, looked>>

\* Mutant: no second look at the completed runs.
NoRecheck ==
  /\ cpc = "recheck" /\ cpc' = "sleep"
  /\ KeepCaller /\ UNCHANGED <<goal, time, found, verdict, polled, looked>>

Recheck ==
  /\ cpc = "recheck"
  /\ IF CompletedMatch # {} THEN Report(Latest(CompletedMatch))
                            ELSE cpc' = "sleep" /\ UNCHANGED verdict
  /\ KeepCaller /\ UNCHANGED <<goal, time, found, polled, looked>>

\* Mutant: a poll that takes no time.
Restless ==
  /\ cpc = "sleep" /\ cpc' = "active"
  /\ KeepCaller /\ UNCHANGED <<goal, time, found, verdict, polled, looked>>

PollSleep ==
  /\ cpc = "sleep" /\ cpc' = "active" /\ time' = time - 1
  /\ KeepCaller /\ UNCHANGED <<goal, found, verdict, polled, looked>>

Follow ==
  /\ cpc = "follow" /\ time > 0 /\ polled' = TRUE
  /\ IF runs[found].status = "active" THEN time' = time - 1 /\ UNCHANGED <<cpc, verdict>>
                                      ELSE Report(found) /\ UNCHANGED time
  /\ KeepCaller /\ UNCHANGED <<goal, found, looked>>

\* The answer names the last status polled; with none, evaluating it raises.
FollowTimeUp ==
  /\ cpc = "follow" /\ time = 0
  /\ Conclude(IF polled THEN "timed_out" ELSE "raised", found)
  /\ KeepCaller /\ UNCHANGED <<goal, time, found, polled, looked>>

----------------------------------------------------------------------------
(* wait_for_ci and _auto_trigger_ci.                                        *)

KeepWatcher == UNCHANGED <<time, found, polled, looked>>
Finish(conclusion) == verdict' = [verdict EXCEPT !.conclusion = conclusion] /\ cpc' = "done"

\* With auto_trigger, once, when no run appeared.
Answered ==
  /\ cpc = "ended"
  /\ \/ Finish(IF verdict.conclusion # "raised" THEN verdict.conclusion
               ELSE IF triggered THEN "auto_trigger_failed" ELSE "error")
     \/ ~triggered /\ verdict.conclusion = "no_runs" /\ cpc' = "view" /\ UNCHANGED verdict
  /\ KeepCaller /\ KeepWatcher /\ UNCHANGED goal

ViewPR ==
  /\ cpc = "view"
  /\ \/ \E conclusion \in {"gh_view_failed", "merge_conflict"} : Finish(conclusion)
     \/ cpc' = "commit" /\ UNCHANGED verdict
  /\ KeepCaller /\ KeepWatcher /\ UNCHANGED goal

EmptyCommit ==
  /\ cpc = "commit"
  /\ \/ cpc' = "done" /\ UNCHANGED <<local, goal, foggy>>
     \/ /\ cpc' = "push" /\ local' = "trigger"
        /\ \/ goal' = local' /\ UNCHANGED foggy
           \/ goal' = AnyCommit /\ foggy' = TRUE
  /\ UNCHANGED <<hubVars, known, triggered, verdict>> /\ KeepWatcher

\* The branch is replaced only if it is where this clone last saw it.
Lands == remote' = local /\ known' = local

\* A push whose answer is lost has landed and counts as failed.
PushTrigger ==
  /\ cpc = "push"
  /\ \/ /\ remote = known /\ Lands /\ UNCHANGED foggy
        /\ cpc' = "lookback" /\ triggered' = TRUE /\ time' = Patience /\ polled' = FALSE
     \/ /\ cpc' = "reset" /\ UNCHANGED <<triggered, time, polled>>
        /\ \/ UNCHANGED <<remote, known, foggy>>
           \/ remote = known /\ remote' = local /\ foggy' = TRUE /\ UNCHANGED known
  /\ UNCHANGED <<runs, local, goal, found, looked, verdict>>

ResetTrigger ==
  /\ cpc = "reset" /\ cpc' = "done"
  /\ \/ local' = "head" /\ UNCHANGED foggy
     \/ foggy' = TRUE /\ UNCHANGED local
  /\ UNCHANGED <<hubVars, known, goal, triggered, verdict>> /\ KeepWatcher

CIWait ==
  \/ CIBegin \/ RequestFails \/ Lookback \/ PollActive \/ NoRuns \/ Recheck \/ PollSleep
  \/ Follow \/ FollowTimeUp
CITool ==
  Answered \/ ViewPR \/ EmptyCommit \/ PushTrigger \/ ResetTrigger

CINext == Hub \/ CIWait \/ CITool

CISpec == CIInit /\ [][CINext]_ciVars

----------------------------------------------------------------------------
CIDone == cpc \in {"ended", "done"}

\* A run's conclusion is reported for the commit the caller has, also after the
\* trigger moved it: unless git did not tell the commit.
VerdictOfHead == CIDone /\ verdict.run # NoRun /\ ~foggy => runs[verdict.run].sha = local

\* "No runs" is not said of a commit whose run was the newest at the last look,
\* whether it was still active, had completed, or completed between the looks.
NoRunsIsTrue ==
  cpc = "ended" /\ verdict.conclusion = "no_runs" /\ looked > 0
    /\ Len(runs) - looked < Page
  => runs[looked].stale \/ goal \notin {AnyCommit, runs[looked].sha}

\* A trigger that failed leaves the clone and the branch as they were.
FailedTriggerUndone ==
  cpc = "done" /\ ~triggered /\ ~foggy => local = "head" /\ remote # "trigger"

\* The answer is true of the commit waited for, and a trigger that failed is undone.
CIVerdictTrue == CITypeOK /\ VerdictOfHead /\ NoRunsIsTrue /\ FailedTriggerUndone

\* DefaultCIWatcher.wait: "Never raises" (ci.py:282).
WaitNeverRaises == verdict.conclusion # "raised"
=============================================================================
