----------------------------- MODULE QueueTrain -----------------------------
(***************************************************************************)
(* The queue mode of the merge-prs recipe: pull requests enter the merge   *)
(* queue one at a time, in the order of a file; one that is ejected is     *)
(* rebased, pushed, tested and entered again; the next one is rebased      *)
(* before its turn.  Counters kept in files and captures bound the loops.  *)
(* GitHub and the authors of the pull requests act between the steps.      *)
(*                                                                         *)
(* A branch is what its head was last rebased on (a version of the base)   *)
(* and how many commits its author has added.                              *)
(***************************************************************************)
EXTENDS Naturals

CONSTANTS
  Train,       \* how many pull requests the order file has
  MaxEjects,   \* max_ejects of check_eject_limit
  MaxDrops,    \* max_drops of check_dropped_healthy_loop
  MaxReenrolls, \* max_iterations of check_queue_stall_loop
  MaxWaits,    \* max_iterations of check_ci_post_queue_loop
  MaxOutside   \* what authors and other merges may do

ASSUME TrainAssumption ==
  /\ Train \in Nat \ {0} /\ MaxOutside \in Nat
  /\ {MaxEjects, MaxDrops, MaxReenrolls, MaxWaits} \subseteq Nat \ {0}

VARIABLES
  station,     \* the step of the recipe that is called next
  car,         \* context.current_pr_number
  prs,         \* where each pull request stands, and the head GitHub has
  baseAt,      \* the version of the base branch
  tracking,    \* the version the clone's remote ref of the base shows, 0 for none
  clonedHead,  \* the clone's branch of each pull request
  seenHead,    \* the head its remote ref shows
  fixTested,   \* CI has passed on the fix pushed last, if any was
  counted,     \* the counters, kept in files and captures
  outside,     \* steps of authors and other merges so far
  reused, lost \* branches worked on as the clone had them; commits pushed over

trainVars == <<station, car, prs, baseAt, tracking, clonedHead, seenHead, fixTested, counted,
               outside, reused, lost>>

Cars == 1..Train
NoBranch == [on |-> 0, edits |-> 0]
Terminus == {"failed", "landed"}
Stations ==
  {"enqueue_current_pr", "wait_queue_pr", "reenter_queue", "reenroll_stalled_queue_pr",
   "check_queue_stall_loop", "advance_queue_pr", "diagnose_queue_ci", "check_eject_limit",
   "check_dropped_healthy_loop", "wait_dequeue_retry", "push_ejected_fix", "attempt_cheap_rebase",
   "resolve_ejected_conflicts", "check_ci_post_queue_loop", "ci_watch_post_queue_fix",
   "proactive_rebase_next_pr", "push_rebased_next_pr", "resolve_proactive_rebase_conflicts"}
    \union Terminus

TrainInit ==
  /\ station = "enqueue_current_pr" /\ car = 1 /\ baseAt = 1 /\ tracking \in {0, 1}
  /\ prs = [p \in Cars |-> [is |-> "open", head |-> [on |-> 1, edits |-> 0]]]
  /\ clonedHead = [p \in Cars |-> NoBranch] /\ seenHead = [p \in Cars |-> NoBranch]
  /\ fixTested = [p \in Cars |-> TRUE]
  /\ counted = [eject |-> 0, drop |-> 0, stall |-> 0, ci |-> 0] /\ outside = 0
  /\ reused = {} /\ lost = {}

Goto(step) == station' = step
clone == <<tracking, clonedHead, seenHead, fixTested, reused, lost>>
github == <<prs, baseAt, outside>>

----------------------------------------------------------------------------
(* GitHub, authors and other merges.                                       *)

QueueMerges(p) ==
  /\ prs[p].is = "queued" /\ prs' = [prs EXCEPT ![p].is = "merged"] /\ baseAt' = baseAt + 1
  /\ UNCHANGED <<station, car, counted, outside, clone>>

QueueEjects(p) ==
  /\ prs[p].is = "queued" /\ prs' = [prs EXCEPT ![p].is = "open"]
  /\ UNCHANGED <<station, car, baseAt, counted, outside, clone>>

AuthorPushes(p) ==
  /\ prs[p].is = "open" /\ outside < MaxOutside /\ outside' = outside + 1
  /\ prs' = [prs EXCEPT ![p].head.edits = @ + 1]
  /\ UNCHANGED <<station, car, baseAt, counted, clone>>

OtherMerges ==
  /\ outside < MaxOutside /\ outside' = outside + 1 /\ baseAt' = baseAt + 1
  /\ UNCHANGED <<station, car, prs, counted, clone>>

Requeued(p) ==
  /\ prs[p].is = "open" /\ p = car /\ outside < MaxOutside /\ outside' = outside + 1
  /\ prs' = [prs EXCEPT ![p].is = "queued"]
  /\ UNCHANGED <<station, car, baseAt, counted, clone>>

World == (\E p \in Cars : QueueMerges(p) \/ QueueEjects(p) \/ AuthorPushes(p) \/ Requeued(p)) \/ OtherMerges

----------------------------------------------------------------------------
(* Entering the queue and waiting.                                         *)

\* enqueue_pr fails on a pull request that is no longer open, and when GitHub does.
enqueue_pr(step, next) ==
  /\ station = step
  /\ \/ /\ prs[car].is # "merged" /\ Goto(next)
        /\ prs' = [prs EXCEPT ![car].is = "queued"]
     \/ Goto("failed") /\ UNCHANGED prs
  /\ UNCHANGED <<car, baseAt, counted, outside, clone>>

EnqueueCurrent == enqueue_pr("enqueue_current_pr", "wait_queue_pr")
ReenterQueue == enqueue_pr("reenter_queue", "wait_queue_pr")
ReenrollStalled == enqueue_pr("reenroll_stalled_queue_pr", "check_queue_stall_loop")

\* What wait_for_merge_queue may say of a pull request.
Verdicts(p) ==
  CASE prs[p].is = "merged" -> {"merged"}
    [] prs[p].is = "queued" -> {"stalled", "timeout", "error"}
    [] OTHER -> {"ejected", "ejected_ci_failure", "dropped_healthy", "dropped_merge_group_ci",
                 "not_enrolled", "timeout", "error"}

WaitRoute(verdict) ==
  CASE verdict = "merged" -> "advance_queue_pr"
    [] verdict \in {"ejected_ci_failure", "dropped_merge_group_ci"} -> "diagnose_queue_ci"
    [] verdict = "ejected" -> "check_eject_limit"
    [] verdict = "stalled" -> "reenroll_stalled_queue_pr"
    [] verdict = "dropped_healthy" -> "check_dropped_healthy_loop"
    [] OTHER -> "failed"

WaitQueue ==
  /\ station = "wait_queue_pr" /\ \E v \in Verdicts(car) : Goto(WaitRoute(v))
  /\ UNCHANGED <<car, counted, github, clone>>

\* Best-effort diagnosis; both routes end the train.
DiagnoseQueueCI ==
  /\ station = "diagnose_queue_ci" /\ Goto("failed") /\ UNCHANGED <<car, counted, github, clone>>

WaitDequeue ==
  /\ station = "wait_dequeue_retry"
  /\ \E v \in Verdicts(car) :
       Goto(CASE v = "merged" -> "advance_queue_pr" [] v = "ejected" -> "push_ejected_fix" [] OTHER -> "failed")
  /\ UNCHANGED <<car, counted, github, clone>>

----------------------------------------------------------------------------
(* The guards of the loops.                                                *)

\* The counter is incremented in its file; up to the maximum is allowed.
Counted(key, max) == counted' = [counted EXCEPT ![key] = @ + 1] /\ counted[key] + 1 <= max
Exceeded(key, max) == counted' = [counted EXCEPT ![key] = @ + 1] /\ counted[key] + 1 > max

CheckEjectLimit ==
  /\ station = "check_eject_limit"
  /\ \/ Counted("eject", MaxEjects) /\ Goto("attempt_cheap_rebase")
     \/ Counted("eject", MaxEjects) /\ Goto("failed")    \* get_ejected_pr_branch fails
     \/ Exceeded("eject", MaxEjects) /\ Goto("failed")
  /\ UNCHANGED <<car, github, clone>>

CheckDroppedHealthyLoop ==
  /\ station = "check_dropped_healthy_loop"
  /\ \/ Counted("drop", MaxDrops) /\ Goto("reenter_queue")
     \/ Exceeded("drop", MaxDrops) /\ Goto("failed")
  /\ UNCHANGED <<car, github, clone>>

\* check_loop_iteration: the iteration that reaches the maximum is refused.
check_loop_iteration(key, max, next) ==
  /\ counted' = [counted EXCEPT ![key] = @ + 1]
  /\ Goto(IF counted[key] + 1 >= max THEN "failed" ELSE next)
  /\ UNCHANGED <<car, github, clone>>

CheckStallLoop == station = "check_queue_stall_loop" /\ check_loop_iteration("stall", MaxReenrolls, "wait_queue_pr")
CheckCILoop == station = "check_ci_post_queue_loop" /\ check_loop_iteration("ci", MaxWaits, "ci_watch_post_queue_fix")

----------------------------------------------------------------------------
(* Rebasing.                                                               *)

\* The base a rebase lands on is the clone's remote ref: it conflicts when there is
\* none, and may when the branch is behind it.
RebaseClean(branch) == tracking > 0
Rebased(branch) == [branch EXCEPT !.on = IF @ > tracking THEN @ ELSE tracking]
MayConflict(branch) == branch.on < tracking \/ tracking = 0

\* fetch the branch; check it out, as the clone has it when it does; rebase.
attempt_cheap_rebase ==
  /\ station = "attempt_cheap_rebase"
  /\ LET head == IF clonedHead[car] # NoBranch THEN clonedHead[car] ELSE prs[car].head
     IN \/ /\ seenHead' = [seenHead EXCEPT ![car] = prs[car].head]
           /\ reused' = IF clonedHead[car] # NoBranch THEN reused \union {car} ELSE reused
           /\ \/ /\ RebaseClean(head) /\ Goto("push_ejected_fix")
                 /\ clonedHead' = [clonedHead EXCEPT ![car] = Rebased(head)]
              \/ /\ MayConflict(head) /\ Goto("resolve_ejected_conflicts")
                 /\ clonedHead' = [clonedHead EXCEPT ![car] = head]
        \/ Goto("resolve_ejected_conflicts") /\ UNCHANGED <<seenHead, reused, clonedHead>>   \* git fails
  /\ UNCHANGED <<car, counted, github, tracking, fixTested, lost>>

\* checkout -B: the branch is what GitHub has.
CheckedOutAfresh(p) == prs[p].head

proactive_rebase_next_pr ==
  /\ station = "proactive_rebase_next_pr"
  /\ \/ /\ seenHead' = [seenHead EXCEPT ![car] = prs[car].head]
        /\ \/ /\ RebaseClean(CheckedOutAfresh(car)) /\ Goto("push_rebased_next_pr")
              /\ clonedHead' = [clonedHead EXCEPT ![car] = Rebased(CheckedOutAfresh(car))]
           \/ /\ MayConflict(CheckedOutAfresh(car)) /\ Goto("resolve_proactive_rebase_conflicts")
              /\ clonedHead' = [clonedHead EXCEPT ![car] = CheckedOutAfresh(car)]
     \/ Goto("enqueue_current_pr") /\ UNCHANGED <<seenHead, clonedHead>>
  /\ UNCHANGED <<car, counted, github, tracking, fixTested, reused, lost>>

\* The skill fetches everything and rebases, or escalates; a session may fail.
ResolveConflicts(step, pushes, gives_up) ==
  /\ station = step
  /\ \/ /\ tracking' = baseAt /\ seenHead' = [p \in Cars |-> prs[p].head] /\ Goto(pushes)
        /\ clonedHead' = [clonedHead EXCEPT ![car] =
             [on |-> baseAt, edits |-> IF @ = NoBranch THEN prs[car].head.edits ELSE @.edits]]
        /\ reused' = IF clonedHead[car] # NoBranch THEN reused \union {car} ELSE reused
     \/ /\ tracking' \in {tracking, baseAt} /\ Goto(gives_up) /\ UNCHANGED <<seenHead, clonedHead, reused>>
     \/ Goto("failed") /\ UNCHANGED <<tracking, seenHead, clonedHead, reused>>
  /\ UNCHANGED <<car, counted, github, fixTested, lost>>

ResolveEjected == ResolveConflicts("resolve_ejected_conflicts", "push_ejected_fix", "failed")
ResolveProactive ==
  ResolveConflicts("resolve_proactive_rebase_conflicts", "push_rebased_next_pr", "enqueue_current_pr")

\* push --force-with-lease: refused when GitHub's head is not the one last seen, and
\* while the branch is in the queue.
Pushes(next, refused) ==
  /\ \/ /\ prs[car].head = seenHead[car] /\ prs[car].is # "queued" /\ Goto(next)
        /\ prs' = [prs EXCEPT ![car].head = clonedHead[car]]
        /\ seenHead' = [seenHead EXCEPT ![car] = clonedHead[car]]
        /\ fixTested' = [fixTested EXCEPT ![car] = next # "ci_watch_post_queue_fix"]
        /\ lost' = IF clonedHead[car].edits < prs[car].head.edits THEN lost \union {car} ELSE lost
     \/ Goto(IF prs[car].is = "queued" THEN refused ELSE "failed") /\ UNCHANGED <<prs, seenHead, fixTested, lost>>
     \/ Goto("failed") /\ UNCHANGED <<prs, seenHead, fixTested, lost>>
  /\ UNCHANGED <<car, baseAt, counted, outside, tracking, clonedHead, reused>>

PushEjectedFix == station = "push_ejected_fix" /\ Pushes("ci_watch_post_queue_fix", "wait_dequeue_retry")
PushRebasedNext == station = "push_rebased_next_pr" /\ Pushes("enqueue_current_pr", "failed")

CIWatchFix ==
  /\ station = "ci_watch_post_queue_fix"
  /\ \/ Goto("reenter_queue") /\ fixTested' = [fixTested EXCEPT ![car] = TRUE]
     \/ Goto("check_ci_post_queue_loop") /\ UNCHANGED fixTested
     \/ Goto("failed") /\ UNCHANGED fixTested
  /\ UNCHANGED <<car, counted, github, tracking, clonedHead, seenHead, reused, lost>>

----------------------------------------------------------------------------
(* The next one.                                                           *)

\* Mutant: the index of the current entry is that of the next one.
AfterNext(p) == IF p + 2 <= Train THEN p + 2 ELSE 0

\* The entry after the current one in the order file, or done.
After(p) == IF p + 1 <= Train THEN p + 1 ELSE 0

advance_queue_pr ==
  /\ station = "advance_queue_pr"
  /\ \/ /\ After(car) = 0 /\ Goto("landed") /\ UNCHANGED car
     \/ /\ After(car) # 0 /\ car' = After(car)
        /\ Goto("proactive_rebase_next_pr") \/ Goto("enqueue_current_pr")   \* get_next_pr_branch may fail
     \/ Goto("failed") /\ UNCHANGED car
  /\ UNCHANGED <<counted, github, clone>>

Recipe ==
  \/ EnqueueCurrent \/ ReenterQueue \/ ReenrollStalled \/ WaitQueue \/ DiagnoseQueueCI \/ WaitDequeue
  \/ CheckEjectLimit \/ CheckDroppedHealthyLoop \/ CheckStallLoop \/ CheckCILoop
  \/ attempt_cheap_rebase \/ proactive_rebase_next_pr \/ ResolveEjected \/ ResolveProactive
  \/ PushEjectedFix \/ PushRebasedNext \/ CIWatchFix \/ advance_queue_pr

TrainNext == Recipe \/ World

\* The orchestrator follows the recipe; nothing is assumed of GitHub.
TrainSpec == TrainInit /\ [][TrainNext]_trainVars /\ WF_trainVars(Recipe)

----------------------------------------------------------------------------

Branches == [on : 0..baseAt, edits : 0..MaxOutside]
TrainTypeOK ==
  /\ station \in Stations /\ car \in Cars /\ baseAt \in 1..(1 + Train + MaxOutside) /\ tracking \in 0..baseAt
  /\ prs \in [Cars -> [is : {"open", "queued", "merged"}, head : Branches]]
  /\ clonedHead \in [Cars -> Branches] /\ seenHead \in [Cars -> Branches]

\* Nothing enters the queue before everything ahead of it in the order file has
\* merged, and the train ends with every pull request of the file merged.
OrderKept ==
  /\ \A p, q \in Cars : p < q /\ prs[q].is # "open" => prs[p].is = "merged"
  /\ station = "landed" => \A p \in Cars : prs[p].is = "merged"

\* A fix goes back into the queue only when CI has passed on what was pushed.
FixTested == station = "reenter_queue" => fixTested[car]

\* A commit its author pushed is pushed over only from a branch the clone had from
\* before, checked out again or resolved by a session that fetched everything:
\* checkout -B and the lease keep every other.
LostOnlyReused == lost \subseteq reused

TrainSafe == TrainTypeOK /\ OrderKept /\ FixTested /\ LostOnlyReused
=============================================================================
