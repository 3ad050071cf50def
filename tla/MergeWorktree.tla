--------------------------- MODULE MergeWorktree ---------------------------
(***************************************************************************)
(* merge_worktree: every call carries one worktree's branch into the base  *)
(* branch of the main checkout, through a chain of git commands any of     *)
(* which may fail, or time out with or without its effect.  Calls for      *)
(* several worktrees share the main checkout and the remote-tracking refs, *)
(* and agents and people use both while the calls run.                     *)
(***************************************************************************)
EXTENDS Integers

CONSTANTS Worktrees,  \* worktrees whose branches are to be merged
          Gates,      \* values of safety.test_gate_on_merge to play
          MaxTouches  \* bound: calls repeated and moves of the agents and people

Nobody == "nobody"

ASSUME MergeAssumption ==
  Gates \subseteq BOOLEAN /\ MaxTouches \in Nat /\ Nobody \notin Worktrees

VARIABLES gate,      \* config.safety.test_gate_on_merge
          wt,        \* worktree -> its directory and branch
          main,      \* the main checkout
          remote,    \* commits of the base branch on the remote
          tracking,  \* refs/remotes/<remote>/<base>, of every worktree
          call,      \* worktree -> the call that merges it
          touches    \* bound: moves left

mergeVars == <<gate, wt, main, remote, tracking, call, touches>>

Upstream == "upstream"
Commits == (Worktrees \X {1, 2}) \union {<<Upstream, 1>>}
Unpublished == {<<"unpublished", 0>>}   \* no remote-tracking ref

Steps == {"begin", "strip", "status", "test", "fetch", "preflight", "rebase",
          "abort_rebase", "retest", "verify", "main_status", "merge", "abort_merge",
          "guard", "remove", "branch", "idle"}
MergeState == {"none", "WORKTREE_INTACT", "WORKTREE_INTACT_REBASE_ABORTED",
               "WORKTREE_INTACT_BASE_NOT_PUBLISHED",
               "WORKTREE_INTACT_MERGE_COMMITS_DETECTED", "WORKTREE_DIRTY",
               "WORKTREE_DIRTY_ABORT_FAILED", "WORKTREE_DIRTY_MID_OPERATION",
               "MAIN_REPO_MERGE_ABORTED", "MAIN_REPO_DIRTY_ABORT_FAILED",
               "MERGE_SUCCEEDED_CLEANUP_BLOCKED", "MERGE_SUCCEEDED"}

MergeTypeOK ==
  /\ gate \in Gates /\ touches \in 0..MaxTouches
  /\ wt \in [Worktrees -> [exists : BOOLEAN, branched : BOOLEAN, dirty : BOOLEAN,
                           work : SUBSET Commits, basis : SUBSET Commits,
                           rebase : {"none", "detached", "switched"},
                           generated : {"none", "tracked", "staged"}, mergy : BOOLEAN]]
  /\ main \in [log : SUBSET Commits, stray : SUBSET Commits, onBase : BOOLEAN,
               dirty : BOOLEAN, merging : Worktrees \union {Nobody}, told : BOOLEAN,
               crossed : BOOLEAN]
  /\ remote \in SUBSET Commits /\ tracking \in (SUBSET Commits) \union {Unpublished}
  /\ call \in [Worktrees -> [pc : Steps, state : MergeState,
                             step : {"none", "PATH_VALIDATION", "PROTECTED_BRANCH",
                                     "BRANCH_DETECTION", "other"},
                             tested : SUBSET Commits, late : SUBSET Commits,
                             merged : SUBSET Commits, strayed : BOOLEAN]]

MergeInit ==
  /\ gate \in Gates /\ touches = MaxTouches
  /\ wt = [w \in Worktrees |-> [exists |-> TRUE, branched |-> TRUE, dirty |-> FALSE,
             work |-> {<<w, 1>>}, basis |-> {}, rebase |-> "none", generated |-> "none",
             mergy |-> FALSE]]
  /\ main = [log |-> {}, stray |-> {}, onBase |-> TRUE, dirty |-> FALSE,
             merging |-> Nobody, told |-> FALSE, crossed |-> FALSE]
  /\ remote = {} /\ tracking \in {{}, Unpublished}
  /\ call = [w \in Worktrees |-> [pc |-> "idle", state |-> "none",
               step |-> "none", tested |-> {}, late |-> {}, merged |-> {},
               strayed |-> FALSE]]

----------------------------------------------------------------------------
(* Agents and people: the worktree, the main checkout and the remote.       *)

Edit(w) == wt[w].exists /\ wt' = [wt EXCEPT ![w].dirty = TRUE] /\ UNCHANGED <<main, remote, call>>

\* A second commit, which may hold a generated file or be a merge.
Commit(w, g, m) ==
  /\ wt[w].exists /\ wt[w].branched /\ wt[w].rebase = "none" /\ <<w, 2>> \notin wt[w].work
  /\ wt' = [wt EXCEPT ![w].dirty = FALSE, ![w].work = @ \union {<<w, 2>>},
                      ![w].mergy = m, ![w].generated = IF g THEN "tracked" ELSE @]
  /\ call' = [call EXCEPT ![w].late = @ \union {<<w, 2>>}]
  /\ UNCHANGED <<main, remote>>

\* Checking the branch out leaves the rebase's state files behind.
SwitchBack(w) ==
  /\ wt[w].exists /\ wt[w].rebase = "detached"
  /\ wt' = [wt EXCEPT ![w].rebase = "switched"] /\ UNCHANGED <<main, remote, call>>

CleanUp(w) ==
  /\ wt[w].exists /\ wt[w].rebase # "none" /\ call[w].pc = "idle"
  /\ wt' = [wt EXCEPT ![w].rebase = "none"] /\ UNCHANGED <<main, remote, call>>

Verified == {"main_status", "merge"}

UseMain ==
  /\ main.merging = Nobody
  /\ \/ main' = [main EXCEPT !.dirty = ~@] /\ UNCHANGED call
     \/ /\ main' = [main EXCEPT !.onBase = ~@]
        /\ call' = [w \in Worktrees |-> IF call[w].pc \in Verified
                                        THEN [call[w] EXCEPT !.strayed = TRUE] ELSE call[w]]
  /\ UNCHANGED <<wt, remote>>

Publish ==
  /\ \/ remote' = remote \union main.log
     \/ remote' = remote \union {<<Upstream, 1>>}
  /\ UNCHANGED <<wt, main, call>>

Touch ==
  /\ touches > 0 /\ touches' = touches - 1
  /\ \/ \E w \in Worktrees :
          \/ Edit(w) \/ SwitchBack(w) \/ CleanUp(w)
          \/ \E g, m \in BOOLEAN : Commit(w, g, m)
     \/ UseMain \/ Publish
  /\ UNCHANGED <<gate, tracking>>

----------------------------------------------------------------------------
(* perform_merge.                                                           *)

At(w, p) == call[w].pc = p
Goto(w, p) == call' = [call EXCEPT ![w].pc = p]
Answer(w, state) == call' = [call EXCEPT ![w].pc = "idle", ![w].step = "other", ![w].state = state]
Refuse(w, step) ==
  call' = [call EXCEPT ![w].pc = "idle", ![w].step = step, ![w].state = "WORKTREE_INTACT"]
Shared == <<main, remote, tracking>>   \* what a step inside the worktree leaves alone

MergeWorktree(w) ==
  /\ At(w, "idle") /\ call[w].state # "MERGE_SUCCEEDED"
  /\ \/ call[w].state = "none" /\ UNCHANGED touches
     \/ call[w].state # "none" /\ touches > 0 /\ touches' = touches - 1
  /\ call' = [call EXCEPT ![w] =
                [pc |-> "begin", state |-> "none", step |-> "none", tested |-> {},
                 late |-> {}, merged |-> {}, strayed |-> FALSE]]
  /\ UNCHANGED <<wt, Shared>>

\* The path, the base branch, the branch and a rebase left by an earlier attempt,
\* in that order: inside a rebase HEAD is detached, so the branch is missing first.
Begin(w) ==
  /\ At(w, "begin")
  /\ \/ Refuse(w, "PATH_VALIDATION")   \* rev-parse fails
     \/ wt[w].exists /\ Refuse(w, "PROTECTED_BRANCH")
     \/ wt[w].exists /\ wt[w].rebase = "detached" /\ Refuse(w, "BRANCH_DETECTION")
     \/ wt[w].exists /\ wt[w].rebase = "switched" /\ Answer(w, "WORKTREE_DIRTY_MID_OPERATION")
     \/ wt[w].exists /\ wt[w].rebase = "none" /\ Goto(w, "strip")
  /\ UNCHANGED <<wt, Shared>>

StripGenerated(w) ==
  /\ At(w, "strip")
  /\ \/ wt[w].generated # "tracked" /\ Goto(w, "status") /\ UNCHANGED wt
     \/ wt[w].generated = "tracked" /\ Goto(w, "status")
        /\ wt' = [wt EXCEPT ![w].generated = "none"]
     \/ wt[w].generated = "tracked" /\ Answer(w, "WORKTREE_INTACT")   \* rm or commit fails
        /\ wt' \in {wt, [wt EXCEPT ![w].generated = "staged"]}
  /\ UNCHANGED Shared

\* A status that fails passes for a clean tree.
DirtyCheck(w) ==
  /\ At(w, "status")
  /\ \/ (wt[w].dirty \/ wt[w].generated = "staged") /\ Answer(w, "WORKTREE_DIRTY")
     \/ Goto(w, IF gate THEN "test" ELSE "fetch")
  /\ UNCHANGED <<wt, Shared>>

\* The tester passes or fails what it finds in the worktree.
TestGate(w, at, next) ==
  /\ At(w, at)
  /\ \/ Answer(w, "WORKTREE_INTACT")
     \/ call' = [call EXCEPT ![w].pc = next, ![w].tested = wt[w].work \union wt[w].basis,
                             ![w].late = {}]
  /\ UNCHANGED <<wt, Shared>>

Fetch(w) ==
  /\ At(w, "fetch")
  /\ \/ Answer(w, "WORKTREE_INTACT") /\ UNCHANGED tracking
     \/ Goto(w, "preflight") /\ tracking' \in {remote} \union ({Unpublished} \intersect {tracking})
  /\ UNCHANGED <<wt, main, remote>>

Preflight(w) ==
  /\ At(w, "preflight")
  /\ \/ Answer(w, "WORKTREE_INTACT_BASE_NOT_PUBLISHED")   \* no ref, or rev-parse fails
     \/ /\ tracking # Unpublished
        /\ \/ wt[w].mergy /\ Answer(w, "WORKTREE_INTACT_MERGE_COMMITS_DETECTED")
           \/ Goto(w, "rebase")                           \* none, or git log fails
  /\ UNCHANGED <<wt, Shared>>

\* Mutant: the rebased branch is not tested again.
RebaseUntested(w) ==
  /\ At(w, "rebase")
  /\ LET done == [wt EXCEPT ![w].basis = tracking, ![w].mergy = FALSE]
     IN \/ ~wt[w].mergy /\ wt' = done /\ Goto(w, "verify")
        \/ /\ wt' \in {wt, done, [wt EXCEPT ![w].rebase = "detached"]}
           /\ Goto(w, "abort_rebase")
  /\ UNCHANGED Shared

\* A rebase that reports failure stopped half-way, never started, or was done.
Rebase(w) ==
  /\ At(w, "rebase")
  /\ LET done == [wt EXCEPT ![w].basis = tracking, ![w].mergy = FALSE]
     IN \/ ~wt[w].mergy /\ wt' = done /\ Goto(w, IF gate THEN "retest" ELSE "verify")
        \/ /\ wt' \in {wt, done, [wt EXCEPT ![w].rebase = "detached"]}
           /\ Goto(w, "abort_rebase")
  /\ UNCHANGED Shared

AbortRebase(w) ==
  /\ At(w, "abort_rebase")
  /\ \/ wt[w].rebase # "none" /\ Answer(w, "WORKTREE_INTACT_REBASE_ABORTED")
        /\ wt' = [wt EXCEPT ![w].rebase = "none"]
     \/ Answer(w, "WORKTREE_DIRTY_ABORT_FAILED") /\ UNCHANGED wt
  /\ UNCHANGED Shared

VerifyMergeTarget(w) ==
  /\ At(w, "verify")
  /\ \/ Answer(w, "WORKTREE_INTACT")   \* another branch, or a command fails
     \/ main.onBase /\ Goto(w, "main_status")
  /\ UNCHANGED <<wt, Shared>>

MainStatus(w) ==
  /\ At(w, "main_status")
  /\ \/ (main.dirty \/ main.merging # Nobody) /\ Answer(w, "WORKTREE_INTACT")
     \/ Goto(w, "merge")   \* clean, or status fails
  /\ UNCHANGED <<wt, Shared>>

Landed(w) ==
  IF main.onBase THEN [main EXCEPT !.log = @ \union wt[w].work \union wt[w].basis]
                 ELSE [main EXCEPT !.stray = @ \union wt[w].work \union wt[w].basis]

\* A merge that reports failure conflicted, was refused, or was committed.
Merge(w) ==
  /\ At(w, "merge")
  /\ LET mine == wt[w].work \union wt[w].basis
         committed == main' = Landed(w) /\ main.merging = Nobody
     IN \/ committed /\ call' = [call EXCEPT ![w].pc = "guard", ![w].merged = mine]
        \/ committed /\ call' = [call EXCEPT ![w].pc = "abort_merge", ![w].merged = mine]
        \/ /\ Goto(w, "abort_merge")
           /\ main' \in {main, [main EXCEPT !.merging = IF @ = Nobody THEN w ELSE @]}
  /\ UNCHANGED <<wt, remote, tracking>>

\* git merge --abort ends whatever merge the main checkout is in.
AbortMerge(w) ==
  /\ At(w, "abort_merge")
  /\ \/ /\ main.merging # Nobody /\ Answer(w, "MAIN_REPO_MERGE_ABORTED")
        /\ main' = [main EXCEPT !.merging = Nobody,
                                !.crossed = @ \/ main.merging # w]
     \/ Answer(w, "MAIN_REPO_DIRTY_ABORT_FAILED") /\ main' = [main EXCEPT !.told = TRUE]
  /\ UNCHANGED <<wt, remote, tracking>>

EditableGuard(w) ==
  /\ At(w, "guard")
  /\ Answer(w, "MERGE_SUCCEEDED_CLEANUP_BLOCKED") \/ Goto(w, "remove")
  /\ UNCHANGED <<wt, Shared>>

\* worktree remove --force, or the directory's deletion; both may fail.
RemoveWorktree(w) ==
  /\ At(w, "remove") /\ Goto(w, "branch")
  /\ wt' \in {wt, [wt EXCEPT ![w].exists = FALSE, ![w].dirty = FALSE, ![w].generated = "none"]}
  /\ UNCHANGED Shared

\* git refuses to delete a branch some worktree has checked out.
DeleteBranch(w) ==
  /\ At(w, "branch") /\ Answer(w, "MERGE_SUCCEEDED")
  /\ \/ UNCHANGED wt
     \/ ~wt[w].exists /\ wt' = [wt EXCEPT ![w].branched = FALSE]
  /\ UNCHANGED Shared

MergeStep(w) ==
  /\ \/ Begin(w) \/ StripGenerated(w) \/ DirtyCheck(w)
     \/ TestGate(w, "test", "fetch") \/ Fetch(w) \/ Preflight(w) \/ Rebase(w)
     \/ AbortRebase(w) \/ TestGate(w, "retest", "verify") \/ VerifyMergeTarget(w)
     \/ MainStatus(w) \/ Merge(w) \/ AbortMerge(w) \/ EditableGuard(w)
     \/ RemoveWorktree(w) \/ DeleteBranch(w)
  /\ UNCHANGED <<gate, touches>>

MergeNext ==
  \/ Touch
  \/ \E w \in Worktrees : MergeStep(w) \/ (MergeWorktree(w) /\ UNCHANGED gate)

MergeSpec == MergeInit /\ [][MergeNext]_mergeVars

----------------------------------------------------------------------------

\* No commit is lost with its branch: when a branch has been deleted, all it
\* held is in the main checkout, but what was committed since it was tested or
\* merged (worktree remove --force and branch -D ask nobody).
NoWorkLost ==
  \A w \in Worktrees :
    ~wt[w].branched => wt[w].work \subseteq main.log \union main.stray \union call[w].late

\* With the gate on, everything a merge brought in had passed the tests as it
\* stood, rebased, in this very call; only a commit made during the call escapes.
MergedWasTested ==
  gate => \A w \in Worktrees : call[w].merged \subseteq call[w].tested \union call[w].late

\* A call that reports success put the branch into the base branch, unless the
\* main checkout changed branch between the check and the merge.
IntoBaseBranch ==
  \A w \in Worktrees :
    call[w].state \in {"MERGE_SUCCEEDED", "MERGE_SUCCEEDED_CLEANUP_BLOCKED"} =>
      /\ call[w].merged # {}
      /\ call[w].merged \subseteq main.log \union (IF call[w].strayed THEN main.stray ELSE {})

\* The main checkout is never left inside a merge that no answer told of.
MainNotAbandoned ==
  main.merging # Nobody => main.told \/ call[main.merging].pc = "abort_merge"

\* The state of an answer is the state of the world: an intact worktree has its
\* branch and no rebase (three answers say intact before they looked), an
\* aborted merge merged nothing unless it was another call's that was aborted.
StateIsTrue ==
  \A w \in Worktrees : At(w, "idle") =>
    /\ /\ call[w].state \in {"WORKTREE_INTACT", "WORKTREE_INTACT_REBASE_ABORTED",
                             "WORKTREE_INTACT_BASE_NOT_PUBLISHED", "WORKTREE_DIRTY",
                             "WORKTREE_INTACT_MERGE_COMMITS_DETECTED"}
       /\ call[w].step = "other"
       => wt[w].exists /\ wt[w].branched /\ wt[w].rebase = "none" /\ call[w].merged = {}
    /\ call[w].state = "MAIN_REPO_MERGE_ABORTED" /\ ~main.crossed =>
         wt[w].exists /\ call[w].merged = {}
    /\ call[w].state = "MERGE_SUCCEEDED_CLEANUP_BLOCKED" => wt[w].exists /\ wt[w].branched

\* What merge_worktree may never do to the repository or say of it.
MergeSafe ==
  /\ MergeTypeOK /\ NoWorkLost /\ MergedWasTested /\ IntoBaseBranch
  /\ MainNotAbandoned /\ StateIsTrue
=============================================================================
