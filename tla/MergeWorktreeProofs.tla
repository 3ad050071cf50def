------------------------ MODULE MergeWorktreeProofs ------------------------
(***************************************************************************)
(* Proof of MergeSafe for any worktrees, gates and number of moves.        *)
(***************************************************************************)
EXTENDS MergeWorktree, TLAPS

Unmerged == {"begin", "strip", "status", "test", "fetch", "preflight", "rebase",
             "abort_rebase", "retest", "verify", "main_status", "merge"}
Unrebased == {"strip", "status", "test", "fetch", "preflight", "rebase", "retest",
              "verify", "main_status"}
Landing == {"guard", "remove", "branch"}
Succeeded(w) == call[w].state \in {"MERGE_SUCCEEDED", "MERGE_SUCCEEDED_CLEANUP_BLOCKED"}

\* The worktree: it stands until its call cleans up, with its first commit, and
\* what its branch held when it was merged is in the main checkout.
TreeStands(w) ==
  /\ \/ wt[w].exists /\ wt[w].branched
     \/ At(w, "branch")
     \/ At(w, "idle") /\ call[w].state = "MERGE_SUCCEEDED"
  /\ <<w, 1>> \in wt[w].work
  /\ call[w].pc \in Landing \/ ~wt[w].branched =>
       wt[w].work \subseteq main.log \union main.stray \union call[w].late
  /\ call[w].pc \in Unrebased => wt[w].rebase = "none"

\* The call: what it merged was tested as it stood and is where it says, and the
\* merge it left the main checkout in merged nothing.
CallOrderly(w) ==
  /\ ~At(w, "idle") => call[w].state = "none"
  /\ At(w, "rebase") => tracking # Unpublished
  /\ call[w].pc \in Unmerged => call[w].merged = {}
  /\ gate /\ call[w].pc \in Verified \union {"verify"} =>
       wt[w].work \union wt[w].basis \subseteq call[w].tested \union call[w].late
  /\ gate => call[w].merged \subseteq call[w].tested \union call[w].late
  /\ call[w].pc \in Verified /\ ~call[w].strayed => main.onBase
  /\ call[w].pc \in Landing \/ Succeeded(w) =>
       /\ call[w].merged # {}
       /\ call[w].merged \subseteq main.log \union (IF call[w].strayed THEN main.stray ELSE {})
  /\ main.merging = w => call[w].merged = {} /\ (main.told \/ At(w, "abort_merge"))

\* The answer: the part of StateIsTrue about one worktree.
AnswerTrue(w) ==
  At(w, "idle") =>
    /\ /\ call[w].state \in {"WORKTREE_INTACT", "WORKTREE_INTACT_REBASE_ABORTED",
                             "WORKTREE_INTACT_BASE_NOT_PUBLISHED", "WORKTREE_DIRTY",
                             "WORKTREE_INTACT_MERGE_COMMITS_DETECTED"}
       /\ call[w].step = "other"
       => wt[w].exists /\ wt[w].branched /\ wt[w].rebase = "none" /\ call[w].merged = {}
    /\ call[w].state = "MAIN_REPO_MERGE_ABORTED" /\ ~main.crossed =>
         wt[w].exists /\ call[w].merged = {}
    /\ call[w].state = "MERGE_SUCCEEDED_CLEANUP_BLOCKED" => wt[w].exists /\ wt[w].branched

MergeInv ==
  /\ MergeTypeOK
  /\ \A w \in Worktrees : TreeStands(w) /\ CallOrderly(w) /\ AnswerTrue(w)

TreeRec == [exists : BOOLEAN, branched : BOOLEAN, dirty : BOOLEAN,
            work : SUBSET Commits, basis : SUBSET Commits,
            rebase : {"none", "detached", "switched"},
            generated : {"none", "tracked", "staged"}, mergy : BOOLEAN]
MainRec == [log : SUBSET Commits, stray : SUBSET Commits, onBase : BOOLEAN,
            dirty : BOOLEAN, merging : Worktrees \union {Nobody}, told : BOOLEAN,
            crossed : BOOLEAN]
CallRec == [pc : Steps, state : MergeState,
            step : {"none", "PATH_VALIDATION", "PROTECTED_BRANCH",
                    "BRANCH_DETECTION", "other"},
            tested : SUBSET Commits, late : SUBSET Commits,
            merged : SUBSET Commits, strayed : BOOLEAN]

LEMMA MergeTypes ==
  MergeTypeOK <=>
    /\ gate \in Gates /\ touches \in 0..MaxTouches
    /\ wt \in [Worktrees -> TreeRec] /\ main \in MainRec
    /\ remote \in SUBSET Commits /\ tracking \in (SUBSET Commits) \union {Unpublished}
    /\ call \in [Worktrees -> CallRec]
BY DEF MergeTypeOK, TreeRec, MainRec, CallRec

\* The invariant is MergeSafe and more.
LEMMA MergeInvSafe == MergeInv => MergeSafe
<1> SUFFICES ASSUME MergeInv PROVE MergeSafe
  OBVIOUS
<1> USE DEF MergeInv
<1>1. NoWorkLost
  BY DEF NoWorkLost, TreeStands
<1>2. MergedWasTested
  BY DEF MergedWasTested, CallOrderly
<1>3. IntoBaseBranch
  BY DEF IntoBaseBranch, CallOrderly, Succeeded
<1>4. MainNotAbandoned
  BY MergeTypes DEF MainNotAbandoned, CallOrderly, At, MainRec
<1>5. StateIsTrue
  BY DEF StateIsTrue, AnswerTrue
<1> QED BY <1>1, <1>2, <1>3, <1>4, <1>5 DEF MergeSafe

LEMMA MergeInitInv == MergeInit => MergeInv
<1> SUFFICES ASSUME MergeInit PROVE MergeInv
  OBVIOUS
<1>1. MergeTypeOK
  <2>1. /\ \A w \in Worktrees : wt[w] \in TreeRec /\ call[w] \in CallRec
        /\ wt = [w \in Worktrees |-> wt[w]] /\ call = [w \in Worktrees |-> call[w]]
    BY DEF MergeInit, TreeRec, CallRec, Commits, Steps, MergeState
  <2>2. wt \in [Worktrees -> TreeRec] /\ call \in [Worktrees -> CallRec]
    BY <2>1
  <2>3. main \in MainRec
    BY DEF MergeInit, MainRec
  <2> QED BY <2>2, <2>3, MergeTypes, MergeAssumption DEF MergeInit
<1>2. \A w \in Worktrees : TreeStands(w)
  BY DEF MergeInit, TreeStands, At, Landing, Unrebased
<1>3. \A w \in Worktrees : CallOrderly(w)
  BY MergeAssumption DEF MergeInit, CallOrderly, At, Unmerged, Landing, Verified, Succeeded
<1>4. \A w \in Worktrees : AnswerTrue(w)
  BY DEF MergeInit, AnswerTrue
<1> QED BY <1>1, <1>2, <1>3, <1>4 DEF MergeInv

-----------------------------------------------------------------------------
(* What a step of one call does not touch stays true of the others.         *)

Grows ==
  /\ main.log \subseteq main'.log /\ main.stray \subseteq main'.stray
  /\ main'.onBase = main.onBase
  /\ main.told => main'.told
  /\ main.crossed => main'.crossed
  /\ tracking # Unpublished => tracking' # Unpublished
  /\ gate' = gate

LEMMA OthersKeep ==
  ASSUME MergeInv, Grows, NEW v \in Worktrees, wt'[v] = wt[v], call'[v] = call[v],
         main'.merging = v => main.merging = v
  PROVE  TreeStands(v)' /\ CallOrderly(v)' /\ AnswerTrue(v)'
<1>1. TreeStands(v) /\ CallOrderly(v) /\ AnswerTrue(v)
  BY DEF MergeInv
<1>2. TreeStands(v)'
  BY <1>1 DEF TreeStands, At, Grows
<1>3. CallOrderly(v)'
  BY <1>1 DEF CallOrderly, At, Grows, Succeeded
<1>4. AnswerTrue(v)'
  BY <1>1 DEF AnswerTrue, At, Grows
<1> QED BY <1>2, <1>3, <1>4

LEMMA OneKeeps ==
  ASSUME MergeInv, Grows, NEW w \in Worktrees, NEW t \in TreeRec, NEW c \in CallRec,
         wt' = [wt EXCEPT ![w] = t], call' = [call EXCEPT ![w] = c],
         main' \in MainRec, main'.merging \in {main.merging, w, Nobody},
         remote' \in SUBSET Commits, tracking' \in (SUBSET Commits) \union {Unpublished},
         touches' \in 0..MaxTouches,
         TreeStands(w)', CallOrderly(w)', AnswerTrue(w)'
  PROVE  MergeInv'
<1>1. MergeTypeOK
  BY DEF MergeInv
<1>2. wt \in [Worktrees -> TreeRec] /\ call \in [Worktrees -> CallRec] /\ gate \in Gates
  BY <1>1, MergeTypes
<1>3. MergeTypeOK'
  BY <1>2, MergeTypes DEF MergeTypeOK, TreeRec, CallRec, MainRec, Grows
<1>4. ASSUME NEW v \in Worktrees PROVE TreeStands(v)' /\ CallOrderly(v)' /\ AnswerTrue(v)'
  <2>1. CASE v = w
    BY <2>1
  <2>2. CASE v # w
    <3>1. wt'[v] = wt[v] /\ call'[v] = call[v]
      BY <1>2, <2>2
    <3>2. main'.merging = v => main.merging = v
      BY <2>2, MergeAssumption
    <3> QED BY <3>1, <3>2, OthersKeep
  <2> QED BY <2>1, <2>2
<1> QED BY <1>3, <1>4 DEF MergeInv

LEMMA TreesKept ==
  ASSUME MergeTypeOK, NEW w \in Worktrees
  PROVE  /\ wt[w] \in TreeRec /\ call[w] \in CallRec
         /\ UNCHANGED wt => wt' = [wt EXCEPT ![w] = wt[w]]
         /\ UNCHANGED call => call' = [call EXCEPT ![w] = call[w]]
BY MergeTypes

-----------------------------------------------------------------------------
(* Agents and people.                                                       *)

\* A move inside a worktree that leaves its commits and the calls alone.
LEMMA TouchTreeKeeps ==
  ASSUME MergeInv, NEW w \in Worktrees, NEW t \in TreeRec,
         wt' = [wt EXCEPT ![w] = t], UNCHANGED <<gate, main, remote, tracking, call>>,
         touches' \in 0..MaxTouches,
         t.exists = wt[w].exists, t.branched = wt[w].branched, t.work = wt[w].work,
         t.basis = wt[w].basis, wt[w].rebase = "none" => t.rebase = "none"
  PROVE  MergeInv'
<1>1. MergeTypeOK /\ TreeStands(w) /\ CallOrderly(w) /\ AnswerTrue(w)
  BY DEF MergeInv
<1>2. wt'[w] = t /\ UNCHANGED call /\ UNCHANGED main
  BY <1>1, MergeTypes
<1>3. TreeStands(w)'
  BY <1>1, <1>2 DEF TreeStands, At
<1>4. CallOrderly(w)'
  BY <1>1, <1>2 DEF CallOrderly, At, Succeeded
<1>5. AnswerTrue(w)'
  BY <1>1, <1>2 DEF AnswerTrue, At
<1>6. Grows /\ main' \in MainRec /\ remote' \in SUBSET Commits
      /\ tracking' \in (SUBSET Commits) \union {Unpublished}
  BY <1>1, MergeTypes DEF Grows
<1>7. call[w] \in CallRec /\ call' = [call EXCEPT ![w] = call[w]]
  BY <1>1, TreesKept
<1> QED BY <1>3, <1>4, <1>5, <1>6, <1>7, OneKeeps

LEMMA EditKeeps ==
  ASSUME MergeInv, NEW w \in Worktrees, touches' \in 0..MaxTouches, UNCHANGED <<gate, tracking>>,
         Edit(w) \/ SwitchBack(w) \/ CleanUp(w)
  PROVE  MergeInv'
<1>1. wt[w] \in TreeRec
  BY TreesKept DEF MergeInv
<1>2. PICK t \in TreeRec : /\ wt' = [wt EXCEPT ![w] = t] /\ UNCHANGED <<main, remote, call>>
                           /\ t.exists = wt[w].exists /\ t.branched = wt[w].branched
                           /\ t.work = wt[w].work /\ t.basis = wt[w].basis
                           /\ wt[w].rebase = "none" => t.rebase = "none"
  <2>1. CASE Edit(w)
    <3> DEFINE t == [wt[w] EXCEPT !.dirty = TRUE]
    <3>1. t \in TreeRec /\ t.exists = wt[w].exists /\ t.branched = wt[w].branched
          /\ t.work = wt[w].work /\ t.basis = wt[w].basis /\ t.rebase = wt[w].rebase
      BY <1>1 DEF TreeRec
    <3>2. wt' = [wt EXCEPT ![w] = t] /\ UNCHANGED <<main, remote, call>>
      BY <2>1 DEF Edit
    <3> HIDE DEF t
    <3> QED BY <3>1, <3>2
  <2>2. CASE SwitchBack(w)
    <3> DEFINE t == [wt[w] EXCEPT !.rebase = "switched"]
    <3>1. t \in TreeRec /\ t.exists = wt[w].exists /\ t.branched = wt[w].branched
          /\ t.work = wt[w].work /\ t.basis = wt[w].basis
      BY <1>1 DEF TreeRec
    <3>2. wt' = [wt EXCEPT ![w] = t] /\ UNCHANGED <<main, remote, call>> /\ wt[w].rebase # "none"
      BY <2>2 DEF SwitchBack
    <3> HIDE DEF t
    <3> QED BY <3>1, <3>2
  <2>3. CASE CleanUp(w)
    <3> DEFINE t == [wt[w] EXCEPT !.rebase = "none"]
    <3>1. t \in TreeRec /\ t.exists = wt[w].exists /\ t.branched = wt[w].branched
          /\ t.work = wt[w].work /\ t.basis = wt[w].basis /\ t.rebase = "none"
      BY <1>1 DEF TreeRec
    <3>2. wt' = [wt EXCEPT ![w] = t] /\ UNCHANGED <<main, remote, call>>
      BY <2>3 DEF CleanUp
    <3> HIDE DEF t
    <3> QED BY <3>1, <3>2
  <2> QED BY <2>1, <2>2, <2>3
<1> QED BY <1>2, TouchTreeKeeps

LEMMA CommitKeeps ==
  ASSUME MergeInv, NEW w \in Worktrees, touches' \in 0..MaxTouches, UNCHANGED <<gate, tracking>>,
         NEW g \in BOOLEAN, NEW m \in BOOLEAN, Commit(w, g, m)
  PROVE  MergeInv'
<1> DEFINE t == [wt[w] EXCEPT !.dirty = FALSE, !.work = @ \union {<<w, 2>>}, !.mergy = m,
                              !.generated = IF g THEN "tracked" ELSE @]
           c == [call[w] EXCEPT !.late = @ \union {<<w, 2>>}]
<1>1. MergeTypeOK /\ TreeStands(w) /\ CallOrderly(w) /\ AnswerTrue(w)
  BY DEF MergeInv
<1>2. wt[w] \in TreeRec /\ call[w] \in CallRec
  BY <1>1, TreesKept
<1>3. /\ t \in TreeRec /\ t.work = wt[w].work \union {<<w, 2>>}
      /\ t.exists = wt[w].exists /\ t.branched = wt[w].branched
      /\ t.basis = wt[w].basis /\ t.rebase = wt[w].rebase
  <2> DEFINE more == wt[w].work \union {<<w, 2>>}
             gen == IF g THEN "tracked" ELSE wt[w].generated
  <2>1. more \in SUBSET Commits /\ gen \in {"none", "tracked", "staged"}
    BY <1>2 DEF TreeRec, Commits
  <2>2. t = [wt[w] EXCEPT !.dirty = FALSE, !.work = more, !.mergy = m, !.generated = gen]
    BY <1>2 DEF TreeRec
  <2> HIDE DEF t, more, gen
  <2>3. t \in TreeRec /\ t.work = more /\ t.exists = wt[w].exists /\ t.branched = wt[w].branched
        /\ t.basis = wt[w].basis /\ t.rebase = wt[w].rebase
    BY <1>2, <2>1, <2>2 DEF TreeRec
  <2> QED BY <2>3 DEF more
<1>4. /\ c \in CallRec /\ c.late = call[w].late \union {<<w, 2>>}
      /\ c.pc = call[w].pc /\ c.state = call[w].state /\ c.step = call[w].step
      /\ c.tested = call[w].tested /\ c.merged = call[w].merged /\ c.strayed = call[w].strayed
  BY <1>2 DEF CallRec, Commits
<1>5. wt' = [wt EXCEPT ![w] = t] /\ call' = [call EXCEPT ![w] = c] /\ UNCHANGED <<main, remote>>
      /\ wt[w].branched
  BY DEF Commit
<1> HIDE DEF t, c
<1>6. wt'[w] = t /\ call'[w] = c
  BY <1>1, <1>5, MergeTypes
<1>7. TreeStands(w)'
  BY <1>1, <1>3, <1>4, <1>5, <1>6 DEF TreeStands, At
<1>8. CallOrderly(w)'
  BY <1>1, <1>3, <1>4, <1>5, <1>6 DEF CallOrderly, At, Succeeded
<1>9. AnswerTrue(w)'
  BY <1>1, <1>3, <1>4, <1>5, <1>6 DEF AnswerTrue, At
<1>10. Grows /\ main' \in MainRec /\ remote' \in SUBSET Commits
      /\ tracking' \in (SUBSET Commits) \union {Unpublished}
  BY <1>1, <1>5, MergeTypes DEF Grows
<1> QED BY <1>3, <1>4, <1>5, <1>7, <1>8, <1>9, <1>10, OneKeeps

\* Someone changes the main checkout's branch, and every call past the check is
\* marked.
LEMMA UseMainKeeps ==
  ASSUME MergeInv, touches' \in 0..MaxTouches, UNCHANGED <<gate, tracking>>, UseMain
  PROVE  MergeInv'
<1>1. /\ MergeTypeOK /\ main \in MainRec /\ UNCHANGED <<wt, remote>> /\ main.merging = Nobody
  BY MergeTypes DEF MergeInv, UseMain
<1>2. CASE main' = [main EXCEPT !.dirty = ~@] /\ UNCHANGED call
  <2>1. /\ main' \in MainRec /\ main'.log = main.log /\ main'.stray = main.stray
        /\ main'.onBase = main.onBase /\ main'.merging = main.merging
        /\ main'.told = main.told /\ main'.crossed = main.crossed
    BY <1>1, <1>2 DEF MainRec
  <2>2. MergeTypeOK'
    BY <1>1, <1>2, <2>1, MergeTypes DEF MergeTypeOK, MainRec
  <2>3. ASSUME NEW v \in Worktrees PROVE TreeStands(v)' /\ CallOrderly(v)' /\ AnswerTrue(v)'
    BY <1>1, <1>2, <2>1, OthersKeep DEF Grows
  <2> QED BY <2>2, <2>3 DEF MergeInv
<1>3. CASE /\ main' = [main EXCEPT !.onBase = ~@]
           /\ call' = [w \in Worktrees |-> IF call[w].pc \in Verified
                                           THEN [call[w] EXCEPT !.strayed = TRUE] ELSE call[w]]
  <2>1. /\ main' \in MainRec /\ main'.log = main.log /\ main'.stray = main.stray
        /\ main'.merging = Nobody
        /\ main'.told = main.told /\ main'.crossed = main.crossed
    BY <1>1, <1>3 DEF MainRec
  <2>2. ASSUME NEW v \in Worktrees
        PROVE  /\ call'[v] \in CallRec /\ call'[v].pc = call[v].pc /\ call'[v].state = call[v].state
               /\ call'[v].step = call[v].step
               /\ call'[v].tested = call[v].tested /\ call'[v].late = call[v].late
               /\ call'[v].merged = call[v].merged
               /\ IF call[v].pc \in Verified THEN call'[v].strayed ELSE call'[v].strayed = call[v].strayed
    <3>1. call[v] \in CallRec
      BY <1>1, TreesKept
    <3>2. CASE call[v].pc \in Verified
      <4> DEFINE c == [call[v] EXCEPT !.strayed = TRUE]
      <4>1. c \in CallRec /\ c.pc = call[v].pc /\ c.state = call[v].state /\ c.step = call[v].step
            /\ c.tested = call[v].tested /\ c.late = call[v].late /\ c.merged = call[v].merged
            /\ c.strayed
        BY <3>1 DEF CallRec
      <4>2. call'[v] = c
        BY <1>3, <3>2
      <4> HIDE DEF c
      <4> QED BY <3>2, <4>1, <4>2
    <3>3. CASE call[v].pc \notin Verified
      <4>1. call'[v] = call[v]
        BY <1>3, <3>3
      <4> QED BY <3>1, <3>3, <4>1
    <3> QED BY <3>2, <3>3
  <2>3. MergeTypeOK'
    <3>1. call' \in [Worktrees -> CallRec]
      BY <1>3, <2>2
    <3> QED BY <1>1, <2>1, <3>1, MergeTypes DEF MergeTypeOK, MainRec, CallRec
  <2>4. ASSUME NEW v \in Worktrees PROVE TreeStands(v)' /\ CallOrderly(v)' /\ AnswerTrue(v)'
    <3>1. TreeStands(v) /\ CallOrderly(v) /\ AnswerTrue(v)
      BY DEF MergeInv
    <3>2. TreeStands(v)'
      BY <1>1, <2>1, <2>2, <3>1 DEF TreeStands, At
    <3>3. Verified \intersect Landing = {} /\ Nobody # v
      BY MergeAssumption DEF Verified, Landing
    <3>4. call[v].pc \in Verified => call[v].state = "none"
      BY <3>1 DEF CallOrderly, At, Verified
    <3>5. CallOrderly(v)'
      BY <1>1, <2>1, <2>2, <3>1, <3>3, <3>4 DEF CallOrderly, At, Succeeded
    <3>6. AnswerTrue(v)'
      BY <1>1, <2>1, <2>2, <3>1 DEF AnswerTrue, At
    <3> QED BY <3>2, <3>5, <3>6
  <2> QED BY <2>3, <2>4 DEF MergeInv
<1> QED BY <1>2, <1>3 DEF UseMain

LEMMA PublishKeeps ==
  ASSUME MergeInv, touches' \in 0..MaxTouches, UNCHANGED <<gate, tracking>>, Publish
  PROVE  MergeInv'
<1>1. MergeTypeOK /\ main \in MainRec /\ UNCHANGED <<wt, main, call>>
  BY MergeTypes DEF MergeInv, Publish
<1>2. remote' \in SUBSET Commits
  BY <1>1, MergeTypes DEF Publish, Commits, MainRec
<1>3. MergeTypeOK'
  BY <1>1, <1>2 DEF MergeTypeOK
<1>4. ASSUME NEW v \in Worktrees PROVE TreeStands(v)' /\ CallOrderly(v)' /\ AnswerTrue(v)'
  BY <1>1, OthersKeep DEF Grows
<1> QED BY <1>3, <1>4 DEF MergeInv

LEMMA TouchKeeps == MergeInv /\ Touch => MergeInv'
<1> SUFFICES ASSUME MergeInv, Touch PROVE MergeInv'
  OBVIOUS
<1>1. touches' \in 0..MaxTouches /\ UNCHANGED <<gate, tracking>>
  BY MergeAssumption DEF MergeInv, MergeTypeOK, Touch
<1>2. ASSUME NEW w \in Worktrees, Edit(w) \/ SwitchBack(w) \/ CleanUp(w) PROVE MergeInv'
  BY <1>1, <1>2, EditKeeps
<1>3. ASSUME NEW w \in Worktrees, NEW g \in BOOLEAN, NEW m \in BOOLEAN, Commit(w, g, m)
      PROVE MergeInv'
  BY <1>1, <1>3, CommitKeeps
<1>4. CASE UseMain
  BY <1>1, <1>4, UseMainKeeps
<1>5. CASE Publish
  BY <1>1, <1>5, PublishKeeps
<1> QED BY <1>2, <1>3, <1>4, <1>5 DEF Touch

-----------------------------------------------------------------------------
(* The steps of a call: each leaves a record for its call.                  *)

LEMMA Goes ==
  ASSUME MergeTypeOK, NEW w \in Worktrees, NEW p \in Steps, Goto(w, p)
  PROVE  \E c \in CallRec :
           /\ call' = [call EXCEPT ![w] = c] /\ c.pc = p
           /\ c.state = call[w].state /\ c.step = call[w].step /\ c.tested = call[w].tested
           /\ c.late = call[w].late /\ c.merged = call[w].merged /\ c.strayed = call[w].strayed
<1> DEFINE c == [call[w] EXCEPT !.pc = p]
<1>1. call[w] \in CallRec
  BY TreesKept
<1>2. c \in CallRec /\ c.pc = p
      /\ c.state = call[w].state /\ c.step = call[w].step /\ c.tested = call[w].tested
      /\ c.late = call[w].late /\ c.merged = call[w].merged /\ c.strayed = call[w].strayed
  BY <1>1 DEF CallRec
<1>3. call' = [call EXCEPT ![w] = c]
  BY DEF Goto
<1> HIDE DEF c
<1> QED BY <1>2, <1>3

LEMMA Answers ==
  ASSUME MergeTypeOK, NEW w \in Worktrees, NEW s \in MergeState, Answer(w, s)
  PROVE  \E c \in CallRec :
           /\ call' = [call EXCEPT ![w] = c] /\ c.pc = "idle"
           /\ c.state = s /\ c.step = "other" /\ c.tested = call[w].tested
           /\ c.late = call[w].late /\ c.merged = call[w].merged /\ c.strayed = call[w].strayed
<1> DEFINE c == [call[w] EXCEPT !.pc = "idle", !.step = "other", !.state = s]
<1>1. call[w] \in CallRec
  BY TreesKept
<1>2. c \in CallRec /\ c.pc = "idle" /\ c.state = s /\ c.step = "other"
      /\ c.tested = call[w].tested
      /\ c.late = call[w].late /\ c.merged = call[w].merged /\ c.strayed = call[w].strayed
  BY <1>1 DEF CallRec, Steps
<1>3. call' = [call EXCEPT ![w] = c]
  BY DEF Answer
<1> HIDE DEF c
<1> QED BY <1>2, <1>3

LEMMA Refuses ==
  ASSUME MergeTypeOK, NEW w \in Worktrees,
         NEW s \in {"PATH_VALIDATION", "PROTECTED_BRANCH", "BRANCH_DETECTION"}, Refuse(w, s)
  PROVE  \E c \in CallRec :
           /\ call' = [call EXCEPT ![w] = c] /\ c.pc = "idle"
           /\ c.state = "WORKTREE_INTACT" /\ c.step = s /\ c.tested = call[w].tested
           /\ c.late = call[w].late /\ c.merged = call[w].merged /\ c.strayed = call[w].strayed
<1> DEFINE c == [call[w] EXCEPT !.pc = "idle", !.step = s, !.state = "WORKTREE_INTACT"]
<1>1. call[w] \in CallRec
  BY TreesKept
<1>2. c \in CallRec /\ c.pc = "idle" /\ c.state = "WORKTREE_INTACT" /\ c.step = s
      /\ c.tested = call[w].tested
      /\ c.late = call[w].late /\ c.merged = call[w].merged /\ c.strayed = call[w].strayed
  BY <1>1 DEF CallRec, Steps, MergeState
<1>3. call' = [call EXCEPT ![w] = c]
  BY DEF Refuse
<1> HIDE DEF c
<1> QED BY <1>2, <1>3

Before == Unmerged \union {"idle"}
Intact == {"WORKTREE_INTACT", "WORKTREE_INTACT_REBASE_ABORTED",
           "WORKTREE_INTACT_BASE_NOT_PUBLISHED", "WORKTREE_DIRTY",
           "WORKTREE_INTACT_MERGE_COMMITS_DETECTED"}
AfterMerge == {"MERGE_SUCCEEDED", "MERGE_SUCCEEDED_CLEANUP_BLOCKED", "MAIN_REPO_MERGE_ABORTED"}

\* A step up to the merge: what its new records must satisfy.
LEMMA BeforeMerge ==
  ASSUME MergeInv, NEW w \in Worktrees, NEW t \in TreeRec, NEW c \in CallRec,
         wt' = [wt EXCEPT ![w] = t], call' = [call EXCEPT ![w] = c],
         UNCHANGED <<gate, main, remote>>, touches' \in 0..MaxTouches,
         tracking' \in (SUBSET Commits) \union {Unpublished},
         tracking # Unpublished => tracking' # Unpublished,
         call[w].pc \in Before, t.exists, t.branched, wt[w].branched, t.work = wt[w].work,
         c.pc \in Before, c.merged = {}, c.pc # "idle" => c.state = "none",
         c.pc \in Unrebased => t.rebase = "none",
         c.pc = "rebase" => tracking' # Unpublished,
         gate /\ c.pc \in Verified \union {"verify"} =>
           t.work \union t.basis \subseteq c.tested \union c.late,
         c.pc \in Verified /\ ~c.strayed => main.onBase,
         c.pc = "idle" => c.state \notin AfterMerge,
         c.pc = "idle" /\ c.state \in Intact /\ c.step = "other" => t.rebase = "none"
  PROVE  MergeInv'
<1>1. MergeTypeOK /\ TreeStands(w) /\ CallOrderly(w)
  BY DEF MergeInv
<1>2. wt'[w] = t /\ call'[w] = c /\ UNCHANGED main
  BY <1>1, MergeTypes
<1>3. c.pc \notin Landing /\ c.pc # "abort_merge" /\ call[w].pc \notin Landing \union {"abort_merge", "branch"}
  BY DEF Before, Unmerged, Landing
<1>4. TreeStands(w)'
  BY <1>1, <1>2, <1>3 DEF TreeStands
<1>5. CallOrderly(w)'
  <2>1. ~Succeeded(w)'
    BY <1>2 DEF Succeeded, AfterMerge
  <2>2. main'.merging = w => main'.told
    BY <1>1, <1>2, <1>3 DEF CallOrderly, At
  <2> QED BY <1>2, <1>3, <2>1, <2>2 DEF CallOrderly, At
<1>6. AnswerTrue(w)'
  BY <1>2 DEF AnswerTrue, At, AfterMerge, Intact
<1>7. Grows /\ main' \in MainRec /\ main'.merging = main.merging /\ remote' \in SUBSET Commits
  BY <1>1, MergeTypes DEF Grows
<1> QED BY <1>4, <1>5, <1>6, <1>7, OneKeeps

LEMMA Standing ==
  ASSUME MergeInv, NEW w \in Worktrees, call[w].pc \in Unmerged
  PROVE  /\ MergeTypeOK /\ wt[w].exists /\ wt[w].branched /\ call[w].merged = {}
         /\ call[w].state = "none" /\ call[w].pc \in Before
         /\ call[w].pc \in Unrebased => wt[w].rebase = "none"
         /\ call[w].pc = "rebase" => tracking # Unpublished
         /\ gate /\ call[w].pc \in Verified \union {"verify"} =>
              wt[w].work \union wt[w].basis \subseteq call[w].tested \union call[w].late
         /\ wt[w] \in TreeRec /\ (UNCHANGED wt => wt' = [wt EXCEPT ![w] = wt[w]])
         /\ wt[w].work \in SUBSET Commits /\ wt[w].basis \in SUBSET Commits
         /\ remote \in SUBSET Commits /\ tracking \in (SUBSET Commits) \union {Unpublished}
         /\ touches \in 0..MaxTouches
<1>1. MergeTypeOK /\ TreeStands(w) /\ CallOrderly(w) /\ wt[w] \in TreeRec
  BY TreesKept DEF MergeInv
<1>2. call[w].pc # "branch" /\ call[w].pc # "idle"
  BY DEF Unmerged
<1>3. wt[w].exists /\ wt[w].branched /\ (call[w].pc \in Unrebased => wt[w].rebase = "none")
  BY <1>1, <1>2 DEF TreeStands, At
<1>4. /\ call[w].merged = {} /\ call[w].state = "none"
      /\ call[w].pc = "rebase" => tracking # Unpublished
      /\ gate /\ call[w].pc \in Verified \union {"verify"} =>
           wt[w].work \union wt[w].basis \subseteq call[w].tested \union call[w].late
  BY <1>1, <1>2 DEF CallOrderly, At
<1> QED BY <1>1, <1>3, <1>4, TreesKept, MergeTypes DEF Before, TreeRec

\* On to the next step, in a tree that may have changed but for its commits.
LEMMA GoesOn ==
  ASSUME MergeInv, NEW w \in Worktrees, NEW t \in TreeRec, NEW p \in Unmerged \ {"begin"},
         call[w].pc \in Unmerged, Goto(w, p), wt' = [wt EXCEPT ![w] = t],
         UNCHANGED <<gate, main, remote, touches>>,
         tracking' \in (SUBSET Commits) \union {Unpublished},
         tracking # Unpublished => tracking' # Unpublished,
         t.exists, t.branched, t.work = wt[w].work,
         p \in Unrebased => t.rebase = "none",
         p = "rebase" => tracking' # Unpublished,
         gate /\ p \in Verified \union {"verify"} =>
           t.work \union t.basis \subseteq call[w].tested \union call[w].late,
         p \in Verified /\ ~call[w].strayed => main.onBase
  PROVE  MergeInv'
<1>1. MergeTypeOK /\ p \in Steps /\ p \in Before /\ p # "idle"
  BY Standing DEF Unmerged, Steps, Before
<1>2. PICK c \in CallRec :
           /\ call' = [call EXCEPT ![w] = c] /\ c.pc = p
           /\ c.state = call[w].state /\ c.step = call[w].step /\ c.tested = call[w].tested
           /\ c.late = call[w].late /\ c.merged = call[w].merged /\ c.strayed = call[w].strayed
  BY <1>1, Goes
<1>3. c.merged = {} /\ c.state = "none" /\ call[w].pc \in Before /\ wt[w].branched
      /\ remote' = remote /\ touches' \in 0..MaxTouches
  BY <1>2, Standing
<1>4. gate /\ c.pc \in Verified \union {"verify"} =>
           t.work \union t.basis \subseteq c.tested \union c.late
  BY <1>2
<1> QED BY <1>1, <1>2, <1>3, <1>4, BeforeMerge

\* An answer before the merge.
LEMMA GivesUp ==
  ASSUME MergeInv, NEW w \in Worktrees, NEW t \in TreeRec, NEW s \in MergeState \ AfterMerge,
         call[w].pc \in Unmerged, Answer(w, s), wt' = [wt EXCEPT ![w] = t],
         UNCHANGED <<gate, main, remote, tracking, touches>>,
         t.exists, t.branched, t.work = wt[w].work, s \in Intact => t.rebase = "none"
  PROVE  MergeInv'
<1>1. PICK c \in CallRec :
           /\ call' = [call EXCEPT ![w] = c] /\ c.pc = "idle"
           /\ c.state = s /\ c.step = "other" /\ c.tested = call[w].tested
           /\ c.late = call[w].late /\ c.merged = call[w].merged /\ c.strayed = call[w].strayed
  BY Standing, Answers
<1>2. c.pc \in Before /\ c.pc \notin Unrebased /\ c.pc \notin Verified \union {"verify", "rebase"}
  BY <1>1 DEF Before, Unrebased, Verified
<1>3. c.merged = {} /\ call[w].pc \in Before /\ wt[w].branched
      /\ touches' \in 0..MaxTouches /\ tracking' \in (SUBSET Commits) \union {Unpublished}
  BY <1>1, Standing
<1> QED BY <1>1, <1>2, <1>3, BeforeMerge

LEMMA BeginKeeps ==
  ASSUME MergeInv, NEW w \in Worktrees, Begin(w), UNCHANGED <<gate, touches>> PROVE MergeInv'
<1>1. call[w].pc = "begin" /\ call[w].pc \in Unmerged /\ UNCHANGED <<wt, main, remote, tracking>>
  BY DEF Begin, At, Unmerged, Shared
<1>2. ASSUME NEW s \in {"PATH_VALIDATION", "PROTECTED_BRANCH", "BRANCH_DETECTION"}, Refuse(w, s)
      PROVE  MergeInv'
  <2>1. PICK c \in CallRec :
           /\ call' = [call EXCEPT ![w] = c] /\ c.pc = "idle"
           /\ c.state = "WORKTREE_INTACT" /\ c.step = s /\ c.tested = call[w].tested
           /\ c.late = call[w].late /\ c.merged = call[w].merged /\ c.strayed = call[w].strayed
    BY <1>1, <1>2, Standing, Refuses
  <2>2. c.pc \in Before /\ c.pc \notin Unrebased /\ c.pc \notin Verified \union {"verify", "rebase"}
        /\ c.state \notin AfterMerge /\ c.step # "other"
    BY <2>1 DEF Before, Unrebased, Verified, AfterMerge
  <2>3. c.merged = {} /\ call[w].pc \in Before /\ wt[w].branched /\ wt[w].exists
        /\ touches' \in 0..MaxTouches /\ tracking' \in (SUBSET Commits) \union {Unpublished}
        /\ wt[w] \in TreeRec /\ wt' = [wt EXCEPT ![w] = wt[w]]
    BY <1>1, <2>1, Standing
  <2> QED BY <1>1, <2>1, <2>2, <2>3, BeforeMerge
<1>3. CASE Answer(w, "WORKTREE_DIRTY_MID_OPERATION")
  <2>1. "WORKTREE_DIRTY_MID_OPERATION" \in MergeState \ AfterMerge
        /\ "WORKTREE_DIRTY_MID_OPERATION" \notin Intact
    BY DEF MergeState, AfterMerge, Intact
  <2> QED BY <1>1, <1>3, <2>1, Standing, GivesUp
<1>4. CASE wt[w].rebase = "none" /\ Goto(w, "strip")
  <2>1. "strip" \in Unmerged \ {"begin"} /\ "strip" \notin Verified \union {"verify"}
    BY DEF Unmerged, Verified
  <2> QED BY <1>1, <1>4, <2>1, Standing, GoesOn
<1> QED BY <1>2, <1>3, <1>4 DEF Begin

LEMMA StripKeeps ==
  ASSUME MergeInv, NEW w \in Worktrees, StripGenerated(w), UNCHANGED <<gate, touches>> PROVE MergeInv'
<1>1. call[w].pc = "strip" /\ call[w].pc \in Unmerged /\ UNCHANGED <<main, remote, tracking>>
      /\ call[w].pc \in Unrebased
  BY DEF StripGenerated, At, Unmerged, Unrebased, Shared
<1>2. "status" \in Unmerged \ {"begin"} /\ "status" \notin Verified \union {"verify"}
  BY DEF Unmerged, Verified
<1>3. "WORKTREE_INTACT" \in MergeState \ AfterMerge
  BY DEF MergeState, AfterMerge
<1>4. ASSUME NEW g \in {"none", "tracked", "staged"}
      PROVE  /\ [wt[w] EXCEPT !.generated = g] \in TreeRec
             /\ [wt[w] EXCEPT !.generated = g].exists = wt[w].exists
             /\ [wt[w] EXCEPT !.generated = g].branched = wt[w].branched
             /\ [wt[w] EXCEPT !.generated = g].work = wt[w].work
             /\ [wt[w] EXCEPT !.generated = g].rebase = wt[w].rebase
  <2>1. wt[w] \in TreeRec
    BY <1>1, Standing
  <2> QED BY <2>1 DEF TreeRec
<1>5. PICK t \in TreeRec : /\ wt' = [wt EXCEPT ![w] = t] /\ t.exists /\ t.branched
                           /\ t.work = wt[w].work /\ t.rebase = "none"
  <2>1. CASE UNCHANGED wt
    BY <1>1, <2>1, Standing
  <2>2. CASE wt' = [wt EXCEPT ![w].generated = "none"]
    BY <1>1, <1>4, <2>2, Standing
  <2>3. CASE wt' = [wt EXCEPT ![w].generated = "staged"]
    BY <1>1, <1>4, <2>3, Standing
  <2> QED BY <2>1, <2>2, <2>3 DEF StripGenerated
<1>6. CASE Goto(w, "status")
  BY <1>1, <1>2, <1>5, <1>6, Standing, GoesOn
<1>7. CASE Answer(w, "WORKTREE_INTACT")
  BY <1>1, <1>3, <1>5, <1>7, GivesUp
<1> QED BY <1>6, <1>7 DEF StripGenerated

LEMMA DirtyCheckKeeps ==
  ASSUME MergeInv, NEW w \in Worktrees, DirtyCheck(w), UNCHANGED <<gate, touches>> PROVE MergeInv'
<1>1. call[w].pc = "status" /\ call[w].pc \in Unmerged /\ UNCHANGED <<wt, main, remote, tracking>>
      /\ call[w].pc \in Unrebased
  BY DEF DirtyCheck, At, Unmerged, Unrebased, Shared
<1>2. CASE Answer(w, "WORKTREE_DIRTY")
  <2>1. "WORKTREE_DIRTY" \in MergeState \ AfterMerge
    BY DEF MergeState, AfterMerge
  <2> QED BY <1>1, <1>2, <2>1, Standing, GivesUp
<1>3. CASE Goto(w, IF gate THEN "test" ELSE "fetch")
  <2> DEFINE p == IF gate THEN "test" ELSE "fetch"
  <2>1. p \in Unmerged \ {"begin"} /\ p \notin Verified \union {"verify"} /\ p # "rebase"
    BY DEF Unmerged, Verified
  <2> HIDE DEF p
  <2> QED BY <1>1, <1>3, <2>1, Standing, GoesOn DEF p
<1> QED BY <1>2, <1>3 DEF DirtyCheck

\* The tests: what they passed is what is there.
LEMMA TestGateKeeps ==
  ASSUME MergeInv, NEW w \in Worktrees, NEW at \in {"test", "retest"}, NEW p \in {"fetch", "verify"},
         TestGate(w, at, p), UNCHANGED <<gate, touches>> PROVE MergeInv'
<1>1. call[w].pc = at /\ call[w].pc \in Unmerged /\ UNCHANGED <<wt, main, remote, tracking>>
      /\ call[w].pc \in Unrebased
  BY DEF TestGate, At, Unmerged, Unrebased, Shared
<1>2. CASE Answer(w, "WORKTREE_INTACT")
  <2>1. "WORKTREE_INTACT" \in MergeState \ AfterMerge
    BY DEF MergeState, AfterMerge
  <2> QED BY <1>1, <1>2, <2>1, Standing, GivesUp
<1>3. CASE call' = [call EXCEPT ![w].pc = p, ![w].tested = wt[w].work \union wt[w].basis,
                                ![w].late = {}]
  <2> DEFINE all == wt[w].work \union wt[w].basis
             c == [call[w] EXCEPT !.pc = p, !.tested = all, !.late = {}]
  <2>1. call[w] \in CallRec /\ all \in SUBSET Commits
    BY <1>1, Standing, TreesKept
  <2>2. call' = [call EXCEPT ![w] = c]
    BY <1>3
  <2> HIDE DEF all
  <2>3. /\ c \in CallRec /\ c.pc = p /\ c.tested = all /\ c.late = {}
        /\ c.state = call[w].state /\ c.merged = call[w].merged
    BY <2>1 DEF CallRec, Steps
  <2> HIDE DEF c
  <2>4. c.pc \in Before /\ c.pc \notin Verified /\ c.pc \notin {"idle", "rebase"}
    BY <2>3 DEF Before, Unmerged, Verified
  <2>5. wt[w].work \union wt[w].basis \subseteq c.tested \union c.late
    BY <2>3 DEF all
  <2>6. c.merged = {} /\ c.state = "none" /\ call[w].pc \in Before
        /\ wt[w].branched /\ wt[w].exists /\ wt[w].rebase = "none"
        /\ touches' \in 0..MaxTouches /\ tracking' \in (SUBSET Commits) \union {Unpublished}
        /\ wt[w] \in TreeRec /\ wt' = [wt EXCEPT ![w] = wt[w]]
    BY <1>1, <2>3, Standing
  <2> QED BY <1>1, <2>2, <2>3, <2>4, <2>5, <2>6, BeforeMerge
<1> QED BY <1>2, <1>3 DEF TestGate

LEMMA FetchKeeps ==
  ASSUME MergeInv, NEW w \in Worktrees, Fetch(w), UNCHANGED <<gate, touches>> PROVE MergeInv'
<1>1. call[w].pc = "fetch" /\ call[w].pc \in Unmerged /\ UNCHANGED <<wt, main, remote>>
      /\ call[w].pc \in Unrebased
  BY DEF Fetch, At, Unmerged, Unrebased
<1>2. CASE Answer(w, "WORKTREE_INTACT") /\ UNCHANGED tracking
  <2>1. "WORKTREE_INTACT" \in MergeState \ AfterMerge
    BY DEF MergeState, AfterMerge
  <2> QED BY <1>1, <1>2, <2>1, Standing, GivesUp
<1>3. CASE /\ Goto(w, "preflight")
           /\ tracking' \in {remote} \union ({Unpublished} \intersect {tracking})
  <2>1. "preflight" \in Unmerged \ {"begin"} /\ "preflight" \notin Verified \union {"verify", "rebase"}
    BY DEF Unmerged, Verified
  <2>2. remote \in SUBSET Commits /\ remote # Unpublished
    <3>1. remote \in SUBSET Commits
      BY <1>1, Standing
    <3>2. <<"unpublished", 0>> \notin Commits
      BY DEF Commits
    <3> QED BY <3>1, <3>2 DEF Unpublished
  <2>3. /\ tracking' \in (SUBSET Commits) \union {Unpublished}
        /\ tracking # Unpublished => tracking' # Unpublished
    BY <1>3, <2>2
  <2>4. /\ wt[w] \in TreeRec /\ wt' = [wt EXCEPT ![w] = wt[w]] /\ wt[w].exists /\ wt[w].branched
        /\ wt[w].rebase = "none"
    BY <1>1, Standing
  <2> QED BY <1>1, <1>3, <2>1, <2>3, <2>4, GoesOn
<1> QED BY <1>2, <1>3 DEF Fetch

LEMMA PreflightKeeps ==
  ASSUME MergeInv, NEW w \in Worktrees, Preflight(w), UNCHANGED <<gate, touches>> PROVE MergeInv'
<1>1. call[w].pc = "preflight" /\ call[w].pc \in Unmerged /\ UNCHANGED <<wt, main, remote, tracking>>
      /\ call[w].pc \in Unrebased
  BY DEF Preflight, At, Unmerged, Unrebased, Shared
<1>2. ASSUME NEW s \in {"WORKTREE_INTACT_BASE_NOT_PUBLISHED", "WORKTREE_INTACT_MERGE_COMMITS_DETECTED"},
             Answer(w, s)
      PROVE  MergeInv'
  <2>1. s \in MergeState \ AfterMerge
    BY DEF MergeState, AfterMerge
  <2> QED BY <1>1, <1>2, <2>1, Standing, GivesUp
<1>3. CASE tracking # Unpublished /\ Goto(w, "rebase")
  <2>1. "rebase" \in Unmerged \ {"begin"} /\ "rebase" \notin Verified \union {"verify"}
    BY DEF Unmerged, Verified
  <2> QED BY <1>1, <1>3, <2>1, Standing, GoesOn
<1> QED BY <1>2, <1>3 DEF Preflight

\* A rebase leaves the commits alone and, if it ends, replaces what they stand on.
LEMMA RebaseKeeps ==
  ASSUME MergeInv, NEW w \in Worktrees, Rebase(w), UNCHANGED <<gate, touches>> PROVE MergeInv'
<1> DEFINE done == [wt[w] EXCEPT !.basis = tracking, !.mergy = FALSE]
           half == [wt[w] EXCEPT !.rebase = "detached"]
<1>1. call[w].pc = "rebase" /\ call[w].pc \in Unmerged /\ UNCHANGED <<main, remote, tracking>>
      /\ call[w].pc \in Unrebased
  BY DEF Rebase, At, Unmerged, Unrebased, Shared
<1>2. /\ wt[w] \in TreeRec /\ tracking \in SUBSET Commits
      /\ wt[w].exists /\ wt[w].branched /\ wt[w].rebase = "none"
      /\ tracking \in (SUBSET Commits) \union {Unpublished}
  BY <1>1, Standing
<1>3. done \in TreeRec /\ done.exists /\ done.branched /\ done.work = wt[w].work /\ done.rebase = "none"
  BY <1>2 DEF TreeRec
<1>4. half \in TreeRec /\ half.exists /\ half.branched /\ half.work = wt[w].work
  BY <1>2 DEF TreeRec
<1>5. \/ /\ wt' = [wt EXCEPT ![w] = done]
         /\ Goto(w, IF gate THEN "retest" ELSE "verify") \/ Goto(w, "abort_rebase")
      \/ wt' = wt /\ Goto(w, "abort_rebase")
      \/ wt' = [wt EXCEPT ![w] = half] /\ Goto(w, "abort_rebase")
  BY DEF Rebase
<1>6. PICK t \in TreeRec : /\ wt' = [wt EXCEPT ![w] = t]
                           /\ t.exists /\ t.branched /\ t.work = wt[w].work
                           /\ \/ /\ Goto(w, IF gate THEN "retest" ELSE "verify")
                                 /\ t.rebase = "none"
                              \/ Goto(w, "abort_rebase")
  <2>1. wt' = wt => wt' = [wt EXCEPT ![w] = wt[w]]
    BY <1>1, Standing
  <2> HIDE DEF done, half
  <2> QED BY <1>2, <1>3, <1>4, <1>5, <2>1
<1> HIDE DEF done, half
<1>7. CASE Goto(w, "abort_rebase")
  <2>1. "abort_rebase" \in Unmerged \ {"begin"} /\ "abort_rebase" \notin Verified \union {"verify"}
        /\ "abort_rebase" \notin Unrebased
    BY DEF Unmerged, Verified, Unrebased
  <2> QED BY <1>1, <1>2, <1>6, <1>7, <2>1, GoesOn
<1>8. CASE Goto(w, IF gate THEN "retest" ELSE "verify") /\ t.rebase = "none"
  <2> DEFINE p == IF gate THEN "retest" ELSE "verify"
  <2>1. p \in Unmerged \ {"begin"} /\ p \notin Verified /\ p # "rebase" /\ (gate => p # "verify")
    BY DEF Unmerged, Verified
  <2> HIDE DEF p
  <2> QED BY <1>1, <1>2, <1>6, <1>8, <2>1, GoesOn DEF p
<1> QED BY <1>6, <1>7, <1>8

LEMMA AbortRebaseKeeps ==
  ASSUME MergeInv, NEW w \in Worktrees, AbortRebase(w), UNCHANGED <<gate, touches>> PROVE MergeInv'
<1>1. call[w].pc = "abort_rebase" /\ call[w].pc \in Unmerged /\ UNCHANGED <<main, remote, tracking>>
  BY DEF AbortRebase, At, Unmerged, Shared
<1>2. wt[w] \in TreeRec /\ wt[w].exists /\ wt[w].branched
  BY <1>1, Standing
<1>3. CASE Answer(w, "WORKTREE_INTACT_REBASE_ABORTED") /\ wt' = [wt EXCEPT ![w].rebase = "none"]
  <2> DEFINE t == [wt[w] EXCEPT !.rebase = "none"]
  <2>1. t \in TreeRec /\ t.exists /\ t.branched /\ t.work = wt[w].work /\ t.rebase = "none"
    BY <1>2 DEF TreeRec
  <2>2. wt' = [wt EXCEPT ![w] = t]
    BY <1>3
  <2>3. "WORKTREE_INTACT_REBASE_ABORTED" \in MergeState \ AfterMerge
    BY DEF MergeState, AfterMerge
  <2> HIDE DEF t
  <2> QED BY <1>1, <1>3, <2>1, <2>2, <2>3, GivesUp
<1>4. CASE Answer(w, "WORKTREE_DIRTY_ABORT_FAILED") /\ UNCHANGED wt
  <2>1. "WORKTREE_DIRTY_ABORT_FAILED" \in MergeState \ AfterMerge
        /\ "WORKTREE_DIRTY_ABORT_FAILED" \notin Intact
    BY DEF MergeState, AfterMerge, Intact
  <2> QED BY <1>1, <1>4, <2>1, Standing, GivesUp
<1> QED BY <1>3, <1>4 DEF AbortRebase

LEMMA VerifyKeeps ==
  ASSUME MergeInv, NEW w \in Worktrees, VerifyMergeTarget(w), UNCHANGED <<gate, touches>> PROVE MergeInv'
<1>1. call[w].pc = "verify" /\ call[w].pc \in Unmerged /\ UNCHANGED <<wt, main, remote, tracking>>
      /\ call[w].pc \in Unrebased
  BY DEF VerifyMergeTarget, At, Unmerged, Unrebased, Shared
<1>2. CASE Answer(w, "WORKTREE_INTACT")
  <2>1. "WORKTREE_INTACT" \in MergeState \ AfterMerge
    BY DEF MergeState, AfterMerge
  <2> QED BY <1>1, <1>2, <2>1, Standing, GivesUp
<1>3. CASE main.onBase /\ Goto(w, "main_status")
  <2>1. "main_status" \in Unmerged \ {"begin"} /\ "main_status" # "rebase"
    BY DEF Unmerged
  <2>2. gate => wt[w].work \union wt[w].basis \subseteq call[w].tested \union call[w].late
    BY <1>1, Standing
  <2> QED BY <1>1, <1>3, <2>1, <2>2, Standing, GoesOn
<1> QED BY <1>2, <1>3 DEF VerifyMergeTarget

LEMMA MainStatusKeeps ==
  ASSUME MergeInv, NEW w \in Worktrees, MainStatus(w), UNCHANGED <<gate, touches>> PROVE MergeInv'
<1>1. call[w].pc = "main_status" /\ call[w].pc \in Unmerged /\ UNCHANGED <<wt, main, remote, tracking>>
      /\ call[w].pc \in Unrebased /\ call[w].pc \in Verified
  BY DEF MainStatus, At, Unmerged, Unrebased, Shared, Verified
<1>2. CASE Answer(w, "WORKTREE_INTACT")
  <2>1. "WORKTREE_INTACT" \in MergeState \ AfterMerge
    BY DEF MergeState, AfterMerge
  <2> QED BY <1>1, <1>2, <2>1, Standing, GivesUp
<1>3. CASE Goto(w, "merge")
  <2>1. "merge" \in Unmerged \ {"begin"} /\ "merge" # "rebase"
    BY DEF Unmerged
  <2>2. gate => wt[w].work \union wt[w].basis \subseteq call[w].tested \union call[w].late
    BY <1>1, Standing
  <2>3. ~call[w].strayed => main.onBase
    BY <1>1 DEF MergeInv, CallOrderly
  <2> QED BY <1>1, <1>3, <2>1, <2>2, <2>3, Standing, GoesOn
<1> QED BY <1>2, <1>3 DEF MainStatus

-----------------------------------------------------------------------------
(* The merge and what follows.                                              *)

LEMMA MergeKeeps ==
  ASSUME MergeInv, NEW w \in Worktrees, Merge(w), UNCHANGED <<gate, touches>> PROVE MergeInv'
<1> DEFINE mine == wt[w].work \union wt[w].basis
<1>1. call[w].pc = "merge" /\ call[w].pc \in Unmerged /\ UNCHANGED <<wt, remote, tracking>>
      /\ call[w].pc \in Verified
  BY DEF Merge, At, Unmerged, Verified
<1>2. /\ MergeTypeOK /\ wt[w] \in TreeRec /\ wt[w].exists /\ wt[w].branched
      /\ call[w].merged = {} /\ call[w].state = "none"
      /\ gate => mine \subseteq call[w].tested \union call[w].late
      /\ wt[w].work \in SUBSET Commits /\ wt[w].basis \in SUBSET Commits
      /\ wt' = [wt EXCEPT ![w] = wt[w]] /\ touches' \in 0..MaxTouches
      /\ remote' \in SUBSET Commits /\ tracking' \in (SUBSET Commits) \union {Unpublished}
  BY <1>1, Standing
<1>3. mine \in SUBSET Commits /\ mine # {} /\ wt[w].work \subseteq mine /\ <<w, 1>> \in wt[w].work
  BY <1>2 DEF MergeInv, TreeStands
<1>4. ~call[w].strayed => main.onBase
  BY <1>1 DEF MergeInv, CallOrderly
<1>5. main \in MainRec /\ call[w] \in CallRec /\ wt'[w] = wt[w]
      /\ call \in [Worktrees -> CallRec]
  BY <1>2, <1>1, TreesKept, MergeTypes
<1> HIDE DEF mine
<1>6. ASSUME main' = Landed(w), main.merging = Nobody, NEW p \in {"guard", "abort_merge"},
             call' = [call EXCEPT ![w].pc = p, ![w].merged = mine]
      PROVE  MergeInv'
  <2> DEFINE c == [call[w] EXCEPT !.pc = p, !.merged = mine]
  <2>1. /\ c \in CallRec /\ c.pc = p /\ c.merged = mine /\ c.state = "none"
        /\ c.tested = call[w].tested /\ c.late = call[w].late /\ c.strayed = call[w].strayed
    BY <1>2, <1>3, <1>5 DEF CallRec, Steps
  <2>2. call' = [call EXCEPT ![w] = c]
    BY <1>6
  <2> HIDE DEF c
  <2>3. call'[w] = c
    BY <1>5, <2>2
  <2>4. /\ main' \in MainRec /\ main'.onBase = main.onBase /\ main'.merging = Nobody
        /\ main'.told = main.told /\ main'.crossed = main.crossed
        /\ main'.log = main.log \union (IF main.onBase THEN mine ELSE {})
        /\ main'.stray = main.stray \union (IF main.onBase THEN {} ELSE mine)
    <3>1. CASE main.onBase
      <4> DEFINE l == main.log \union mine
      <4>1. l \in SUBSET Commits
        BY <1>3, <1>5 DEF MainRec
      <4>2. main' = [main EXCEPT !.log = l]
        BY <1>6, <3>1 DEF Landed, mine
      <4> HIDE DEF l
      <4>3. /\ main' \in MainRec /\ main'.onBase = main.onBase /\ main'.merging = Nobody
            /\ main'.told = main.told /\ main'.crossed = main.crossed
            /\ main'.log = l /\ main'.stray = main.stray
        BY <1>5, <1>6, <4>1, <4>2 DEF MainRec
      <4> QED BY <3>1, <4>3 DEF l
    <3>2. CASE ~main.onBase
      <4> DEFINE l == main.stray \union mine
      <4>1. l \in SUBSET Commits
        BY <1>3, <1>5 DEF MainRec
      <4>2. main' = [main EXCEPT !.stray = l]
        BY <1>6, <3>2 DEF Landed, mine
      <4> HIDE DEF l
      <4>3. /\ main' \in MainRec /\ main'.onBase = main.onBase /\ main'.merging = Nobody
            /\ main'.told = main.told /\ main'.crossed = main.crossed
            /\ main'.log = main.log /\ main'.stray = l
        BY <1>5, <1>6, <4>1, <4>2 DEF MainRec
      <4> QED BY <3>2, <4>3 DEF l
    <3> QED BY <3>1, <3>2
  <2>5. TreeStands(w)'
    <3>1. wt[w].work \subseteq main'.log \union main'.stray
      BY <1>3, <2>4
    <3>2. p \notin Unrebased
      BY DEF Unrebased
    <3> QED BY <1>2, <1>3, <1>5, <2>1, <2>3, <3>1, <3>2 DEF TreeStands
  <2>6. CallOrderly(w)'
    <3>1. p \notin Unmerged /\ p \notin Verified \union {"verify"} /\ p \notin {"idle", "rebase"}
      BY DEF Unmerged, Verified
    <3>2. mine \subseteq main'.log \union (IF c.strayed THEN main'.stray ELSE {})
      BY <1>4, <2>1, <2>4
    <3>3. main'.merging # w
      BY <2>4, MergeAssumption
    <3> QED BY <1>2, <1>3, <2>1, <2>3, <3>1, <3>2, <3>3 DEF CallOrderly, At
  <2>7. AnswerTrue(w)'
    BY <2>1, <2>3 DEF AnswerTrue, At
  <2>8. Grows
    BY <1>1, <2>4 DEF Grows
  <2> QED BY <1>2, <2>1, <2>2, <2>4, <2>5, <2>6, <2>7, <2>8, OneKeeps
<1>7. ASSUME Goto(w, "abort_merge"),
             main' \in {main, [main EXCEPT !.merging = IF @ = Nobody THEN w ELSE @]}
      PROVE  MergeInv'
  <2>1. PICK c \in CallRec :
           /\ call' = [call EXCEPT ![w] = c] /\ c.pc = "abort_merge"
           /\ c.state = call[w].state /\ c.step = call[w].step /\ c.tested = call[w].tested
           /\ c.late = call[w].late /\ c.merged = call[w].merged /\ c.strayed = call[w].strayed
    BY <1>2, <1>7, Goes DEF Steps
  <2>2. call'[w] = c
    BY <1>5, <2>1
  <2>3. /\ main' \in MainRec /\ main'.onBase = main.onBase /\ main'.merging \in {main.merging, w}
        /\ main'.told = main.told /\ main'.crossed = main.crossed
        /\ main'.log = main.log /\ main'.stray = main.stray
    BY <1>5, <1>7 DEF MainRec
  <2>4. TreeStands(w)'
    <3>1. c.pc \notin Landing /\ c.pc \notin Unrebased
      BY <2>1 DEF Landing, Unrebased
    <3> QED BY <1>2, <1>3, <1>5, <2>2, <3>1 DEF TreeStands
  <2>5. CallOrderly(w)'
    <3>1. c.pc \notin Landing /\ c.pc \notin Verified \union {"verify", "rebase"} /\ ~Succeeded(w)'
      BY <1>2, <2>1, <2>2 DEF Landing, Verified, Succeeded
    <3> QED BY <1>2, <2>1, <2>2, <3>1 DEF CallOrderly, At
  <2>6. AnswerTrue(w)'
    BY <2>1, <2>2 DEF AnswerTrue, At
  <2>7. Grows
    BY <1>1, <2>3 DEF Grows
  <2> QED BY <1>2, <2>1, <2>3, <2>4, <2>5, <2>6, <2>7, OneKeeps
<1> QED BY <1>6, <1>7 DEF Merge, mine

\* What is known of a call past the merge, in its tree.
LEMMA Past ==
  ASSUME MergeInv, NEW w \in Worktrees
  PROVE  /\ MergeTypeOK /\ TreeStands(w) /\ CallOrderly(w) /\ AnswerTrue(w)
         /\ wt[w] \in TreeRec /\ call[w] \in CallRec /\ main \in MainRec
         /\ wt \in [Worktrees -> TreeRec] /\ call \in [Worktrees -> CallRec]
         /\ touches \in 0..MaxTouches
         /\ remote \in SUBSET Commits /\ tracking \in (SUBSET Commits) \union {Unpublished}
         /\ (UNCHANGED wt => wt' = [wt EXCEPT ![w] = wt[w]] /\ wt'[w] = wt[w])
BY TreesKept, MergeTypes DEF MergeInv

\* Aborting ends a merge: its own, which merged nothing, or another's.
LEMMA AbortMergeKeeps ==
  ASSUME MergeInv, NEW w \in Worktrees, AbortMerge(w), UNCHANGED <<gate, touches>> PROVE MergeInv'
<1>1. call[w].pc = "abort_merge" /\ UNCHANGED <<wt, remote, tracking>>
  BY DEF AbortMerge, At
<1>2. wt[w].exists /\ wt[w].branched /\ call[w].state = "none"
  BY <1>1, Past DEF TreeStands, CallOrderly, At
<1>3. PICK s \in {"MAIN_REPO_MERGE_ABORTED", "MAIN_REPO_DIRTY_ABORT_FAILED"} :
        /\ Answer(w, s)
        /\ \/ /\ s = "MAIN_REPO_MERGE_ABORTED" /\ main.merging # Nobody
              /\ main' = [main EXCEPT !.merging = Nobody, !.crossed = @ \/ main.merging # w]
           \/ s = "MAIN_REPO_DIRTY_ABORT_FAILED" /\ main' = [main EXCEPT !.told = TRUE]
  BY DEF AbortMerge
<1>4. s \in MergeState
  BY DEF MergeState
<1>5. PICK c \in CallRec :
         /\ call' = [call EXCEPT ![w] = c] /\ c.pc = "idle"
         /\ c.state = s /\ c.step = "other" /\ c.tested = call[w].tested
         /\ c.late = call[w].late /\ c.merged = call[w].merged /\ c.strayed = call[w].strayed
  BY <1>3, <1>4, Past, Answers
<1>6. call'[w] = c /\ wt'[w] = wt[w] /\ wt' = [wt EXCEPT ![w] = wt[w]]
  BY <1>1, <1>5, Past
<1>7. /\ main' \in MainRec /\ main'.log = main.log /\ main'.stray = main.stray
      /\ main'.onBase = main.onBase /\ main'.merging \in {main.merging, Nobody}
      /\ (main.told => main'.told) /\ (main.crossed => main'.crossed)
      /\ s = "MAIN_REPO_DIRTY_ABORT_FAILED" => main'.told
      /\ s = "MAIN_REPO_MERGE_ABORTED" => /\ main'.merging = Nobody
                                          /\ ~main'.crossed => main.merging = w
  <2>1. CASE s = "MAIN_REPO_MERGE_ABORTED" /\
             main' = [main EXCEPT !.merging = Nobody, !.crossed = @ \/ main.merging # w]
    <3> DEFINE x == main.crossed \/ main.merging # w
    <3>1. x \in BOOLEAN /\ main' = [main EXCEPT !.merging = Nobody, !.crossed = x]
      BY <2>1, Past DEF MainRec
    <3> HIDE DEF x
    <3>2. /\ main' \in MainRec /\ main'.log = main.log /\ main'.stray = main.stray
          /\ main'.onBase = main.onBase /\ main'.merging = Nobody /\ main'.told = main.told
          /\ main'.crossed = x
      BY <3>1, Past DEF MainRec
    <3> QED BY <2>1, <3>2 DEF x
  <2>2. CASE s = "MAIN_REPO_DIRTY_ABORT_FAILED" /\ main' = [main EXCEPT !.told = TRUE]
    BY <2>2, Past DEF MainRec
  <2> QED BY <1>3, <2>1, <2>2
<1>8. TreeStands(w)'
  BY <1>2, <1>5, <1>6, Past DEF TreeStands, Landing, Unrebased
<1>9. CallOrderly(w)'
  <2>1. c.pc \notin Unmerged \union Landing \union Verified \union {"verify", "rebase"} /\ ~Succeeded(w)'
    BY <1>5, <1>6 DEF Unmerged, Landing, Verified, Succeeded
  <2>2. main'.merging = w => call'[w].merged = {} /\ main'.told
    <3> SUFFICES ASSUME main'.merging = w PROVE call'[w].merged = {} /\ main'.told
      OBVIOUS
    <3>1. main'.merging # Nobody
      BY MergeAssumption
    <3>2. s = "MAIN_REPO_DIRTY_ABORT_FAILED" /\ main.merging = w
      BY <1>7, <3>1
    <3>3. call[w].merged = {}
      BY <3>2, Past DEF CallOrderly
    <3> QED BY <1>5, <1>6, <1>7, <3>2, <3>3
  <2> QED BY <1>1, <1>5, <1>6, <2>1, <2>2, Past DEF CallOrderly, At
<1>10. AnswerTrue(w)'
  <2>1. s = "MAIN_REPO_MERGE_ABORTED" /\ ~main'.crossed => call[w].merged = {}
    BY <1>7, Past DEF CallOrderly
  <2> QED BY <1>2, <1>5, <1>6, <2>1 DEF AnswerTrue, At
<1>11. Grows /\ remote' \in SUBSET Commits /\ tracking' \in (SUBSET Commits) \union {Unpublished}
       /\ touches' \in 0..MaxTouches /\ wt[w] \in TreeRec
  BY <1>1, <1>7, Past DEF Grows
<1> QED BY <1>5, <1>6, <1>7, <1>8, <1>9, <1>10, <1>11, OneKeeps

\* The steps after the merge: what their new records must satisfy.
LEMMA AfterTheMerge ==
  ASSUME MergeInv, NEW w \in Worktrees, NEW t \in TreeRec, NEW c \in CallRec,
         wt' = [wt EXCEPT ![w] = t], call' = [call EXCEPT ![w] = c],
         UNCHANGED <<gate, main, remote, tracking, touches>>,
         call[w].pc \in Landing, t.work = wt[w].work,
         c.tested = call[w].tested, c.late = call[w].late, c.merged = call[w].merged,
         c.strayed = call[w].strayed,
         \/ c.pc \in Landing /\ c.state = "none"
         \/ c.pc = "idle" /\ c.state \in {"MERGE_SUCCEEDED", "MERGE_SUCCEEDED_CLEANUP_BLOCKED"},
         \/ t.exists /\ t.branched
         \/ c.pc = "branch"
         \/ c.pc = "idle" /\ c.state = "MERGE_SUCCEEDED"
  PROVE  MergeInv'
<1>1. wt'[w] = t /\ call'[w] = c /\ UNCHANGED main
  BY Past
<1>2. call[w].pc \notin Unmerged \union Verified \union {"idle", "abort_merge"}
      /\ c.pc \notin Unmerged \union Verified \union Unrebased \union {"rebase", "verify"}
  BY DEF Landing, Unmerged, Verified, Unrebased
<1>3. TreeStands(w)'
  BY <1>1, <1>2, Past DEF TreeStands, At
<1>4. CallOrderly(w)'
  <2>1. /\ gate => c.merged \subseteq c.tested \union c.late
        /\ c.merged # {}
        /\ c.merged \subseteq main.log \union (IF c.strayed THEN main.stray ELSE {})
    BY Past DEF CallOrderly
  <2>2. main.merging = w => c.merged = {} /\ main.told
    BY <1>2, Past DEF CallOrderly, At
  <2> QED BY <1>1, <1>2, <2>1, <2>2 DEF CallOrderly, At, Succeeded
<1>5. AnswerTrue(w)'
  BY <1>1 DEF AnswerTrue, At, Landing
<1>6. Grows /\ main' \in MainRec /\ main'.merging = main.merging /\ remote' \in SUBSET Commits
      /\ tracking' \in (SUBSET Commits) \union {Unpublished} /\ touches' \in 0..MaxTouches
  BY Past DEF Grows
<1> QED BY <1>3, <1>4, <1>5, <1>6, OneKeeps

LEMMA EditableGuardKeeps ==
  ASSUME MergeInv, NEW w \in Worktrees, EditableGuard(w), UNCHANGED <<gate, touches>> PROVE MergeInv'
<1>1. call[w].pc = "guard" /\ call[w].pc \in Landing /\ UNCHANGED <<wt, main, remote, tracking>>
  BY DEF EditableGuard, At, Landing, Shared
<1>2. wt[w].exists /\ wt[w].branched /\ call[w].state = "none"
      /\ wt[w] \in TreeRec /\ wt' = [wt EXCEPT ![w] = wt[w]] /\ MergeTypeOK
  BY <1>1, Past DEF TreeStands, CallOrderly, At
<1>3. CASE Answer(w, "MERGE_SUCCEEDED_CLEANUP_BLOCKED")
  <2>1. "MERGE_SUCCEEDED_CLEANUP_BLOCKED" \in MergeState
    BY DEF MergeState
  <2>2. PICK c \in CallRec :
           /\ call' = [call EXCEPT ![w] = c] /\ c.pc = "idle"
           /\ c.state = "MERGE_SUCCEEDED_CLEANUP_BLOCKED" /\ c.tested = call[w].tested
           /\ c.late = call[w].late /\ c.merged = call[w].merged /\ c.strayed = call[w].strayed
    BY <1>2, <1>3, <2>1, Answers
  <2> QED BY <1>1, <1>2, <2>2, AfterTheMerge
<1>4. CASE Goto(w, "remove")
  <2>1. "remove" \in Steps /\ "remove" \in Landing
    BY DEF Steps, Landing
  <2>2. PICK c \in CallRec :
           /\ call' = [call EXCEPT ![w] = c] /\ c.pc = "remove"
           /\ c.state = call[w].state /\ c.tested = call[w].tested
           /\ c.late = call[w].late /\ c.merged = call[w].merged /\ c.strayed = call[w].strayed
    BY <1>2, <1>4, <2>1, Goes
  <2> QED BY <1>1, <1>2, <2>1, <2>2, AfterTheMerge
<1> QED BY <1>3, <1>4 DEF EditableGuard

LEMMA RemoveKeeps ==
  ASSUME MergeInv, NEW w \in Worktrees, RemoveWorktree(w), UNCHANGED <<gate, touches>> PROVE MergeInv'
<1> DEFINE gone == [wt[w] EXCEPT !.exists = FALSE, !.dirty = FALSE, !.generated = "none"]
<1>1. call[w].pc = "remove" /\ call[w].pc \in Landing /\ UNCHANGED <<main, remote, tracking>>
      /\ Goto(w, "branch") /\ "branch" \in Steps /\ "branch" \in Landing
  BY DEF RemoveWorktree, At, Landing, Shared, Steps
<1>2. call[w].state = "none" /\ wt[w] \in TreeRec /\ MergeTypeOK
      /\ (UNCHANGED wt => wt' = [wt EXCEPT ![w] = wt[w]])
  BY <1>1, Past DEF CallOrderly, At
<1>3. gone \in TreeRec /\ gone.work = wt[w].work
  BY <1>2 DEF TreeRec
<1>4. wt' = wt \/ wt' = [wt EXCEPT ![w] = gone]
  BY DEF RemoveWorktree
<1> HIDE DEF gone
<1>5. PICK t \in TreeRec : wt' = [wt EXCEPT ![w] = t] /\ t.work = wt[w].work
  BY <1>2, <1>3, <1>4
<1>6. PICK c \in CallRec :
         /\ call' = [call EXCEPT ![w] = c] /\ c.pc = "branch"
         /\ c.state = call[w].state /\ c.tested = call[w].tested
         /\ c.late = call[w].late /\ c.merged = call[w].merged /\ c.strayed = call[w].strayed
  BY <1>1, <1>2, Goes
<1> QED BY <1>1, <1>2, <1>5, <1>6, AfterTheMerge

LEMMA DeleteBranchKeeps ==
  ASSUME MergeInv, NEW w \in Worktrees, DeleteBranch(w), UNCHANGED <<gate, touches>> PROVE MergeInv'
<1> DEFINE gone == [wt[w] EXCEPT !.branched = FALSE]
<1>1. call[w].pc = "branch" /\ call[w].pc \in Landing /\ UNCHANGED <<main, remote, tracking>>
      /\ Answer(w, "MERGE_SUCCEEDED") /\ "MERGE_SUCCEEDED" \in MergeState
  BY DEF DeleteBranch, At, Landing, Shared, MergeState
<1>2. wt[w] \in TreeRec /\ MergeTypeOK /\ (UNCHANGED wt => wt' = [wt EXCEPT ![w] = wt[w]])
  BY Past
<1>3. gone \in TreeRec /\ gone.work = wt[w].work
  BY <1>2 DEF TreeRec
<1>4. wt' = wt \/ wt' = [wt EXCEPT ![w] = gone]
  BY DEF DeleteBranch
<1> HIDE DEF gone
<1>5. PICK t \in TreeRec : wt' = [wt EXCEPT ![w] = t] /\ t.work = wt[w].work
  BY <1>2, <1>3, <1>4
<1>6. PICK c \in CallRec :
         /\ call' = [call EXCEPT ![w] = c] /\ c.pc = "idle"
         /\ c.state = "MERGE_SUCCEEDED" /\ c.tested = call[w].tested
         /\ c.late = call[w].late /\ c.merged = call[w].merged /\ c.strayed = call[w].strayed
  BY <1>1, <1>2, Answers
<1> QED BY <1>1, <1>2, <1>5, <1>6, AfterTheMerge

\* A call begins, or begins again: its worktree still stands.
LEMMA MergeWorktreeKeeps ==
  ASSUME MergeInv, NEW w \in Worktrees, MergeWorktree(w), UNCHANGED gate PROVE MergeInv'
<1> DEFINE c == [pc |-> "begin", state |-> "none", step |-> "none", tested |-> {},
                 late |-> {}, merged |-> {}, strayed |-> FALSE]
<1>1. call[w].pc = "idle" /\ call[w].state # "MERGE_SUCCEEDED" /\ UNCHANGED <<wt, main, remote, tracking>>
  BY DEF MergeWorktree, At, Shared
<1>2. touches' \in 0..MaxTouches
  BY Past, MergeAssumption DEF MergeWorktree
<1>3. /\ c \in CallRec /\ c.pc = "begin" /\ c.merged = {} /\ c.state = "none"
  BY DEF CallRec, Steps, MergeState
<1>4. call' = [call EXCEPT ![w] = c]
  BY DEF MergeWorktree
<1>5. /\ wt[w].exists /\ wt[w].branched /\ wt[w] \in TreeRec /\ wt' = [wt EXCEPT ![w] = wt[w]]
      /\ tracking' \in (SUBSET Commits) \union {Unpublished}
  BY <1>1, Past DEF TreeStands, At
<1> HIDE DEF c
<1>6. call[w].pc \in Before /\ c.pc \in Before
      /\ c.pc \notin Unrebased \union Verified \union {"verify", "rebase", "idle"}
  BY <1>1, <1>3 DEF Before, Unmerged, Unrebased, Verified
<1> QED BY <1>1, <1>2, <1>3, <1>4, <1>5, <1>6, BeforeMerge

LEMMA MergeStepKeeps == MergeInv /\ [MergeNext]_mergeVars => MergeInv'
<1> SUFFICES ASSUME MergeInv, [MergeNext]_mergeVars PROVE MergeInv'
  OBVIOUS
<1>1. CASE Touch
  BY <1>1, TouchKeeps
<1>2. ASSUME NEW w \in Worktrees, MergeStep(w) PROVE MergeInv'
  <2> USE <1>2
  <2>1. UNCHANGED <<gate, touches>>
    BY DEF MergeStep
  <2>2. CASE Begin(w)
    BY <2>1, <2>2, BeginKeeps
  <2>3. CASE StripGenerated(w)
    BY <2>1, <2>3, StripKeeps
  <2>4. CASE DirtyCheck(w)
    BY <2>1, <2>4, DirtyCheckKeeps
  <2>5. CASE TestGate(w, "test", "fetch") \/ TestGate(w, "retest", "verify")
    BY <2>1, <2>5, TestGateKeeps
  <2>6. CASE Fetch(w)
    BY <2>1, <2>6, FetchKeeps
  <2>7. CASE Preflight(w)
    BY <2>1, <2>7, PreflightKeeps
  <2>8. CASE Rebase(w)
    BY <2>1, <2>8, RebaseKeeps
  <2>9. CASE AbortRebase(w)
    BY <2>1, <2>9, AbortRebaseKeeps
  <2>10. CASE VerifyMergeTarget(w)
    BY <2>1, <2>10, VerifyKeeps
  <2>11. CASE MainStatus(w)
    BY <2>1, <2>11, MainStatusKeeps
  <2>12. CASE Merge(w)
    BY <2>1, <2>12, MergeKeeps
  <2>13. CASE AbortMerge(w)
    BY <2>1, <2>13, AbortMergeKeeps
  <2>14. CASE EditableGuard(w)
    BY <2>1, <2>14, EditableGuardKeeps
  <2>15. CASE RemoveWorktree(w)
    BY <2>1, <2>15, RemoveKeeps
  <2>16. CASE DeleteBranch(w)
    BY <2>1, <2>16, DeleteBranchKeeps
  <2> QED BY <2>2, <2>3, <2>4, <2>5, <2>6, <2>7, <2>8, <2>9, <2>10, <2>11, <2>12, <2>13,
             <2>14, <2>15, <2>16 DEF MergeStep
<1>3. ASSUME NEW w \in Worktrees, MergeWorktree(w), UNCHANGED gate PROVE MergeInv'
  BY <1>3, MergeWorktreeKeeps
<1>4. CASE UNCHANGED mergeVars
  <2>1. MergeTypeOK'
    BY <1>4 DEF MergeInv, MergeTypeOK, mergeVars
  <2>2. ASSUME NEW v \in Worktrees PROVE TreeStands(v)' /\ CallOrderly(v)' /\ AnswerTrue(v)'
    BY <1>4, OthersKeep DEF Grows, mergeVars
  <2> QED BY <2>1, <2>2 DEF MergeInv
<1> QED BY <1>1, <1>2, <1>3, <1>4 DEF MergeNext

\* However calls for several worktrees, agents and people interleave on one main
\* checkout, and whichever git commands fail or time out: no work goes with its
\* branch, what is merged was tested, success means merged, an interrupted merge
\* is told of, and an answer's state is the state of the world.
THEOREM MergeIsSafe == MergeSpec => []MergeSafe
BY MergeInitInv, MergeStepKeeps, MergeInvSafe, PTL DEF MergeSpec
=============================================================================
