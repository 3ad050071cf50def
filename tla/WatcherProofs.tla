---------------------------- MODULE WatcherProofs ----------------------------
(***************************************************************************)
(* Proofs about the two GitHub watchers and the train of pull requests,    *)
(* for any timeouts, retries and limits, and whatever GitHub does.         *)
(***************************************************************************)
EXTENDS MergeQueueWatch, CIWatch, QueueTrain, FiniteSetTheorems, TLAPS

(***************************************************************************)
(* The train.  The pull requests before the current one have merged and    *)
(* those after it have not been entered; a fix that CI has not passed is   *)
(* the current one's, at the steps between its push and CI's word; and a   *)
(* branch that is about to be pushed has the commits its remote ref shows, *)
(* unless it was worked on as the clone had it.                            *)
(***************************************************************************)
Untested == {"ci_watch_post_queue_fix", "check_ci_post_queue_loop", "failed"}
ToPush == {"push_ejected_fix", "push_rebased_next_pr", "wait_dequeue_retry"}

Kept(p) == p \in reused \/ clonedHead[p].edits >= seenHead[p].edits

TrainFits ==
  /\ fixTested \in [Cars -> BOOLEAN] /\ outside \in 0..MaxOutside
  /\ baseAt <= car + outside + (IF prs[car].is = "merged" THEN 1 ELSE 0)
  /\ \A p \in Cars :
       {prs[p].head.edits, clonedHead[p].edits, seenHead[p].edits} \subseteq 0..outside
InOrder ==
  /\ \A p \in Cars : (p < car => prs[p].is = "merged") /\ (p > car => prs[p].is = "open")
  /\ station \in {"advance_queue_pr", "landed"} => prs[car].is = "merged"
  /\ station = "landed" => car = Train
FixesTested == \A p \in Cars : fixTested[p] \/ (p = car /\ station \in Untested)
WorkKept == (station \in ToPush => Kept(car)) /\ LostOnlyReused

TrainInv == TrainTypeOK /\ TrainFits /\ InOrder /\ FixesTested /\ WorkKept

(***************************************************************************)
(* The merge queue.  As long as the pull request has not been in the queue *)
(* unseen, the looks counted outside the queue are looks that hid a merge, *)
(* and there are not enough of them for a verdict.                         *)
(***************************************************************************)
Judging == {"left", "settle", "disabled", "confirmed", "toggled"}
Outside == {"out", "auto", "closed"}

LooksCounted ==
  /\ mpc = "new" => ~was
  /\ ~missed =>
       /\ place = "queued" => cycles = 0 /\ was /\ mpc \notin Judging /\ result \notin Blames
       /\ place = "landed" => cycles <= hidden /\ result \notin Blames
       /\ place = "merged" =>
            (cycles <= Lag \/ look.place = "merged") /\ result \notin Blames
ReasonKnown ==
  /\ place = "queued" => groups # <<>>
  /\ mpc = "settle" => ~was \/ cycles < Confirm
  /\ ~missed /\ place # "queued" /\ why = "failed" =>
       /\ groups # <<>> /\ groups[1] = "failed"
       /\ was \/ cache = "failed" \/ unheard
  /\ result = "DROPPED_HEALTHY" /\ ~missed /\ ~unheard => why # "failed"
Finished == mpc = "done" <=> result # Unset
Counting ==
  /\ mpc # "done" => unknown = 0 \/ unknown < MaxUnknown
  /\ mpc \in {"disabled", "confirmed", "toggled"} => stalls < MaxStalls

MQInv == MQTypeOK /\ LooksCounted /\ ReasonKnown /\ Finished /\ Counting /\ PatientWithCI

(***************************************************************************)
(* CI.  What is followed or reported is a run of the commit waited for,    *)
(* which is the caller's as far as git tells; and between two polls the    *)
(* newest run of the last one is not a run of it that could be reported.   *)
(***************************************************************************)
Overlooked ==
  looked > 0 /\ Len(runs) - looked < Page
    => runs[looked].stale \/ goal \notin {AnyCommit, runs[looked].sha}
Waiting == {"lookback", "active", "recheck", "sleep", "follow", "ended"}
ToolSteps == {"view", "commit", "push", "reset"}

CIVerdicts == [conclusion : Conclusions \union {"none"}, run : 0..MaxRuns]
CIFits ==
  /\ verdict \in CIVerdicts /\ verdict.run <= Len(runs) /\ looked <= Len(runs) /\ found <= Len(runs)
  /\ cpc = "new" => runs = <<>>
  /\ cpc \in {"new", "lookback"} => time = Patience
  /\ cpc \in {"recheck", "sleep"} => time > 0
GoalTold ==
  /\ cpc \in Waiting \union {"push"} /\ ~foggy => goal = local
  /\ cpc = "follow" => found # NoRun /\ Matches(found)
  /\ cpc \in {"ended", "done"} /\ verdict.run # NoRun /\ ~foggy => runs[verdict.run].sha = local
  /\ cpc \in {"ended", "done"} /\ verdict.conclusion = "no_runs" => verdict.run = NoRun
  /\ cpc \in ToolSteps => verdict.run = NoRun
NothingOverlooked ==
  /\ Patience = 0 => looked = 0
  /\ cpc = "recheck" /\ looked > 0 => runs[looked].status # "active" \/ ~Matches(looked)
  /\ cpc = "sleep" \/ (cpc = "active" /\ time < Patience) => Overlooked
  /\ cpc = "ended" /\ verdict.conclusion = "no_runs" => Overlooked
TriggerUndone ==
  ~triggered /\ ~foggy => remote # "trigger" /\ (cpc \in {"push", "reset"} \/ local = "head")

CIInv == CITypeOK /\ CIFits /\ GoalTold /\ NothingOverlooked /\ TriggerUndone

LEMMA TrainNumbers == Train \in Nat /\ Train > 0 /\ MaxOutside \in Nat /\ 1 \in Cars
BY TrainAssumption DEF Cars

BranchHead == [on : Nat, edits : Nat]
Car == [is : {"open", "queued", "merged"}, head : BranchHead]

\* The types and bounds, one by one.
TrainBounds ==
  /\ station \in Stations /\ car \in Cars /\ baseAt \in Nat /\ tracking \in Nat /\ outside \in Nat
  /\ prs \in [Cars -> Car] /\ clonedHead \in [Cars -> BranchHead] /\ seenHead \in [Cars -> BranchHead]
  /\ fixTested \in [Cars -> BOOLEAN]
  /\ outside <= MaxOutside /\ tracking <= baseAt /\ 1 <= baseAt
  /\ baseAt <= car + outside + (IF prs[car].is = "merged" THEN 1 ELSE 0)
  /\ \A p \in Cars :
       /\ prs[p].head.on <= baseAt /\ prs[p].head.edits <= outside
       /\ clonedHead[p].on <= baseAt /\ clonedHead[p].edits <= outside
       /\ seenHead[p].on <= baseAt /\ seenHead[p].edits <= outside

LEMMA TrainParts ==
  ASSUME TrainInv
  PROVE  TrainBounds /\ InOrder /\ FixesTested /\ WorkKept
<1>1. TrainTypeOK /\ TrainFits
  BY DEF TrainInv
<1>2. car \in Nat /\ 1 <= car /\ car <= Train
  BY <1>1, TrainNumbers DEF TrainTypeOK, Cars
<1>3. baseAt \in Nat /\ tracking \in Nat /\ outside \in Nat /\ outside <= MaxOutside /\ tracking <= baseAt
      /\ 1 <= baseAt
  BY <1>1, TrainNumbers DEF TrainTypeOK, TrainFits
<1>4. \A b \in Branches : b \in BranchHead /\ b.on <= baseAt
  BY <1>3, TrainNumbers DEF Branches, BranchHead
<1>5. \A p \in Cars : /\ prs[p] \in Car /\ prs[p].head \in Branches
                      /\ clonedHead[p] \in Branches /\ seenHead[p] \in Branches
  BY <1>1, <1>4 DEF TrainTypeOK, Car
<1>6. \A p \in Cars : prs[p].head.edits <= outside /\ clonedHead[p].edits <= outside
                      /\ seenHead[p].edits <= outside
  BY <1>1, <1>3 DEF TrainFits
<1>7. /\ prs \in [Cars -> Car] /\ clonedHead \in [Cars -> BranchHead] /\ seenHead \in [Cars -> BranchHead]
      /\ fixTested \in [Cars -> BOOLEAN]
  BY <1>1, <1>4, <1>5 DEF TrainTypeOK, TrainFits
<1> QED BY <1>1, <1>2, <1>3, <1>4, <1>5, <1>6, <1>7 DEF TrainBounds, TrainFits, TrainTypeOK, TrainInv

LEMMA TrainMade ==
  ASSUME TrainBounds', InOrder', FixesTested', WorkKept'
  PROVE  TrainInv'
<1>1. (car' \in Nat /\ 1 <= car' /\ car' <= Train) /\ car' \in Cars
  BY TrainNumbers DEF TrainBounds, Cars
<1>2. baseAt' \in 1..(1 + Train + MaxOutside) /\ tracking' \in 0..baseAt'
  <2>1. /\ baseAt' \in Nat /\ tracking' \in Nat /\ outside' \in Nat /\ outside' <= MaxOutside
        /\ 1 <= baseAt' /\ tracking' <= baseAt'
        /\ baseAt' <= car' + outside' + (IF prs'[car'].is = "merged" THEN 1 ELSE 0)
    BY DEF TrainBounds
  <2>2. baseAt' <= car' + outside' + 1
    BY <1>1, <2>1
  <2>3. \A b, c, o, t, m \in Nat : b <= c + o + 1 /\ c <= t /\ o <= m => b <= 1 + t + m
    OBVIOUS
  <2>4. baseAt' <= 1 + Train + MaxOutside
    BY <1>1, <2>1, <2>2, <2>3, TrainNumbers
  <2> QED BY <2>1, <2>4
<1>3. station' \in Stations
  BY DEF TrainBounds
<1>4. \A p \in Cars :
        /\ prs'[p].is \in {"open", "queued", "merged"} /\ prs'[p].head \in BranchHead
        /\ clonedHead'[p] \in BranchHead /\ seenHead'[p] \in BranchHead
  BY DEF TrainBounds, Car
<1>5. \A h \in BranchHead : h.on <= baseAt' /\ h.edits <= outside' => h \in Branches' /\ h.edits \in 0..outside'
  BY <1>1, TrainNumbers DEF TrainBounds, BranchHead, Branches
<1>6. \A p \in Cars :
        /\ prs'[p].head \in Branches' /\ clonedHead'[p] \in Branches' /\ seenHead'[p] \in Branches'
        /\ {prs'[p].head.edits, clonedHead'[p].edits, seenHead'[p].edits} \subseteq 0..outside'
  BY <1>4, <1>5 DEF TrainBounds
<1>7. /\ prs' \in [Cars -> [is : {"open", "queued", "merged"}, head : Branches']]
      /\ clonedHead' \in [Cars -> Branches'] /\ seenHead' \in [Cars -> Branches']
  BY <1>6 DEF TrainBounds, Car
<1>8. TrainTypeOK'
  BY <1>1, <1>2, <1>3, <1>7 DEF TrainTypeOK
<1>9. TrainFits'
  BY <1>6 DEF TrainFits, TrainBounds
<1> QED BY <1>8, <1>9 DEF TrainInv

LEMMA TrainInitInv == TrainInit => TrainInv
<1> SUFFICES ASSUME TrainInit PROVE TrainInv
  OBVIOUS
<1>1. TrainTypeOK
  BY TrainNumbers DEF TrainInit, TrainTypeOK, Stations, Branches, Cars, NoBranch
<1>2. TrainFits
  BY TrainNumbers DEF TrainInit, TrainFits, Cars, NoBranch
<1>3. InOrder /\ FixesTested /\ WorkKept
  BY TrainNumbers DEF TrainInit, InOrder, FixesTested, WorkKept, LostOnlyReused, ToPush, Cars
<1> QED BY <1>1, <1>2, <1>3 DEF TrainInv

\* Only the step changes.
LEMMA MovesOn ==
  ASSUME TrainInv, station' \in Stations, UNCHANGED <<car, github, clone>>,
         station' = "advance_queue_pr" => prs[car].is = "merged", station' # "landed",
         station' \in Untested \/ station \notin Untested,
         station' \in ToPush => station \in ToPush
  PROVE  TrainInv'
<1>1. UNCHANGED <<car, prs, baseAt, outside, tracking, clonedHead, seenHead, fixTested, reused, lost>>
  BY DEF github, clone
<1>2. TrainBounds'
  BY <1>1, TrainParts DEF TrainBounds
<1>3. InOrder'
  BY <1>1, TrainParts DEF InOrder
<1>4. FixesTested'
  BY <1>1, TrainParts DEF FixesTested
<1>5. WorkKept'
  BY <1>1, TrainParts DEF WorkKept, Kept, LostOnlyReused
<1> QED BY <1>2, <1>3, <1>4, <1>5, TrainMade

LEMMA WaitKeeps == TrainInv /\ (WaitQueue \/ DiagnoseQueueCI \/ WaitDequeue) => TrainInv'
<1> SUFFICES ASSUME TrainInv, WaitQueue \/ DiagnoseQueueCI \/ WaitDequeue PROVE TrainInv'
  OBVIOUS
<1>1. UNCHANGED <<car, github, clone>>
  BY DEF WaitQueue, DiagnoseQueueCI, WaitDequeue
<1>2. station' \in Stations /\ station' # "landed" /\ station \notin Untested
  BY DEF WaitQueue, DiagnoseQueueCI, WaitDequeue, WaitRoute, Goto, Stations, Untested, Terminus
<1>3. station' = "advance_queue_pr" => prs[car].is = "merged"
  BY DEF WaitQueue, DiagnoseQueueCI, WaitDequeue, WaitRoute, Goto, Verdicts
<1>4. station' \in ToPush => station \in ToPush
  BY DEF WaitQueue, DiagnoseQueueCI, WaitDequeue, WaitRoute, Goto, ToPush
<1> QED BY <1>1, <1>2, <1>3, <1>4, MovesOn

LEMMA LimitsKeep ==
  TrainInv /\ (CheckEjectLimit \/ CheckDroppedHealthyLoop \/ CheckStallLoop \/ CheckCILoop) => TrainInv'
<1> SUFFICES ASSUME TrainInv, CheckEjectLimit \/ CheckDroppedHealthyLoop \/ CheckStallLoop \/ CheckCILoop
             PROVE TrainInv'
  OBVIOUS
<1>1. UNCHANGED <<car, github, clone>>
  BY DEF CheckEjectLimit, CheckDroppedHealthyLoop, CheckStallLoop, CheckCILoop, check_loop_iteration
<1>2. \/ station \notin Untested
         /\ station' \in {"attempt_cheap_rebase", "failed", "reenter_queue", "wait_queue_pr"}
      \/ station' \in {"ci_watch_post_queue_fix", "failed"}
  BY DEF CheckEjectLimit, CheckDroppedHealthyLoop, CheckStallLoop, CheckCILoop, check_loop_iteration,
     Goto, Untested
<1>3. station' \in Stations /\ station' \notin ToPush \union {"landed", "advance_queue_pr"}
  BY <1>2 DEF Stations, Terminus, ToPush
<1>4. station' \in Untested \/ station \notin Untested
  BY <1>2 DEF Untested
<1> QED BY <1>1, <1>3, <1>4, MovesOn

LEMMA EnqueueKeeps ==
  ASSUME TrainInv, NEW step, NEW next, enqueue_pr(step, next), step \in Stations \ Untested,
         next \in {"wait_queue_pr", "check_queue_stall_loop"}
  PROVE  TrainInv'
<1>1. next \in Stations /\ next \notin ToPush \union {"landed", "advance_queue_pr"}
      /\ "failed" \in Untested /\ "failed" \in Stations /\ "failed" \notin ToPush
  BY DEF Stations, Terminus, ToPush, Untested
<1>2. UNCHANGED <<car, baseAt, outside, tracking, clonedHead, seenHead, fixTested, reused, lost>>
      /\ station = step
  BY DEF enqueue_pr, clone
<1>3. CASE Goto("failed") /\ UNCHANGED prs
  BY <1>1, <1>2, <1>3, MovesOn DEF Goto, github, clone
<1>4. CASE Goto(next) /\ prs[car].is # "merged" /\ prs' = [prs EXCEPT ![car].is = "queued"]
  <2>1. \A p \in Cars : /\ prs'[p] \in Car /\ prs'[p].head = prs[p].head
                        /\ prs'[p].is = (IF p = car THEN "queued" ELSE prs[p].is)
    BY <1>4, TrainParts DEF TrainBounds, Car
  <2>2. TrainBounds'
    BY <1>1, <1>2, <1>4, <2>1, TrainParts DEF TrainBounds, Goto
  <2>3. InOrder'
    BY <1>1, <1>2, <1>4, <2>1, TrainParts DEF InOrder, Goto, TrainBounds, Cars
  <2>4. FixesTested'
    BY <1>2, TrainParts DEF FixesTested
  <2>5. WorkKept'
    BY <1>1, <1>2, <1>4, TrainParts DEF WorkKept, Kept, LostOnlyReused, Goto
  <2> QED BY <2>2, <2>3, <2>4, <2>5, TrainMade
<1> QED BY <1>3, <1>4 DEF enqueue_pr

LEMMA EnqueuesKeep == TrainInv /\ (EnqueueCurrent \/ ReenterQueue \/ ReenrollStalled) => TrainInv'
BY EnqueueKeeps DEF EnqueueCurrent, ReenterQueue, ReenrollStalled, Stations, Untested

\* What others do only widens the bounds of what the clone has.
LEMMA BoundsGrow ==
  ASSUME TrainBounds, UNCHANGED <<station, car, tracking, clonedHead, seenHead, fixTested>>,
         baseAt' \in Nat, baseAt <= baseAt', outside' \in Nat, outside <= outside', outside' <= MaxOutside,
         prs' \in [Cars -> Car],
         \A q \in Cars : prs'[q].head.on <= baseAt' /\ prs'[q].head.edits <= outside',
         baseAt' <= car + outside' + (IF prs'[car].is = "merged" THEN 1 ELSE 0)
  PROVE  TrainBounds'
<1>1. \A a, b, c \in Nat : a <= b /\ b <= c => a <= c
  OBVIOUS
<1>2. \A q \in Cars :
        /\ clonedHead[q].on \in Nat /\ clonedHead[q].edits \in Nat
        /\ seenHead[q].on \in Nat /\ seenHead[q].edits \in Nat
  BY DEF TrainBounds, BranchHead
<1>3. \A q \in Cars :
        /\ clonedHead[q].on <= baseAt' /\ clonedHead[q].edits <= outside'
        /\ seenHead[q].on <= baseAt' /\ seenHead[q].edits <= outside'
  BY <1>1, <1>2 DEF TrainBounds
<1>4. tracking <= baseAt' /\ 1 <= baseAt'
  BY <1>1 DEF TrainBounds
<1> QED BY <1>3, <1>4 DEF TrainBounds

\* Others move the pull requests and the base; the clone and the recipe do not.
LEMMA WorldKeeps == TrainInv /\ World => TrainInv'
<1> SUFFICES ASSUME TrainInv, World PROVE TrainInv'
  OBVIOUS
<1>1. UNCHANGED <<station, car, tracking, clonedHead, seenHead, fixTested, reused, lost>>
  BY DEF World, QueueMerges, QueueEjects, AuthorPushes, Requeued, OtherMerges, clone
<1>2. FixesTested' /\ WorkKept'
  BY <1>1, TrainParts DEF FixesTested, WorkKept, Kept, LostOnlyReused
<1>3. ASSUME NEW p \in Cars, QueueMerges(p) PROVE TrainBounds' /\ InOrder'
  <2>1. p = car
    BY <1>3, TrainParts DEF QueueMerges, InOrder, TrainBounds, Cars
  <2>2. \A q \in Cars : /\ prs'[q] \in Car /\ prs'[q].head = prs[q].head
                        /\ prs'[q].is = (IF q = car THEN "merged" ELSE prs[q].is)
    BY <1>3, <2>1, TrainParts DEF TrainBounds, Car, QueueMerges
  <2>3. baseAt' = baseAt + 1 /\ UNCHANGED outside /\ prs[car].is = "queued"
        /\ prs' = [prs EXCEPT ![p].is = "merged"]
    BY <1>3, <2>1 DEF QueueMerges
  <2>4. \A q \in Cars : prs[q].head.on \in Nat /\ prs[q].head.on <= baseAt' /\ prs[q].head.edits <= outside'
    BY <2>3, TrainParts DEF TrainBounds, Car, BranchHead
  <2>5. baseAt' <= car + outside' + 1 /\ baseAt <= baseAt' /\ baseAt' \in Nat /\ car \in Cars
    BY <2>3, TrainParts DEF TrainBounds, Cars
  <2>6. prs' \in [Cars -> Car]
    BY <2>2, <2>3, TrainParts DEF TrainBounds
  <2>7. TrainBounds'
    BY <1>1, <2>2, <2>3, <2>4, <2>5, <2>6, TrainParts, BoundsGrow DEF TrainBounds
  <2>8. InOrder'
    BY <1>1, <2>2, TrainParts DEF InOrder, TrainBounds
  <2> QED BY <2>7, <2>8
<1>4. ASSUME NEW p \in Cars, QueueEjects(p) PROVE TrainBounds' /\ InOrder'
  <2>1. p = car
    BY <1>4, TrainParts DEF QueueEjects, InOrder, TrainBounds, Cars
  <2>2. \A q \in Cars : /\ prs'[q] \in Car /\ prs'[q].head = prs[q].head
                        /\ prs'[q].is = (IF q = car THEN "open" ELSE prs[q].is)
    BY <1>4, <2>1, TrainParts DEF TrainBounds, Car, QueueEjects
  <2>3. UNCHANGED <<baseAt, outside>> /\ prs[car].is = "queued"
        /\ prs' = [prs EXCEPT ![p].is = "open"]
    BY <1>4, <2>1 DEF QueueEjects
  <2>4. TrainBounds'
    BY <1>1, <2>2, <2>3, TrainParts DEF TrainBounds
  <2>5. InOrder'
    BY <1>1, <2>2, <2>3, TrainParts DEF InOrder, TrainBounds
  <2> QED BY <2>4, <2>5
<1>5. ASSUME NEW p \in Cars, Requeued(p) PROVE TrainBounds' /\ InOrder'
  <2>1. \A q \in Cars : /\ prs'[q] \in Car /\ prs'[q].head = prs[q].head
                        /\ prs'[q].is = (IF q = car THEN "queued" ELSE prs[q].is)
    BY <1>5, TrainParts DEF TrainBounds, Car, Requeued
  <2>2. UNCHANGED baseAt /\ outside' = outside + 1 /\ outside < MaxOutside /\ prs[car].is = "open"
        /\ prs' = [prs EXCEPT ![p].is = "queued"]
    BY <1>5 DEF Requeued
  <2>3. /\ outside' \in Nat /\ outside <= outside' /\ outside' <= MaxOutside
        /\ baseAt' <= car + outside' /\ car \in Cars
    BY <2>2, TrainParts, TrainNumbers DEF TrainBounds, Cars
  <2>4. \A q \in Cars : prs[q].head.edits \in Nat /\ prs[q].head.edits <= outside /\ prs[q].head.on <= baseAt'
    BY <2>2, TrainParts DEF TrainBounds, Car, BranchHead
  <2>5. \A q \in Cars : prs[q].head.edits <= outside'
    BY <2>3, <2>4, TrainParts DEF TrainBounds
  <2>6. prs' \in [Cars -> Car]
    BY <2>1, <2>2, TrainParts DEF TrainBounds
  <2>7. /\ baseAt' <= car + outside' + (IF prs'[car].is = "merged" THEN 1 ELSE 0)
         /\ baseAt' \in Nat /\ baseAt <= baseAt'
    <3>1. prs'[car].is # "merged" /\ car \in Nat /\ baseAt \in Nat
      BY <2>1, <2>3, TrainParts DEF Cars, TrainBounds
    <3> QED BY <3>1, <2>2, <2>3
  <2>8. \A q \in Cars : prs'[q].head.on <= baseAt' /\ prs'[q].head.edits <= outside'
    BY <2>1, <2>4, <2>5
  <2>9. TrainBounds'
    BY <1>1, <2>3, <2>6, <2>7, <2>8, TrainParts, BoundsGrow
  <2>10. InOrder'
    BY <1>1, <2>1, <2>2, TrainParts DEF InOrder, TrainBounds
  <2> QED BY <2>9, <2>10
<1>6. ASSUME NEW p \in Cars, AuthorPushes(p) PROVE TrainBounds' /\ InOrder'
  <2>1. \A q \in Cars : /\ prs'[q] \in Car /\ prs'[q].is = prs[q].is
                        /\ prs'[q].head.on = prs[q].head.on
                        /\ prs'[q].head.edits <= prs[q].head.edits + 1
    BY <1>6, TrainParts DEF TrainBounds, Car, BranchHead, AuthorPushes
  <2>2. UNCHANGED baseAt /\ outside' = outside + 1 /\ outside < MaxOutside
        /\ prs' = [prs EXCEPT ![p].head.edits = @ + 1]
    BY <1>6 DEF AuthorPushes
  <2>3. /\ outside' \in Nat /\ outside <= outside' /\ outside' <= MaxOutside
        /\ baseAt' <= car + outside' + (IF prs[car].is = "merged" THEN 1 ELSE 0) /\ car \in Cars
    BY <2>2, TrainParts, TrainNumbers DEF TrainBounds, Cars
  <2>4. \A q \in Cars : prs[q].head.edits \in Nat /\ prs[q].head.edits <= outside
                        /\ prs'[q].head.edits \in Nat
    BY <2>1, TrainParts DEF TrainBounds, Car, BranchHead
  <2>5. \A q \in Cars : prs'[q].head.edits <= outside' /\ prs'[q].head.on <= baseAt'
    BY <2>1, <2>2, <2>4, TrainParts DEF TrainBounds
  <2>6. prs' \in [Cars -> Car]
    BY <2>1, <2>2, TrainParts DEF TrainBounds
  <2>7. TrainBounds'
    BY <1>1, <2>1, <2>2, <2>3, <2>5, <2>6, TrainParts, BoundsGrow DEF TrainBounds
  <2>8. InOrder'
    BY <1>1, <2>1, TrainParts DEF InOrder, TrainBounds
  <2> QED BY <2>7, <2>8
<1>7. ASSUME OtherMerges PROVE TrainBounds' /\ InOrder'
  <2>1. UNCHANGED prs /\ outside' = outside + 1 /\ outside < MaxOutside /\ baseAt' = baseAt + 1
    BY <1>7 DEF OtherMerges
  <2>2. /\ outside' \in Nat /\ outside <= outside' /\ outside' <= MaxOutside
        /\ baseAt' \in Nat /\ baseAt <= baseAt'
        /\ baseAt' <= car + outside' + (IF prs[car].is = "merged" THEN 1 ELSE 0)
    BY <2>1, TrainParts, TrainNumbers DEF TrainBounds, Cars
  <2>3. \A q \in Cars : /\ prs[q].head.edits \in Nat /\ prs[q].head.edits <= outside
                        /\ prs[q].head.on \in Nat /\ prs[q].head.on <= baseAt
    BY TrainParts DEF TrainBounds, Car, BranchHead
  <2>4. \A q \in Cars : prs[q].head.edits <= outside' /\ prs[q].head.on <= baseAt'
    BY <2>2, <2>3, TrainParts DEF TrainBounds
  <2>5. TrainBounds'
    BY <1>1, <2>1, <2>2, <2>4, TrainParts, BoundsGrow DEF TrainBounds
  <2>6. InOrder'
    BY <1>1, <2>1, TrainParts DEF InOrder
  <2> QED BY <2>5, <2>6
<1>8. TrainBounds' /\ InOrder'
  BY <1>3, <1>4, <1>5, <1>6, <1>7 DEF World
<1> QED BY <1>2, <1>8, TrainMade

\* The clone's branches change, by a rebase or a session.
Fits(h) == h \in BranchHead /\ h.on <= baseAt /\ h.edits <= outside

LEMMA BranchesFit ==
  ASSUME TrainBounds
  PROVE  /\ \A p \in Cars : Fits(prs[p].head) /\ Fits(clonedHead[p]) /\ Fits(seenHead[p])
         /\ \A h : Fits(h) => /\ Fits(Rebased(h)) /\ Rebased(h).edits = h.edits
                              /\ Fits([on |-> baseAt, edits |-> h.edits])
BY DEF TrainBounds, Car, BranchHead, Fits, Rebased

LEMMA CloneWorks ==
  ASSUME TrainInv, station' \in Stations, station' \notin {"advance_queue_pr", "landed"},
         station \notin Untested,
         UNCHANGED <<car, prs, baseAt, outside, fixTested, lost>>, tracking' \in {tracking, baseAt},
         NEW h, Fits(h), clonedHead' = [clonedHead EXCEPT ![car] = h],
         seenHead' \in {seenHead, [seenHead EXCEPT ![car] = prs[car].head], [p \in Cars |-> prs[p].head]},
         reused \subseteq reused', station' \in ToPush => Kept(car)'
  PROVE  TrainInv'
<1>1. \A p \in Cars : Fits(prs[p].head) /\ Fits(clonedHead'[p]) /\ Fits(seenHead'[p])
  BY TrainParts, BranchesFit DEF TrainBounds
<1>2. clonedHead' \in [Cars -> BranchHead] /\ seenHead' \in [Cars -> BranchHead]
  BY <1>1, TrainParts, BranchesFit DEF TrainBounds, Fits
<1>3. tracking' \in Nat /\ tracking' <= baseAt
  BY TrainParts DEF TrainBounds
<1>4. TrainBounds'
  BY <1>1, <1>2, <1>3, TrainParts DEF TrainBounds, Fits
<1>5. InOrder'
  BY TrainParts DEF InOrder
<1>6. FixesTested'
  BY TrainParts DEF FixesTested
<1>7. WorkKept'
  BY TrainParts DEF WorkKept, LostOnlyReused
<1> QED BY <1>4, <1>5, <1>6, <1>7, TrainMade

LEMMA RebaseKeeps == TrainInv /\ (attempt_cheap_rebase \/ proactive_rebase_next_pr) => TrainInv'
<1> SUFFICES ASSUME TrainInv PROVE attempt_cheap_rebase \/ proactive_rebase_next_pr => TrainInv'
  OBVIOUS
<1>1. car \in Cars /\ clonedHead \in [Cars -> BranchHead] /\ seenHead \in [Cars -> BranchHead]
  BY TrainParts DEF TrainBounds
<1>2. clonedHead = [clonedHead EXCEPT ![car] = clonedHead[car]]
  BY <1>1
<1>3. Fits(prs[car].head) /\ Fits(clonedHead[car])
  BY <1>1, TrainParts, BranchesFit
<1>4. ASSUME attempt_cheap_rebase PROVE TrainInv'
  <2> DEFINE head == IF clonedHead[car] # NoBranch THEN clonedHead[car] ELSE prs[car].head
  <2>1. /\ station = "attempt_cheap_rebase" /\ station \notin Untested
        /\ UNCHANGED <<car, prs, baseAt, outside, tracking, fixTested, lost>>
    BY <1>4 DEF attempt_cheap_rebase, github, Untested
  <2>2. \/ /\ seenHead' = [seenHead EXCEPT ![car] = prs[car].head]
           /\ reused' = IF clonedHead[car] # NoBranch THEN reused \union {car} ELSE reused
           /\ \/ station' = "push_ejected_fix" /\ clonedHead' = [clonedHead EXCEPT ![car] = Rebased(head)]
              \/ station' = "resolve_ejected_conflicts" /\ clonedHead' = [clonedHead EXCEPT ![car] = head]
        \/ station' = "resolve_ejected_conflicts" /\ UNCHANGED <<seenHead, reused, clonedHead>>
    BY <1>4 DEF attempt_cheap_rebase, Goto
  <2>3. Fits(head)
    BY <1>3
  <2>4. Fits(Rebased(head)) /\ Rebased(head).edits = head.edits
    BY <2>3, TrainParts, BranchesFit
  <2>5. /\ station' \in Stations /\ station' \notin {"advance_queue_pr", "landed"}
        /\ station' \in ToPush => station' = "push_ejected_fix"
    BY <2>2 DEF Stations, ToPush
  <2>6. ASSUME station' = "push_ejected_fix" PROVE Kept(car)'
    <3>1. /\ reused' = IF clonedHead[car] # NoBranch THEN reused \union {car} ELSE reused
          /\ clonedHead'[car] = Rebased(head) /\ seenHead'[car] = prs[car].head
      BY <1>1, <2>2, <2>6
    <3>2. prs[car].head.edits \in Nat
      BY <1>3 DEF Fits, BranchHead
    <3> QED BY <2>1, <2>4, <3>1, <3>2 DEF Kept
  <2> HIDE DEF head
  <2>7. PICK h : Fits(h) /\ clonedHead' = [clonedHead EXCEPT ![car] = h]
    BY <1>2, <1>3, <2>2, <2>3, <2>4
  <2> QED BY <2>1, <2>2, <2>5, <2>6, <2>7, CloneWorks
<1>5. ASSUME proactive_rebase_next_pr PROVE TrainInv'
  <2> DEFINE head == prs[car].head
  <2>1. /\ station = "proactive_rebase_next_pr" /\ station \notin Untested
        /\ UNCHANGED <<car, prs, baseAt, outside, tracking, fixTested, lost, reused>>
    BY <1>5 DEF proactive_rebase_next_pr, github, Untested
  <2>2. \/ /\ seenHead' = [seenHead EXCEPT ![car] = prs[car].head]
           /\ \/ station' = "push_rebased_next_pr" /\ clonedHead' = [clonedHead EXCEPT ![car] = Rebased(head)]
              \/ station' = "resolve_proactive_rebase_conflicts"
                 /\ clonedHead' = [clonedHead EXCEPT ![car] = head]
        \/ station' = "enqueue_current_pr" /\ UNCHANGED <<seenHead, clonedHead>>
    BY <1>5 DEF proactive_rebase_next_pr, CheckedOutAfresh, Goto
  <2>3. Fits(head)
    BY <1>3
  <2>4. Fits(Rebased(head)) /\ Rebased(head).edits = head.edits
    BY <2>3, TrainParts, BranchesFit
  <2>5. /\ station' \in Stations /\ station' \notin {"advance_queue_pr", "landed"}
        /\ station' \in ToPush => station' = "push_rebased_next_pr"
    BY <2>2 DEF Stations, ToPush
  <2>6. ASSUME station' = "push_rebased_next_pr" PROVE Kept(car)'
    <3>1. clonedHead'[car] = Rebased(head) /\ seenHead'[car] = prs[car].head
      BY <1>1, <2>2, <2>6
    <3>2. prs[car].head.edits \in Nat
      BY <1>3 DEF Fits, BranchHead
    <3> QED BY <2>1, <2>4, <3>1, <3>2 DEF Kept
  <2> HIDE DEF head
  <2>7. PICK h : Fits(h) /\ clonedHead' = [clonedHead EXCEPT ![car] = h]
    BY <1>2, <1>3, <2>2, <2>3, <2>4
  <2> QED BY <2>1, <2>2, <2>5, <2>6, <2>7, CloneWorks
<1> QED BY <1>4, <1>5

LEMMA ResolveKeeps ==
  ASSUME TrainInv, NEW step, NEW pushes \in ToPush, NEW gives_up, ResolveConflicts(step, pushes, gives_up),
         step \in Stations \ Untested, gives_up \in {"failed", "enqueue_current_pr"}
  PROVE  TrainInv'
<1>1. car \in Cars /\ clonedHead \in [Cars -> BranchHead] /\ seenHead \in [Cars -> BranchHead]
  BY TrainParts DEF TrainBounds
<1>2. clonedHead = [clonedHead EXCEPT ![car] = clonedHead[car]]
  BY <1>1
<1>3. Fits(prs[car].head) /\ Fits(clonedHead[car])
  BY <1>1, TrainParts, BranchesFit
<1>4. /\ station \notin Untested /\ UNCHANGED <<car, prs, baseAt, outside, fixTested, lost>>
  BY DEF ResolveConflicts, github
<1>5. CASE /\ tracking' \in {tracking, baseAt} /\ station' \in {"failed", "enqueue_current_pr"}
           /\ UNCHANGED <<seenHead, clonedHead, reused>>
  <2>1. station' \in Stations /\ station' \notin ToPush \union {"advance_queue_pr", "landed"}
    BY <1>5 DEF Stations, ToPush, Terminus
  <2> QED BY <1>2, <1>3, <1>4, <1>5, <2>1, CloneWorks
<1>6. CASE /\ tracking' = baseAt /\ seenHead' = [p \in Cars |-> prs[p].head] /\ station' = pushes
           /\ clonedHead' = [clonedHead EXCEPT ![car] =
                [on |-> baseAt, edits |-> IF @ = NoBranch THEN prs[car].head.edits ELSE @.edits]]
           /\ reused' = IF clonedHead[car] # NoBranch THEN reused \union {car} ELSE reused
  <2>1. PICK h : /\ h \in {prs[car].head, clonedHead[car]}
                 /\ clonedHead[car] = NoBranch => h = prs[car].head
                 /\ clonedHead' = [clonedHead EXCEPT ![car] = [on |-> baseAt, edits |-> h.edits]]
    <3>1. CASE clonedHead[car] = NoBranch
      BY <1>1, <1>6, <3>1
    <3>2. CASE clonedHead[car] # NoBranch
      BY <1>1, <1>6, <3>2
    <3> QED BY <3>1, <3>2
  <2>2. Fits([on |-> baseAt, edits |-> h.edits])
    BY <1>3, <2>1, TrainParts, BranchesFit
  <2>3. station' \in Stations /\ station' \notin {"advance_queue_pr", "landed"}
    BY <1>6 DEF Stations, ToPush
  <2>4. Kept(car)'
    <3>1. clonedHead'[car].edits = h.edits /\ seenHead'[car] = prs[car].head
      BY <1>1, <1>6, <2>1
    <3>2. prs[car].head.edits \in Nat
      BY <1>3 DEF Fits, BranchHead
    <3> QED BY <1>4, <1>6, <2>1, <3>1, <3>2 DEF Kept
  <2> QED BY <1>4, <1>6, <2>1, <2>2, <2>3, <2>4, CloneWorks
<1> QED BY <1>5, <1>6 DEF ResolveConflicts, Goto

LEMMA ResolvesKeep == TrainInv /\ (ResolveEjected \/ ResolveProactive) => TrainInv'
<1>1. /\ {"push_ejected_fix", "push_rebased_next_pr"} \subseteq ToPush
      /\ {"resolve_ejected_conflicts", "resolve_proactive_rebase_conflicts"} \subseteq Stations \ Untested
  BY DEF ToPush, Stations, Untested
<1> QED BY <1>1, ResolveKeeps DEF ResolveEjected, ResolveProactive

LEMMA PushKeeps ==
  ASSUME TrainInv, station \in ToPush, NEW next, NEW refused, Pushes(next, refused),
         next \in {"ci_watch_post_queue_fix", "enqueue_current_pr"},
         refused \in {"wait_dequeue_retry", "failed"}
  PROVE  TrainInv'
<1>1. UNCHANGED <<car, baseAt, outside, tracking, clonedHead, reused>> /\ station \notin Untested
  BY DEF Pushes, ToPush, Untested
<1>2. CASE station' \in {refused, "failed"} /\ UNCHANGED <<prs, seenHead, fixTested, lost>>
  <2>1. /\ station' \in Stations /\ station' \notin {"advance_queue_pr", "landed"}
    BY <1>2 DEF Stations, Terminus
  <2> QED BY <1>1, <1>2, <2>1, MovesOn DEF github, clone
<1>3. CASE /\ prs[car].head = seenHead[car] /\ prs[car].is # "queued" /\ station' = next
           /\ prs' = [prs EXCEPT ![car].head = clonedHead[car]]
           /\ seenHead' = [seenHead EXCEPT ![car] = clonedHead[car]]
           /\ fixTested' = [fixTested EXCEPT ![car] = next # "ci_watch_post_queue_fix"]
           /\ lost' = IF clonedHead[car].edits < prs[car].head.edits THEN lost \union {car} ELSE lost
  <2>1. car \in Cars /\ Fits(clonedHead[car]) /\ Fits(seenHead[car])
    BY TrainParts, BranchesFit DEF TrainBounds
  <2>2. \A p \in Cars : /\ prs'[p] \in Car /\ prs'[p].is = prs[p].is
                        /\ prs'[p].head = (IF p = car THEN clonedHead[car] ELSE prs[p].head)
                        /\ seenHead'[p] = (IF p = car THEN clonedHead[car] ELSE seenHead[p])
                        /\ fixTested'[p] = (IF p = car THEN next # "ci_watch_post_queue_fix"
                                            ELSE fixTested[p])
    BY <1>3, <2>1, TrainParts DEF TrainBounds, Car, Fits
  <2>3. prs' \in [Cars -> Car] /\ seenHead' \in [Cars -> BranchHead] /\ fixTested' \in [Cars -> BOOLEAN]
    BY <1>3, <2>1, <2>2, TrainParts DEF TrainBounds, Fits
  <2>4. \A p \in Cars : Fits(prs'[p].head) /\ Fits(clonedHead[p]) /\ Fits(seenHead'[p])
    BY <2>1, <2>2, TrainParts, BranchesFit
  <2>5. station' \in Stations /\ station' \notin ToPush \union {"advance_queue_pr", "landed"}
    BY <1>3 DEF Stations, ToPush
  <2>6. TrainBounds'
    BY <1>1, <2>1, <2>2, <2>3, <2>4, <2>5, TrainParts DEF TrainBounds, Fits
  <2>7. InOrder'
    BY <1>1, <2>2, <2>5, TrainParts DEF InOrder
  <2>8. FixesTested'
    BY <1>1, <1>3, <2>2, TrainParts DEF FixesTested, Untested
  <2>9. lost' \subseteq reused
    <3>1. clonedHead[car].edits \in Nat /\ seenHead[car].edits \in Nat
      BY <2>1 DEF Fits, BranchHead
    <3> QED BY <1>3, <3>1, TrainParts DEF WorkKept, Kept, LostOnlyReused
  <2>10. WorkKept'
    BY <1>1, <2>5, <2>9 DEF WorkKept, LostOnlyReused
  <2> QED BY <2>6, <2>7, <2>8, <2>10, TrainMade
<1> QED BY <1>2, <1>3 DEF Pushes, Goto

LEMMA PushesKeep == TrainInv /\ (PushEjectedFix \/ PushRebasedNext) => TrainInv'
BY PushKeeps DEF PushEjectedFix, PushRebasedNext, ToPush

LEMMA FixKeeps == TrainInv /\ CIWatchFix => TrainInv'
<1> SUFFICES ASSUME TrainInv, CIWatchFix PROVE TrainInv'
  OBVIOUS
<1>1. /\ station = "ci_watch_post_queue_fix"
      /\ UNCHANGED <<car, prs, baseAt, outside, tracking, clonedHead, seenHead, reused, lost>>
  BY DEF CIWatchFix, github
<1>2. CASE station' \in {"check_ci_post_queue_loop", "failed"} /\ UNCHANGED fixTested
  <2>1. /\ station' \in Stations /\ station' \notin ToPush \union {"advance_queue_pr", "landed"}
        /\ station' \in Untested
    BY <1>2 DEF Stations, Terminus, ToPush, Untested
  <2> QED BY <1>1, <1>2, <2>1, MovesOn DEF github, clone
<1>3. CASE station' = "reenter_queue" /\ fixTested' = [fixTested EXCEPT ![car] = TRUE]
  <2>1. station' \in Stations /\ station' \notin ToPush \union {"advance_queue_pr", "landed"}
    BY <1>3 DEF Stations, ToPush
  <2>2. fixTested' \in [Cars -> BOOLEAN] /\ \A p \in Cars : fixTested'[p] = (p = car \/ fixTested[p])
    BY <1>3, TrainParts DEF TrainBounds
  <2>3. TrainBounds'
    BY <1>1, <2>1, <2>2, TrainParts DEF TrainBounds
  <2>4. InOrder'
    BY <1>1, <2>1, TrainParts DEF InOrder
  <2>5. FixesTested'
    BY <1>1, <2>2, TrainParts DEF FixesTested
  <2>6. WorkKept'
    BY <1>1, <2>1, TrainParts DEF WorkKept, LostOnlyReused
  <2> QED BY <2>3, <2>4, <2>5, <2>6, TrainMade
<1> QED BY <1>2, <1>3 DEF CIWatchFix, Goto

LEMMA AdvanceKeeps == TrainInv /\ advance_queue_pr => TrainInv'
<1> SUFFICES ASSUME TrainInv, advance_queue_pr PROVE TrainInv'
  OBVIOUS
<1>1. /\ station = "advance_queue_pr" /\ prs[car].is = "merged"
      /\ UNCHANGED <<prs, baseAt, outside, tracking, clonedHead, seenHead, fixTested, reused, lost>>
  BY TrainParts DEF advance_queue_pr, github, clone, InOrder
<1>2. \A p \in Cars : fixTested[p]
  BY <1>1, TrainParts DEF FixesTested, Untested
<1>3. car \in Nat /\ 1 <= car /\ car <= Train
  BY TrainParts, TrainNumbers DEF TrainBounds, Cars
<1>4. LostOnlyReused' /\ FixesTested'
  BY <1>1, <1>2, TrainParts DEF WorkKept, LostOnlyReused, FixesTested
<1>5. CASE After(car) = 0 /\ station' = "landed" /\ UNCHANGED car
  <2>1. car = Train
    BY <1>3, <1>5, TrainNumbers DEF After
  <2>2. TrainBounds'
    BY <1>1, <1>5, TrainParts DEF TrainBounds, Stations, Terminus
  <2>3. InOrder'
    BY <1>1, <1>5, <2>1, TrainParts DEF InOrder
  <2>4. WorkKept'
    BY <1>4, <1>5 DEF WorkKept, ToPush
  <2> QED BY <1>4, <2>2, <2>3, <2>4, TrainMade
<1>6. CASE UNCHANGED car /\ station' = "failed"
  <2>1. TrainBounds'
    BY <1>1, <1>6, TrainParts DEF TrainBounds, Stations, Terminus
  <2>2. InOrder'
    BY <1>1, <1>6, TrainParts DEF InOrder
  <2>3. WorkKept'
    BY <1>4, <1>6 DEF WorkKept, ToPush
  <2> QED BY <1>4, <2>1, <2>2, <2>3, TrainMade
<1>7. CASE /\ After(car) # 0 /\ car' = After(car)
           /\ station' \in {"proactive_rebase_next_pr", "enqueue_current_pr"}
  <2>1. car' = car + 1 /\ car' \in Cars
    BY <1>3, <1>7, TrainNumbers DEF After, Cars
  <2>2. prs[car'].is = "open"
    BY <1>3, <2>1, TrainParts DEF InOrder
  <2>3. baseAt <= car' + outside + (IF prs[car'].is = "merged" THEN 1 ELSE 0)
    BY <1>1, <1>3, <2>1, <2>2, TrainParts DEF TrainBounds
  <2>4. TrainBounds'
    BY <1>1, <1>7, <2>1, <2>3, TrainParts DEF TrainBounds, Stations
  <2>5. InOrder'
    <3>1. \A p \in Cars : p \in Nat /\ (p < car + 1 => p < car \/ p = car) /\ (p > car + 1 => p > car)
      BY <1>3 DEF Cars
    <3> QED BY <1>1, <1>7, <2>1, <3>1, TrainParts DEF InOrder
  <2>6. WorkKept'
    BY <1>4, <1>7 DEF WorkKept, ToPush
  <2> QED BY <1>4, <2>4, <2>5, <2>6, TrainMade
<1> QED BY <1>5, <1>6, <1>7 DEF advance_queue_pr, Goto

LEMMA TrainStepKeeps == TrainInv /\ [TrainNext]_trainVars => TrainInv'
<1> SUFFICES ASSUME TrainInv, [TrainNext]_trainVars PROVE TrainInv'
  OBVIOUS
<1>1. CASE UNCHANGED trainVars
  <2>1. UNCHANGED <<station, car, prs, baseAt, outside, tracking, clonedHead, seenHead, fixTested, reused,
                    lost>>
    BY <1>1 DEF trainVars
  <2>2. TrainBounds' /\ InOrder' /\ FixesTested'
    BY <2>1, TrainParts DEF TrainBounds, InOrder, FixesTested
  <2>3. WorkKept'
    BY <2>1, TrainParts DEF WorkKept, Kept, LostOnlyReused
  <2> QED BY <2>2, <2>3, TrainMade
<1> QED BY <1>1, WorldKeeps, EnqueuesKeep, WaitKeeps, LimitsKeep, RebaseKeeps, ResolvesKeep, PushesKeep,
           FixKeeps, AdvanceKeeps DEF TrainNext, Recipe

\* However long the train, and whatever its limits, authors and queue do: pull
\* requests merge in the order of the file, a fix re-enters only tested, and an
\* author's commit is lost only from a branch that was worked on as the clone had it.
THEOREM TrainIsSafe == TrainSpec => []TrainSafe
<1>1. TrainInv => TrainSafe
  <2> SUFFICES ASSUME TrainInv PROVE OrderKept /\ FixTested /\ LostOnlyReused
    BY DEF TrainInv, TrainSafe
  <2>1. car \in Cars /\ \A p \in Cars : p \in Nat /\ p <= Train
    BY TrainParts, TrainNumbers DEF TrainBounds, Cars
  <2>2. \A p, q \in Cars : p < q /\ prs[q].is # "open" => prs[p].is = "merged"
    <3>1. \A p, q, c \in Nat : p < q => p < c \/ q > c \/ (p = c /\ q > c)
      OBVIOUS
    <3>2. \A p, q \in Cars : p < q => p < car \/ q > car
      BY <2>1, <3>1
    <3> QED BY <3>2, TrainParts DEF InOrder
  <2>3. station = "landed" => \A p \in Cars : prs[p].is = "merged"
    BY <2>1, TrainParts DEF InOrder
  <2>4. FixTested
    BY <2>1, TrainParts DEF FixTested, FixesTested, Untested
  <2> QED BY <2>2, <2>3, <2>4, TrainParts DEF OrderKept, WorkKept
<1> QED BY <1>1, TrainInitInv, TrainStepKeeps, PTL DEF TrainSpec

-----------------------------------------------------------------------------
\* A set of positions has a first and a last one.
LEMMA Ends ==
  ASSUME NEW n \in Nat, NEW E \in SUBSET (1..n), E # {}
  PROVE  /\ \E i \in E : \A j \in E : i <= j
         /\ \E i \in E : \A j \in E : j <= i
<1>1. ASSUME NEW Seg \in [1..n -> SUBSET (1..n)]
      PROVE  \E x \in E : \A y \in E : ~(Seg[y] \subseteq Seg[x] /\ Seg[y] # Seg[x])
  <2> DEFINE T == {Seg[i] : i \in E}
             R == StrictSubsetOrdering(1..n)
  <2>1. IsFiniteSet(1..n)
    BY FS_Interval
  <2>2. T \subseteq FiniteSubsetsOf(1..n)
    BY <1>1, <2>1, FS_Subset DEF FiniteSubsetsOf
  <2>3. IsWellFoundedOn(R, FiniteSubsetsOf(1..n))
    BY FS_StrictSubsetOrderingWellFounded
  <2>4. T # {}
    OBVIOUS
  <2> HIDE DEF T, R
  <2>5. \E x \in T : \A y \in T : ~(<<y, x>> \in R)
    BY <2>2, <2>3, <2>4, WFMin
  <2> USE DEF T
  <2>6. PICK x \in E : \A y \in E : ~(<<Seg[y], Seg[x]>> \in R)
    BY <2>5
  <2> QED BY <1>1, <2>6 DEF StrictSubsetOrdering, R
<1>2. \A i, j \in 1..n : j < i => 1..j \subseteq 1..i /\ 1..j # 1..i
  <2> TAKE i, j \in 1..n
  <2> HAVE j < i
  <2>1. i \in 1..i /\ i \notin 1..j
    OBVIOUS
  <2> QED BY <2>1
<1>3. \A i, j \in 1..n : j > i => j..n \subseteq i..n /\ j..n # i..n
  <2> TAKE i, j \in 1..n
  <2> HAVE j > i
  <2>1. i \in i..n /\ i \notin j..n
    OBVIOUS
  <2> QED BY <2>1
<1>4. \E i \in E : \A j \in E : i <= j
  <2> DEFINE Seg == [i \in 1..n |-> 1..i]
  <2>1. Seg \in [1..n -> SUBSET (1..n)]
    OBVIOUS
  <2>2. PICK x \in E : \A y \in E : ~(Seg[y] \subseteq Seg[x] /\ Seg[y] # Seg[x])
    BY <1>1, <2>1
  <2>3. \A y \in E : ~(1..y \subseteq 1..x /\ 1..y # 1..x)
    BY <2>2
  <2> QED BY <1>2, <2>3
<1>5. \E i \in E : \A j \in E : j <= i
  <2> DEFINE Seg == [i \in 1..n |-> i..n]
  <2>1. Seg \in [1..n -> SUBSET (1..n)]
    OBVIOUS
  <2>2. PICK x \in E : \A y \in E : ~(Seg[y] \subseteq Seg[x] /\ Seg[y] # Seg[x])
    BY <1>1, <2>1
  <2>3. \A y \in E : ~(y..n \subseteq x..n /\ y..n # x..n)
    BY <2>2
  <2> QED BY <1>3, <2>3
<1> QED BY <1>4, <1>5

-----------------------------------------------------------------------------
(* The merge queue watcher.                                                 *)

LEMMA QueueNumbers ==
  /\ Confirm \in Nat /\ MaxStalls \in Nat /\ MaxUnknown \in Nat /\ Grace \in Nat /\ Budget \in Nat
  /\ Lag \in Nat /\ MaxGroups \in Nat /\ MaxGroups > 0
BY QueueAssumption

\* What the classifier says: one of its signals, the merge before all others.
LEMMA ClassifyIs ==
  ASSUME NEW g, look \in Look, ever \in BOOLEAN
  PROVE  /\ Classify(g) \in Blames \union {"MERGED", "STALLED", "CIStillRunning", "NoPositiveSignal"}
         /\ look.place = "merged" => Classify(g) = "MERGED"
         /\ Classify(g) = "DROPPED_HEALTHY" => g # "failed"
         /\ Classify(g) = "NoPositiveSignal" => look.checks # "pending"
<1> DEFINE G == Gates(g)
<1>1. /\ DOMAIN G = 1..11
      /\ G[1] = [when |-> look.place = "merged", terminal |-> "MERGED"]
      /\ G[2] = [when |-> look.place = "closed" /\ Red, terminal |-> "EJECTED_CI_FAILURE"]
      /\ G[3] = [when |-> look.place = "closed", terminal |-> "EJECTED"]
      /\ G[4] = [when |-> Red, terminal |-> "EJECTED_CI_FAILURE"]
      /\ G[5] = [when |-> look.place = "auto" /\ look.health \in {"clean", "hooks"}, terminal |-> "STALLED"]
      /\ G[6] = [when |-> look.health = "conflicting", terminal |-> "EJECTED"]
      /\ G[7] = [when |-> ever /\ Healthy /\ g = "failed", terminal |-> "DROPPED_MERGE_GROUP_CI"]
      /\ G[8] = [when |-> ever /\ Healthy, terminal |-> "DROPPED_HEALTHY"]
      /\ G[9] = [when |-> ~ever /\ Healthy, terminal |-> "NOT_ENROLLED"]
      /\ G[10] = [when |-> look.checks = "pending", terminal |-> "CIStillRunning"]
      /\ G[11] = [when |-> TRUE, terminal |-> "NoPositiveSignal"]
  BY DEF Gates, Signal
<1>2. Classify(g) =
        G[CHOOSE i \in DOMAIN G : G[i].when /\ \A j \in 1..(i - 1) : ~G[j].when].terminal
  BY DEF Classify, First
<1> HIDE DEF G
<1>3. \E i \in DOMAIN G : G[i].when /\ \A j \in 1..(i - 1) : ~G[j].when
  <2> DEFINE Chosen(i) == G[i].when /\ \A j \in 1..(i - 1) : ~G[j].when
  <2>1. G[1].when \in BOOLEAN /\ G[2].when \in BOOLEAN /\ G[3].when \in BOOLEAN /\ G[4].when \in BOOLEAN
        /\ G[5].when \in BOOLEAN /\ G[6].when \in BOOLEAN /\ G[7].when \in BOOLEAN
        /\ G[8].when \in BOOLEAN /\ G[9].when \in BOOLEAN /\ G[10].when \in BOOLEAN /\ G[11].when
    BY <1>1 DEF Red, Healthy
  <2>2. Chosen(1) \/ Chosen(2) \/ Chosen(3) \/ Chosen(4) \/ Chosen(5) \/ Chosen(6)
        \/ Chosen(7) \/ Chosen(8) \/ Chosen(9) \/ Chosen(10) \/ Chosen(11)
    BY <2>1
  <2> QED BY <1>1, <2>2
<1>4. PICK i \in 1..11 :
        /\ Classify(g) = G[i].terminal
        /\ G[i].when /\ \A j \in 1..(i - 1) : ~G[j].when
  BY <1>1, <1>2, <1>3
<1>5. i # 1 => ~G[1].when
  BY <1>4
<1>6. i = 8 => ~G[7].when
  BY <1>4
<1>7. i = 11 => ~G[10].when
  BY <1>4
<1>8. G[i].terminal \in Blames \union {"MERGED", "STALLED", "CIStillRunning", "NoPositiveSignal"}
      /\ (G[i].terminal = "DROPPED_HEALTHY" => i = 8) /\ (G[i].terminal = "NoPositiveSignal" => i = 11)
  BY <1>1, <1>4 DEF Blames
<1>9. look.place = "merged" => i = 1
  <2>1. G[1].when = (look.place = "merged")
    BY <1>1
  <2> QED BY <1>5, <2>1
<1>10. i = 8 => g # "failed"
  <2>1. G[7].when = (ever /\ Healthy /\ g = "failed") /\ G[8].when = (ever /\ Healthy)
    BY <1>1
  <2> QED BY <1>4, <1>6, <2>1
<1>11. i = 11 => look.checks # "pending"
  <2>1. G[10].when = (look.checks = "pending")
    BY <1>1
  <2> QED BY <1>7, <2>1
<1> QED BY <1>1, <1>4, <1>8, <1>9, <1>10, <1>11

\* The newest run that ended, if the newest of all has.
LEMMA ConcludedIs ==
  ASSUME NEW g \in Seq({"running", "passed", "failed"})
  PROVE  /\ Concluded(g) \in {Unset, "passed", "failed"}
         /\ g # <<>> /\ g[1] = "failed" => Concluded(g) = "failed"
<1> DEFINE E == {i \in DOMAIN g : g[i] # "running"}
           N == CHOOSE i \in E : \A j \in E : i <= j
<1>1. DOMAIN g = 1..Len(g) /\ Len(g) \in Nat /\ \A i \in DOMAIN g : g[i] \in {"running", "passed", "failed"}
  OBVIOUS
<1>2. Concluded(g) = IF E = {} THEN Unset ELSE g[N]
  BY DEF Concluded
<1>3. ASSUME E # {} PROVE N \in E
  BY <1>1, <1>3, Ends
<1>4. ASSUME g # <<>>, g[1] = "failed" PROVE Concluded(g) = "failed"
  <2>1. 1 \in E /\ \A j \in E : 1 <= j
    BY <1>1, <1>4
  <2>2. \A i \in E : (\A j \in E : i <= j) => i = 1
    BY <1>1, <2>1
  <2>3. N = 1
    BY <2>1, <2>2
  <2> QED BY <1>2, <1>4, <2>1, <2>3
<1> QED BY <1>1, <1>2, <1>3, <1>4

LEMMA MQInitInv == MQInit => MQInv
<1> SUFFICES ASSUME MQInit PROVE MQInv
  OBVIOUS
<1>1. MQTypeOK
  <2>1. look \in Look
    BY QueueAssumption DEF MQInit, Look, Current, Places, CheckStates
  <2>2. groups \in Seq({"running", "passed", "failed"}) /\ Len(groups) = 0
    BY DEF MQInit
  <2>3. /\ stuck \in BOOLEAN /\ direct \in BOOLEAN /\ ever \in BOOLEAN /\ was \in BOOLEAN
        /\ pending \in BOOLEAN /\ missed \in BOOLEAN /\ unheard \in BOOLEAN
    BY DEF MQInit
  <2>4. {stuck, direct, ever, was, pending, missed, unheard} \subseteq BOOLEAN
    BY <2>3
  <2>5. place \in Places /\ checks \in CheckStates /\ health \in Healths
    BY QueueAssumption DEF MQInit, Places, CheckStates
  <2>6. /\ hidden \in 0..Lag /\ age \in 0..Grace /\ clock \in 0..Budget
        /\ cycles \in 0..Confirm /\ unknown \in 0..(MaxUnknown + 1) /\ stalls \in 0..MaxStalls
        /\ Len(groups) <= MaxGroups
    BY <2>2, QueueNumbers DEF MQInit
  <2> QED BY <2>1, <2>2, <2>4, <2>5, <2>6 DEF MQInit, MQTypeOK, Unset
<1>2. LooksCounted /\ ReasonKnown /\ Finished /\ Counting /\ PatientWithCI
  BY QueueNumbers DEF MQInit, LooksCounted, ReasonKnown, Finished, Counting, PatientWithCI, Unset
<1> QED BY <1>1, <1>2 DEF MQInv

\* GitHub, its queue and the people around it.
LEMMA JoinTypes ==
  ASSUME MQTypeOK, JoinQueue
  PROVE  /\ groups' \in Seq({"running", "passed", "failed"}) /\ Len(groups') <= MaxGroups
         /\ groups' # <<>> /\ groups'[1] = "running"
<1>1. groups \in Seq({"running", "passed", "failed"}) /\ Len(groups) \in Nat /\ Len(groups) < MaxGroups
      /\ groups' = <<"running">> \o groups
  BY DEF MQTypeOK, JoinQueue
<1>2. <<"running">> \in Seq({"running", "passed", "failed"}) /\ Len(<<"running">>) = 1
  OBVIOUS
<1>3. groups' \in Seq({"running", "passed", "failed"}) /\ Len(groups') = 1 + Len(groups)
      /\ groups'[1] = "running"
  BY <1>1, <1>2
<1> QED BY <1>1, <1>3, QueueNumbers

LEMMA GitHubKeeps == MQInv /\ (GitHub \/ ShowMerge) => MQInv'
<1> SUFFICES ASSUME MQInv, GitHub \/ ShowMerge PROVE MQInv'
  OBVIOUS
<1> USE QueueNumbers
<1>1. UNCHANGED watchVars
  BY DEF GitHub, ShowMerge
<1>2. MQTypeOK /\ LooksCounted /\ ReasonKnown /\ Finished /\ Counting /\ PatientWithCI
  BY DEF MQInv
<1>3. Finished' /\ Counting' /\ PatientWithCI'
  BY <1>1, <1>2 DEF watchVars, Finished, Counting, PatientWithCI
<1>4. Len(groups) \in Nat
  BY <1>2 DEF MQTypeOK
<1>5. ASSUME UNCHANGED watchVars,
             place' \in Places, checks' \in CheckStates, health' \in Healths, stuck' \in BOOLEAN,
             missed' \in BOOLEAN, groups' \in Seq({"running", "passed", "failed"}), Len(groups') <= MaxGroups,
             hidden' \in 0..Lag, age' \in 0..Grace, why' \in {Unset, "passed", "failed", "running"}
      PROVE  MQTypeOK'
  BY <1>2, <1>5 DEF MQTypeOK, watchVars
<1>6. CASE Changes
  <2>1. MQTypeOK'
    BY <1>1, <1>2, <1>5, <1>6 DEF Changes, MQTypeOK
  <2>2. LooksCounted' /\ ReasonKnown'
    BY <1>1, <1>2, <1>6 DEF Changes, LooksCounted, ReasonKnown, watchVars
  <2> QED BY <1>3, <2>1, <2>2 DEF MQInv
<1>7. CASE Enroll \/ Withdraw
  <2>1. MQTypeOK'
    BY <1>1, <1>2, <1>5, <1>7 DEF Enroll, Withdraw, MQTypeOK, Places
  <2>2. LooksCounted' /\ ReasonKnown'
    BY <1>1, <1>2, <1>7 DEF Enroll, Withdraw, LooksCounted, ReasonKnown, watchVars
  <2> QED BY <1>3, <2>1, <2>2 DEF MQInv
<1>8. CASE Queue
  <2>1. /\ groups' \in Seq({"running", "passed", "failed"}) /\ Len(groups') <= MaxGroups
        /\ groups' # <<>>
    BY <1>2, <1>8, JoinTypes DEF Queue
  <2>2. place' = "queued" /\ stuck' = FALSE /\ missed' = TRUE /\ age' = 0
        /\ UNCHANGED <<checks, health, hidden, why>>
    BY <1>8 DEF Queue, JoinQueue
  <2>4. MQTypeOK'
    <3>1. place' \in Places /\ age' \in 0..Grace
      BY <2>2 DEF Places
    <3>3. stuck' \in BOOLEAN /\ missed' \in BOOLEAN
      BY <2>2
    <3>2. checks' \in CheckStates /\ health' \in Healths /\ hidden' \in 0..Lag
          /\ why' \in {Unset, "passed", "failed", "running"}
      BY <1>2, <2>2 DEF MQTypeOK
    <3> QED BY <1>1, <1>5, <2>1, <3>1, <3>2, <3>3
  <2>3. LooksCounted' /\ ReasonKnown'
    BY <1>1, <1>2, <2>1, <2>2 DEF LooksCounted, ReasonKnown, watchVars
  <2> QED BY <1>3, <2>3, <2>4 DEF MQInv
<1>9. CASE GroupEnds
  <2>1. PICK r \in {"passed", "failed"} : groups' = [groups EXCEPT ![1] = r]
    BY <1>9 DEF GroupEnds
  <2>2. groups \in Seq({"running", "passed", "failed"}) /\ groups # <<>>
    BY <1>2, <1>9 DEF GroupEnds, MQTypeOK
  <2>3. groups' \in Seq({"running", "passed", "failed"}) /\ Len(groups') = Len(groups) /\ groups' # <<>>
    BY <2>1, <2>2
  <2>4. MQTypeOK'
    BY <1>1, <1>2, <1>5, <1>9, <2>3 DEF GroupEnds, MQTypeOK
  <2>5. LooksCounted' /\ ReasonKnown'
    BY <1>1, <1>2, <1>9, <2>3 DEF GroupEnds, LooksCounted, ReasonKnown, watchVars
  <2> QED BY <1>3, <2>4, <2>5 DEF MQInv
<1>10. CASE Unmergeable
  <2>1. MQTypeOK'
    BY <1>1, <1>2, <1>5, <1>10 DEF Unmergeable, MQTypeOK
  <2>2. LooksCounted' /\ ReasonKnown'
    BY <1>1, <1>2, <1>10 DEF Unmergeable, LooksCounted, ReasonKnown, watchVars
  <2> QED BY <1>3, <2>1, <2>2 DEF MQInv
<1>11. CASE LeaveQueue
  <2>1. groups # <<>> /\ groups[1] \in {"running", "passed", "failed"}
    <3>1. groups # <<>> /\ groups \in Seq({"running", "passed", "failed"})
      BY <1>2, <1>11 DEF LeaveQueue, ReasonKnown, MQTypeOK
    <3> QED BY <3>1
  <2>4. /\ place = "queued" /\ stuck' = FALSE /\ why' = groups[1]
        /\ \/ place' = "landed" /\ hidden' = 0
           \/ place' = "out" /\ hidden' = hidden
        /\ UNCHANGED <<groups, missed, checks, health, age>>
    BY <1>11 DEF LeaveQueue, Place
  <2>2. MQTypeOK'
    <3>1. hidden' \in 0..Lag /\ place' \in Places
      BY <1>2, <2>4 DEF MQTypeOK, Places
    <3> QED BY <1>1, <1>2, <1>5, <2>1, <2>4, <3>1 DEF MQTypeOK
  <2>3. LooksCounted' /\ ReasonKnown'
    <3>1. LooksCounted'
      BY <1>1, <1>2, <2>4 DEF LooksCounted, watchVars
    <3>2. result # "DROPPED_HEALTHY" \/ missed
      BY <1>2, <2>4 DEF LooksCounted, Blames
    <3>3. ReasonKnown'
      BY <1>1, <1>2, <2>1, <2>4, <3>2 DEF ReasonKnown, LooksCounted, watchVars
    <3> QED BY <3>1, <3>3
  <2> QED BY <1>3, <2>2, <2>3 DEF MQInv
<1>12. CASE ShowMerge
  <2>1. MQTypeOK'
    BY <1>1, <1>2, <1>5, <1>12 DEF ShowMerge, Place, MQTypeOK, Places
  <2>2. cycles \in Nat /\ hidden \in Nat /\ hidden <= Lag
    BY <1>2 DEF MQTypeOK
  <2>3. cycles <= hidden => cycles <= Lag
    BY <2>2
  <2>4. LooksCounted' /\ ReasonKnown'
    BY <1>1, <1>2, <1>12, <2>3 DEF ShowMerge, Place, LooksCounted, ReasonKnown, watchVars
  <2> QED BY <1>3, <2>1, <2>4 DEF MQInv
<1> QED BY <1>6, <1>7, <1>8, <1>9, <1>10, <1>11, <1>12 DEF GitHub

(* The watcher.                                                             *)

\* A sleep spends the time that is left, at most.
LEMMA SleepTypes ==
  ASSUME MQTypeOK, NEW polls \in Nat, Sleep(polls)
  PROVE  clock' \in 0..Budget /\ age' \in 0..Grace
BY QueueNumbers DEF MQTypeOK, Sleep, Plus

\* A watcher's step that moves only its own state and GitHub's clocks.
LEMMA WatcherTypes ==
  ASSUME MQTypeOK, UNCHANGED <<place, checks, health, stuck, groups, missed, why, hidden, direct, look, ever>>,
         clock' \in 0..Budget, age' \in 0..Grace,
         mpc' \in {"new", "loop", "left", "settle", "disabled", "confirmed", "toggled", "done"},
         was' \in BOOLEAN, cache' \in {Unset, "passed", "failed"}, cycles' \in 0..Confirm,
         unknown' \in 0..(MaxUnknown + 1), pending' \in BOOLEAN, stalls' \in 0..MaxStalls,
         result' \in PRState \union {Unset}, unheard' \in BOOLEAN
  PROVE  MQTypeOK'
BY DEF MQTypeOK, Look

LEMMA BeginKeeps == MQInv /\ Begin => MQInv'
<1> SUFFICES ASSUME MQInv, Begin PROVE MQInv'
  OBVIOUS
<1> USE QueueNumbers
<1>1. MQTypeOK /\ LooksCounted /\ ReasonKnown /\ Finished /\ Counting /\ PatientWithCI
  BY DEF MQInv
<1>2. /\ mpc = "new" /\ mpc' = "loop" /\ direct' \in BOOLEAN /\ checks' \in CheckStates
      /\ UNCHANGED <<health, stuck, why, hidden, age, look, ever, was, cache, cycles, unknown,
                     pending, stalls, clock, result, unheard>>
      /\ \/ UNCHANGED <<place, groups, missed>>
         \/ place' = "auto" /\ UNCHANGED <<groups, missed>>
         \/ place' = "queued" /\ groups' = <<"running">> /\ missed' = TRUE
  BY DEF Begin
<1>3. groups' \in Seq({"running", "passed", "failed"}) /\ Len(groups') <= MaxGroups
      /\ (groups' = groups \/ groups' # <<>>)
  <2>1. <<"running">> \in Seq({"running", "passed", "failed"}) /\ Len(<<"running">>) = 1 /\ <<"running">> # <<>>
    OBVIOUS
  <2>2. 1 <= MaxGroups
    OBVIOUS
  <2>3. groups \in Seq({"running", "passed", "failed"}) /\ Len(groups) <= MaxGroups
    BY <1>1 DEF MQTypeOK
  <2>4. CASE groups' = groups
    BY <2>3, <2>4
  <2>5. CASE groups' = <<"running">>
    BY <2>1, <2>2, <2>5
  <2> QED BY <1>2, <2>4, <2>5
<1>4. MQTypeOK'
  <2>1. place' \in Places /\ missed' \in BOOLEAN
    BY <1>1, <1>2 DEF MQTypeOK, Places
  <2> QED BY <1>1, <1>2, <1>3, <2>1 DEF MQTypeOK, Look
<1>5. LooksCounted'
  BY <1>1, <1>2 DEF LooksCounted, Judging
<1>6. result' = Unset
  BY <1>1, <1>2 DEF Finished
<1>7. ReasonKnown'
  BY <1>1, <1>2, <1>3, <1>6 DEF ReasonKnown, LooksCounted, Unset
<1>8. Finished' /\ Counting' /\ PatientWithCI'
  BY <1>1, <1>2, <1>6 DEF Finished, Counting, PatientWithCI, Unset
<1> QED BY <1>4, <1>5, <1>7, <1>8 DEF MQInv

LEMMA TimeUpKeeps == MQInv /\ TimeUp => MQInv'
<1> SUFFICES ASSUME MQInv, TimeUp PROVE MQInv'
  OBVIOUS
<1>1. MQTypeOK /\ LooksCounted /\ ReasonKnown /\ Finished /\ Counting /\ PatientWithCI
  BY DEF MQInv
<1>2. /\ mpc = "loop" /\ clock = 0 /\ mpc' = "done" /\ result' = "TIMEOUT"
      /\ UNCHANGED <<place, checks, health, stuck, groups, missed, why, hidden, age, direct, look, ever, was,
                     cache, cycles, unknown, pending, stalls, clock, unheard>>
  BY DEF TimeUp, Return, KeepGitHub
<1>3. MQTypeOK'
  BY <1>1, <1>2 DEF MQTypeOK, Look, PRState
<1>4. LooksCounted'
  BY <1>1, <1>2 DEF LooksCounted, Judging, Blames
<1>5. ReasonKnown'
  BY <1>1, <1>2 DEF ReasonKnown
<1>6. Finished' /\ Counting' /\ PatientWithCI'
  BY <1>1, <1>2 DEF Finished, Counting, PatientWithCI, Unset, MQTypeOK
<1> QED BY <1>3, <1>4, <1>5, <1>6 DEF MQInv

LEMMA FetchFailsKeeps == MQInv /\ FetchFails => MQInv'
<1> SUFFICES ASSUME MQInv, FetchFails PROVE MQInv'
  OBVIOUS
<1>1. MQTypeOK /\ LooksCounted /\ ReasonKnown /\ Finished /\ Counting /\ PatientWithCI
  BY DEF MQInv
<1>2. /\ mpc = "loop" /\ Sleep(1)
      /\ UNCHANGED <<place, checks, health, stuck, groups, missed, why, mpc, hidden, direct, look, ever, was,
                     cache, cycles, unknown, pending, stalls, result, unheard>>
  BY DEF FetchFails, Poll, KeepGitHub
<1>3. clock' \in 0..Budget /\ age' \in 0..Grace
  BY <1>1, <1>2, SleepTypes
<1>4. MQTypeOK'
  BY <1>1, <1>2, <1>3 DEF MQTypeOK, Look
<1>5. LooksCounted' /\ ReasonKnown'
  BY <1>1, <1>2 DEF LooksCounted, ReasonKnown
<1>6. Finished' /\ Counting' /\ PatientWithCI'
  BY <1>1, <1>2 DEF Finished, Counting, PatientWithCI, Unset
<1> QED BY <1>4, <1>5, <1>6 DEF MQInv

\* What a look shows.
LEMMA FetchTypes ==
  ASSUME MQTypeOK, Fetch
  PROVE  /\ place' = Shown /\ place' \in Places /\ look' \in Look /\ look'.place = Shown
         /\ hidden' \in 0..Lag /\ ever' \in BOOLEAN
         /\ place' = "queued" <=> place = "queued"
         /\ place' = "landed" => place = "landed" /\ hidden' = hidden + 1
<1> USE QueueNumbers
<1>1. Shown \in Places /\ (Shown = "queued" <=> place = "queued")
      /\ (Shown = "landed" => place = "landed" /\ hidden # Lag)
  BY DEF MQTypeOK, Shown, Places
<1>2. Current \in Look
  BY DEF MQTypeOK, Current, Look
<1>3. look' = [Current EXCEPT !.place = Shown] /\ place' = Shown
      /\ hidden' = IF Shown = "landed" THEN hidden + 1 ELSE hidden
  BY DEF Fetch
<1>4. look' \in Look /\ look'.place = Shown
  BY <1>1, <1>2, <1>3 DEF Look
<1>5. hidden' \in 0..Lag
  <2>1. hidden \in 0..Lag
    BY DEF MQTypeOK
  <2>2. hidden # Lag => hidden + 1 \in 0..Lag
    BY <2>1
  <2> QED BY <1>1, <1>3, <2>1, <2>2
<1>6. ever' \in BOOLEAN
  BY DEF Fetch, MQTypeOK
<1> QED BY <1>1, <1>3, <1>4, <1>5, <1>6

LEMMA FetchQueuedKeeps == MQInv /\ FetchQueued => MQInv'
<1> SUFFICES ASSUME MQInv, FetchQueued PROVE MQInv'
  OBVIOUS
<1> USE QueueNumbers
<1>1. MQTypeOK /\ LooksCounted /\ ReasonKnown /\ Finished /\ Counting /\ PatientWithCI
  BY DEF MQInv
<1>2. /\ place = "queued" /\ mpc = "loop" /\ Sleep(1)
      /\ was' = TRUE /\ cache' = Unset /\ cycles' = 0 /\ unknown' = 0 /\ pending' = stuck
      /\ missed' = FALSE /\ unheard' = FALSE
      /\ UNCHANGED <<checks, health, stuck, groups, why, mpc, direct, stalls, result>>
  BY DEF FetchQueued, Fetch, Poll
<1>3. Fetch
  BY DEF FetchQueued
<1>4. MQTypeOK'
  <2>1. clock' \in 0..Budget /\ age' \in 0..Grace
    BY <1>1, <1>2, SleepTypes
  <2>2. {stuck', direct', ever', was', pending', missed', unheard'} \subseteq BOOLEAN
    <3>1. was' \in BOOLEAN /\ missed' \in BOOLEAN /\ unheard' \in BOOLEAN
      BY <1>2
    <3>2. stuck' \in BOOLEAN /\ direct' \in BOOLEAN /\ pending' \in BOOLEAN
      BY <1>1, <1>2 DEF MQTypeOK
    <3>3. ever' \in BOOLEAN
      BY <1>1, <1>3, FetchTypes
    <3> QED BY <3>1, <3>2, <3>3
  <2>3. place' \in Places /\ look' \in Look /\ hidden' \in 0..Lag
    BY <1>1, <1>3, FetchTypes
  <2>4. cache' \in {Unset, "passed", "failed"} /\ cycles' \in 0..Confirm /\ unknown' \in 0..(MaxUnknown + 1)
    BY <1>2
  <2> QED BY <1>1, <1>2, <2>1, <2>2, <2>3, <2>4 DEF MQTypeOK
<1>5. place' = "queued" /\ result = Unset
  BY <1>1, <1>2, <1>3, FetchTypes DEF Finished
<1>6. LooksCounted'
  BY <1>2, <1>5 DEF LooksCounted, Judging, Blames, Unset
<1>7. ReasonKnown'
  BY <1>1, <1>2, <1>5 DEF ReasonKnown, Unset
<1>8. Finished' /\ Counting' /\ PatientWithCI'
  BY <1>1, <1>2, <1>5 DEF Finished, Counting, PatientWithCI, Unset
<1> QED BY <1>4, <1>6, <1>7, <1>8 DEF MQInv

LEMMA FetchOutsideKeeps == MQInv /\ FetchOutside => MQInv'
<1> SUFFICES ASSUME MQInv, FetchOutside PROVE MQInv'
  OBVIOUS
<1> USE QueueNumbers
<1>1. MQTypeOK /\ LooksCounted /\ ReasonKnown /\ Finished /\ Counting /\ PatientWithCI
  BY DEF MQInv
<1>2. /\ place # "queued" /\ mpc = "loop" /\ cycles' = Plus(cycles, 1, Confirm)
      /\ mpc' = IF was /\ checks # "red" THEN "left" ELSE "settle"
      /\ was' = (was /\ checks # "red") /\ unheard' = (unheard \/ (was /\ checks = "red"))
      /\ UNCHANGED <<checks, health, stuck, groups, why, direct, stalls, result,
                     cache, unknown, pending, clock, age, missed>>
  BY DEF FetchOutside, Fetch
<1>3. Fetch
  BY DEF FetchOutside
<1>4. /\ place' \in Places /\ look' \in Look /\ hidden' \in 0..Lag /\ ever' \in BOOLEAN
      /\ place' # "queued" /\ look'.place = place'
      /\ place' = "landed" => place = "landed" /\ hidden' = hidden + 1
  BY <1>1, <1>2, <1>3, FetchTypes
<1>5. cycles' \in 0..Confirm /\ cycles' <= cycles + 1
  BY <1>1, <1>2 DEF MQTypeOK, Plus
<1>6. was \in BOOLEAN /\ unheard \in BOOLEAN /\ missed \in BOOLEAN
  BY <1>1 DEF MQTypeOK
<1>7. MQTypeOK'
  <2>1. was' \in BOOLEAN /\ unheard' \in BOOLEAN /\ mpc' \in {"left", "settle"}
    BY <1>2, <1>6
  <2> QED BY <1>1, <1>2, <1>4, <1>5, <2>1 DEF MQTypeOK
<1>8. result = Unset
  BY <1>1, <1>2 DEF Finished
<1>9. LooksCounted'
  <2>1. cycles \in Nat /\ hidden \in Nat /\ cycles' \in Nat
    BY <1>1, <1>5 DEF MQTypeOK
  <2>2. ~missed /\ place' = "landed" => cycles' <= hidden'
    BY <1>1, <1>4, <1>5, <2>1 DEF LooksCounted
  <2> QED BY <1>2, <1>4, <1>8, <2>2 DEF LooksCounted, Blames, Unset
<1>10. ReasonKnown'
  <2>1. mpc' = "settle" => ~was'
    BY <1>2, <1>6
  <2>2. was => was' \/ unheard'
    BY <1>2, <1>6
  <2> QED BY <1>1, <1>2, <1>4, <1>8, <2>1, <2>2 DEF ReasonKnown, Unset
<1>11. Finished' /\ Counting' /\ PatientWithCI'
  BY <1>1, <1>2, <1>8 DEF Finished, Counting, PatientWithCI, Unset
<1> QED BY <1>7, <1>9, <1>10, <1>11 DEF MQInv

LEMMA AskKeeps == MQInv /\ AskMergeGroup => MQInv'
<1> SUFFICES ASSUME MQInv, AskMergeGroup PROVE MQInv'
  OBVIOUS
<1> USE QueueNumbers
<1>1. MQTypeOK /\ LooksCounted /\ ReasonKnown /\ Finished /\ Counting /\ PatientWithCI
  BY DEF MQInv
<1>2. /\ mpc = "left" /\ mpc' = "settle"
      /\ \/ cache' = Concluded(groups) /\ UNCHANGED unheard
         \/ cache' = Unset /\ unheard' = (unheard \/ cycles >= Confirm)
      /\ was' = (cache' = Unset /\ cycles < Confirm)
      /\ UNCHANGED <<place, checks, health, stuck, groups, missed, why, hidden, age, direct, look, ever,
                     cycles, unknown, pending, stalls, clock, result>>
  BY DEF AskMergeGroup, KeepGitHub
<1>3. Concluded(groups) \in {Unset, "passed", "failed"}
      /\ (groups # <<>> /\ groups[1] = "failed" => Concluded(groups) = "failed")
  BY <1>1, ConcludedIs DEF MQTypeOK
<1>4. was' \in BOOLEAN /\ unheard' \in BOOLEAN
  BY <1>1, <1>2 DEF MQTypeOK
<1>5. MQTypeOK'
  BY <1>1, <1>2, <1>3, <1>4 DEF MQTypeOK, Look
<1>6. result = Unset
  BY <1>1, <1>2 DEF Finished
<1>7. LooksCounted'
  BY <1>1, <1>2 DEF LooksCounted, Judging
<1>8. ReasonKnown'
  <2>1. ~(cycles < Confirm) => cycles >= Confirm
    BY <1>1 DEF MQTypeOK
  <2>2. ~was' \/ cycles < Confirm
    BY <1>2
  <2>3. groups # <<>> /\ groups[1] = "failed" => was' \/ cache' = "failed" \/ unheard'
    BY <1>2, <1>3, <2>1 DEF Unset
  <2> QED BY <1>1, <1>2, <1>6, <2>2, <2>3 DEF ReasonKnown, Unset
<1>9. Finished' /\ Counting' /\ PatientWithCI'
  BY <1>1, <1>2, <1>6 DEF Finished, Counting, PatientWithCI, Unset
<1> QED BY <1>5, <1>7, <1>8, <1>9 DEF MQInv

\* With fewer looks that hide a merge than confirmation cycles, no verdict but
\* "merged" is given of a pull request that was seen in the queue and landed.
LEMMA SettleKeeps == Lag < Confirm /\ MQInv /\ Settle => MQInv'
<1> SUFFICES ASSUME Lag < Confirm, MQInv, Settle PROVE MQInv'
  OBVIOUS
<1> USE QueueNumbers
<1>1. MQTypeOK /\ LooksCounted /\ ReasonKnown /\ Finished /\ Counting /\ PatientWithCI
  BY DEF MQInv
<1>2. /\ mpc = "settle"
      /\ UNCHANGED <<place, checks, health, stuck, groups, missed, why, hidden, direct, look, ever, was, cache,
                     cycles, pending, stalls, unheard>>
  BY DEF Settle, KeepGitHub
<1> DEFINE c == Classify(cache)
<1>3. /\ c \in Blames \union {"MERGED", "STALLED", "CIStillRunning", "NoPositiveSignal"}
      /\ look.place = "merged" => c = "MERGED"
      /\ c = "DROPPED_HEALTHY" => cache # "failed"
      /\ c = "NoPositiveSignal" => look.checks # "pending"
  BY <1>1, ClassifyIs DEF MQTypeOK
<1>4. \/ Again
      \/ c = "NoPositiveSignal" /\ Inconclusive
      \/ c = "MERGED" /\ Stop("MERGED")
      \/ c = "STALLED" /\ stalls < MaxStalls /\ mpc' = "disabled" /\ UNCHANGED <<result, unknown, clock, age>>
      \/ c # "MERGED" /\ Confirmed /\ \E r \in {"EJECTED", "STALLED", c} : c \in Blames \union {"STALLED"} /\ Stop(r)
  <2>1. c # "MERGED" /\ c # "NoPositiveSignal" => c \in Blames \union {"STALLED", "CIStillRunning"}
    BY <1>3 DEF Blames
  <2>2. \/ Again
        \/ c = "NoPositiveSignal" /\ Inconclusive
        \/ c = "MERGED" /\ Stop("MERGED")
        \/ /\ c \in Blames \union {"STALLED"} /\ Confirmed
           /\ \/ pending /\ Stop("EJECTED")
              \/ ~pending /\ c = "STALLED" /\ Stalled
              \/ Stop(c)
    BY DEF Settle
  <2>3. Stalled => \/ Again
                   \/ stalls < MaxStalls /\ mpc' = "disabled" /\ UNCHANGED <<result, unknown, clock, age>>
                   \/ Stop("STALLED")
    BY DEF Stalled
  <2>4. \A x \in Blames \union {"STALLED"} : x # "MERGED"
    BY DEF Blames
  <2> HIDE DEF c
  <2> QED BY <2>2, <2>3, <2>4
<1> HIDE DEF c
<1>5. result = Unset
  BY <1>1, <1>2 DEF Finished
<1>6. ASSUME mpc' \in {"loop", "disabled", "done"}, clock' \in 0..Budget, age' \in 0..Grace,
             unknown' \in 0..(MaxUnknown + 1), result' \in PRState \union {Unset}
      PROVE  MQTypeOK'
  BY <1>1, <1>2, <1>6 DEF MQTypeOK, Look
<1>7. ASSUME mpc' \in {"loop", "disabled", "done"}, result' \in Blames => Confirmed /\ look.place # "merged"
      PROVE  LooksCounted'
  <2>1. ~missed => place # "queued"
    BY <1>1, <1>2 DEF LooksCounted, Judging
  <2>2. cycles <= Lag => ~Confirmed
    BY <1>1 DEF MQTypeOK, Confirmed
  <2>3. cycles <= hidden => ~Confirmed
    BY <1>1 DEF MQTypeOK, Confirmed
  <2>4. ~missed => /\ place = "landed" => cycles <= hidden /\ result' \notin Blames
                   /\ place = "merged" => (cycles <= Lag \/ look.place = "merged") /\ result' \notin Blames
    BY <1>1, <1>7, <2>2, <2>3 DEF LooksCounted
  <2> QED BY <1>2, <1>7, <2>1, <2>4 DEF LooksCounted
<1>8. ASSUME mpc' \in {"loop", "disabled", "done"},
             result' = "DROPPED_HEALTHY" => c = "DROPPED_HEALTHY" /\ Confirmed
      PROVE  ReasonKnown'
  <2>1. ~missed => place # "queued"
    BY <1>1, <1>2 DEF LooksCounted, Judging
  <2>2. Confirmed => ~(cycles < Confirm)
    BY <1>1 DEF MQTypeOK, Confirmed
  <2>3. result' = "DROPPED_HEALTHY" /\ ~missed /\ ~unheard => why # "failed"
    BY <1>1, <1>2, <1>3, <1>8, <2>1, <2>2 DEF ReasonKnown
  <2> QED BY <1>1, <1>2, <1>8, <2>3 DEF ReasonKnown
<1>9. CASE Again
  <2>1. Sleep(1) /\ mpc' = "loop" /\ UNCHANGED <<result, unknown>>
    BY <1>9 DEF Again, Poll
  <2>2. MQTypeOK'
    <3>1. clock' \in 0..Budget /\ age' \in 0..Grace
      BY <1>1, <2>1, SleepTypes
    <3>2. unknown' \in 0..(MaxUnknown + 1) /\ result' \in PRState \union {Unset}
      BY <1>1, <2>1 DEF MQTypeOK
    <3> QED BY <1>6, <2>1, <3>1, <3>2
  <2>3. LooksCounted' /\ ReasonKnown'
    BY <1>5, <1>7, <1>8, <2>1 DEF Blames, Unset
  <2>4. Finished' /\ Counting' /\ PatientWithCI'
    BY <1>1, <1>2, <1>5, <2>1 DEF Finished, Counting, PatientWithCI, Unset
  <2> QED BY <2>2, <2>3, <2>4 DEF MQInv
<1>10. CASE c = "NoPositiveSignal" /\ Inconclusive
  <2>1. /\ unknown' = unknown + 1
        /\ \/ unknown' >= MaxUnknown /\ mpc' = "done" /\ result' = "TIMEOUT" /\ UNCHANGED <<clock, age>>
           \/ ~(unknown' >= MaxUnknown) /\ Sleep(1) /\ mpc' = "loop" /\ UNCHANGED result
    BY <1>10 DEF Inconclusive, Return, Poll
  <2>2. unknown' \in 0..(MaxUnknown + 1) /\ (~(unknown' >= MaxUnknown) => unknown' < MaxUnknown)
    BY <1>1, <1>2, <2>1 DEF MQTypeOK, Counting
  <2>3. MQTypeOK'
    <3>1. clock' \in 0..Budget /\ age' \in 0..Grace
      BY <1>1, <2>1, SleepTypes DEF MQTypeOK
    <3>2. result' \in PRState \union {Unset} /\ mpc' \in {"loop", "disabled", "done"}
      BY <1>5, <2>1 DEF PRState
    <3> QED BY <1>6, <2>2, <3>1, <3>2
  <2>4. LooksCounted' /\ ReasonKnown'
    BY <1>5, <1>7, <1>8, <2>1 DEF Blames, Unset
  <2>5. Finished' /\ Counting' /\ PatientWithCI'
    BY <1>2, <1>3, <1>5, <1>10, <2>1, <2>2 DEF Finished, Counting, PatientWithCI, Unset
  <2> QED BY <2>3, <2>4, <2>5 DEF MQInv
<1>11. CASE c = "STALLED" /\ stalls < MaxStalls /\ mpc' = "disabled" /\ UNCHANGED <<result, unknown, clock, age>>
  <2>1. MQTypeOK'
    BY <1>1, <1>6, <1>11 DEF MQTypeOK
  <2>2. LooksCounted' /\ ReasonKnown'
    BY <1>5, <1>7, <1>8, <1>11 DEF Blames, Unset
  <2>3. Finished' /\ Counting' /\ PatientWithCI'
    BY <1>1, <1>2, <1>5, <1>11 DEF Finished, Counting, PatientWithCI, Unset
  <2> QED BY <2>1, <2>2, <2>3 DEF MQInv
<1>12. ASSUME NEW r \in PRState \ {"TIMEOUT"}, Stop(r),
              r \in Blames => Confirmed /\ look.place # "merged",
              r = "DROPPED_HEALTHY" => c = "DROPPED_HEALTHY" /\ Confirmed
       PROVE  MQInv'
  <2>1. mpc' = "done" /\ result' = r /\ UNCHANGED <<clock, age, unknown>>
    BY <1>12 DEF Stop, Return
  <2>2. MQTypeOK'
    BY <1>1, <1>6, <2>1 DEF MQTypeOK
  <2>3. LooksCounted' /\ ReasonKnown'
    BY <1>7, <1>8, <1>12, <2>1
  <2>4. Finished' /\ Counting' /\ PatientWithCI'
    BY <2>1 DEF Finished, Counting, PatientWithCI, Unset, PRState, Blames
  <2> QED BY <2>2, <2>3, <2>4 DEF MQInv
<1>13. CASE c = "MERGED" /\ Stop("MERGED")
  BY <1>12, <1>13 DEF PRState, Blames
<1>14. CASE /\ c # "MERGED" /\ Confirmed
            /\ \E r \in {"EJECTED", "STALLED", c} : c \in Blames \union {"STALLED"} /\ Stop(r)
  BY <1>3, <1>12, <1>14 DEF PRState, Blames
<1> QED BY <1>4, <1>9, <1>10, <1>11, <1>13, <1>14

LEMMA ToggleKeeps == MQInv /\ (EnqueueDirect \/ DisableAutoMerge \/ EnableAutoMerge) => MQInv'
<1> SUFFICES ASSUME MQInv, EnqueueDirect \/ DisableAutoMerge \/ EnableAutoMerge PROVE MQInv'
  OBVIOUS
<1> USE QueueNumbers
<1>1. MQTypeOK /\ LooksCounted /\ ReasonKnown /\ Finished /\ Counting /\ PatientWithCI
  BY DEF MQInv
<1>2. /\ mpc \in {"disabled", "confirmed"} /\ mpc' \in {"confirmed", "toggled"}
      /\ UNCHANGED <<checks, health, why, hidden, direct, look, ever, was, cache, cycles, unknown, pending, stalls,
                     clock, result, unheard>>
      /\ \/ JoinQueue
         \/ /\ UNCHANGED <<stuck, groups, missed>>
            /\ \/ UNCHANGED <<place, age>>
               \/ place \in {"out", "auto"} /\ place' \in {"out", "auto"} /\ age' = 0
  BY DEF EnqueueDirect, DisableAutoMerge, EnableAutoMerge, KeepGitHub, ToggleRest, JoinQueue
<1>3. /\ place' \in Places /\ age' \in 0..Grace
      /\ groups' \in Seq({"running", "passed", "failed"}) /\ Len(groups') <= MaxGroups
      /\ (groups' = groups \/ groups' # <<>>)
  <2>1. CASE JoinQueue
    <3>1. place' = "queued" /\ age' = 0
      BY <2>1 DEF JoinQueue
    <3> QED BY <1>1, <2>1, <3>1, JoinTypes DEF Places
  <2>2. CASE UNCHANGED groups
    <3>1. place' = place \/ place' \in {"out", "auto", "queued"}
      BY <1>2 DEF JoinQueue
    <3>2. age' = age \/ age' = 0
      BY <1>2 DEF JoinQueue
    <3> QED BY <1>1, <2>2, <3>1, <3>2 DEF MQTypeOK, Places
  <2> QED BY <1>2, <2>1, <2>2
<1>4. stuck' \in BOOLEAN /\ missed' \in BOOLEAN
  <2>1. stuck \in BOOLEAN /\ missed \in BOOLEAN
    BY <1>1 DEF MQTypeOK
  <2>2. (stuck' = FALSE /\ missed' = TRUE) \/ UNCHANGED <<stuck, missed>>
    BY <1>2 DEF JoinQueue
  <2> QED BY <2>1, <2>2
<1>5. MQTypeOK'
  BY <1>1, <1>2, <1>3, <1>4 DEF MQTypeOK, Look
<1>6. result = Unset
  BY <1>1, <1>2 DEF Finished
<1>7. \/ missed' = TRUE /\ place' = "queued" /\ groups' # <<>>
      \/ /\ UNCHANGED <<missed, groups>>
         /\ \/ UNCHANGED place
            \/ place' \in {"out", "auto"} /\ place \in {"out", "auto"}
  BY <1>1, <1>2, JoinTypes DEF JoinQueue
<1>8. LooksCounted'
  BY <1>1, <1>2, <1>6, <1>7 DEF LooksCounted, Judging, Blames, Unset
<1>9. ReasonKnown'
  BY <1>1, <1>2, <1>6, <1>7 DEF ReasonKnown, Unset
<1>10. Finished' /\ Counting' /\ PatientWithCI'
  BY <1>1, <1>2, <1>6 DEF Finished, Counting, PatientWithCI, Unset
<1> QED BY <1>5, <1>8, <1>9, <1>10 DEF MQInv

LEMMA ToggledKeeps == MQInv /\ Toggled => MQInv'
<1> SUFFICES ASSUME MQInv, Toggled PROVE MQInv'
  OBVIOUS
<1> USE QueueNumbers
<1>1. MQTypeOK /\ LooksCounted /\ ReasonKnown /\ Finished /\ Counting /\ PatientWithCI
  BY DEF MQInv
<1>2. /\ mpc = "toggled" /\ mpc' = "loop" /\ stalls' = stalls + 1 /\ cycles' = 0 /\ Sleep(Backoff)
      /\ UNCHANGED <<place, checks, health, stuck, groups, missed, why, hidden, direct, look, ever, was, cache,
                     unknown, pending, result, unheard>>
  BY DEF Toggled, KeepGitHub
<1>3. Backoff \in Nat
  BY <1>1 DEF Backoff, MQTypeOK
<1>4. clock' \in 0..Budget /\ age' \in 0..Grace
  BY <1>1, <1>2, <1>3, SleepTypes
<1>5. stalls' \in 0..MaxStalls
  BY <1>1, <1>2 DEF MQTypeOK, Counting
<1>6. MQTypeOK'
  BY <1>1, <1>2, <1>4, <1>5 DEF MQTypeOK, Look
<1>7. LooksCounted'
  BY <1>1, <1>2 DEF LooksCounted, Judging, MQTypeOK
<1>8. result = Unset
  BY <1>1, <1>2 DEF Finished
<1>9. ReasonKnown'
  BY <1>1, <1>2, <1>8 DEF ReasonKnown, Unset
<1>10. Finished' /\ Counting' /\ PatientWithCI'
  BY <1>1, <1>2, <1>8 DEF Finished, Counting, PatientWithCI, Unset
<1> QED BY <1>6, <1>7, <1>9, <1>10 DEF MQInv

\* Whatever the timeouts, retries and grace, when the confirmation cycles outlast
\* the looks that hide a merge: a merged pull request is not reported dropped or
\* ejected unless it passed the queue unseen, "dropped healthy" is not said of one
\* its merge group put out, and running checks do not end the wait.
THEOREM QueueVerdictIsTrue == Lag < Confirm => (MQSpec => []QueueVerdictTrue)
<1> SUFFICES ASSUME Lag < Confirm PROVE MQSpec => []QueueVerdictTrue
  OBVIOUS
<1>1. MQInv /\ [MQNext]_mqVars => MQInv'
  <2> SUFFICES ASSUME MQInv, [MQNext]_mqVars PROVE MQInv'
    OBVIOUS
  <2>1. CASE UNCHANGED mqVars
    <3>1. UNCHANGED <<place, checks, health, stuck, groups, hidden, age, missed, why, mpc, direct, look, ever, was,
                      cache, cycles, unknown, pending, stalls, clock, result, unheard>>
      BY <2>1 DEF mqVars, githubVars, watchVars
    <3>2. MQTypeOK' /\ LooksCounted'
      BY <3>1 DEF MQInv, MQTypeOK, LooksCounted, Look
    <3>3. ReasonKnown' /\ Finished' /\ Counting' /\ PatientWithCI'
      BY <3>1 DEF MQInv, ReasonKnown, Finished, Counting, PatientWithCI
    <3> QED BY <3>2, <3>3 DEF MQInv
  <2> QED BY <2>1, GitHubKeeps, BeginKeeps, TimeUpKeeps, FetchFailsKeeps, FetchQueuedKeeps, FetchOutsideKeeps,
             AskKeeps, SettleKeeps, ToggleKeeps, ToggledKeeps DEF MQNext, Watcher
<1>2. MQInv => QueueVerdictTrue
  <2> SUFFICES ASSUME MQInv PROVE QueueVerdictTrue
    OBVIOUS
  <2> QED BY DEF MQInv, QueueVerdictTrue, MergedNotBlamed, HealthyDropIsHealthy, LooksCounted, ReasonKnown
<1> QED BY <1>1, <1>2, MQInitInv, PTL DEF MQSpec

-----------------------------------------------------------------------------
(* The CI watcher.                                                          *)

LEMMA CINumbers == Page \in Nat /\ Page > 0 /\ Patience \in Nat /\ MaxRuns \in Nat /\ MaxRuns > 0
BY CIAssumption

LEMMA CIParts ==
  ASSUME CIInv
  PROVE  /\ CITypeOK /\ CIFits /\ GoalTold /\ NothingOverlooked /\ TriggerUndone
         /\ runs \in Seq(Run) /\ Len(runs) \in Nat /\ DOMAIN runs = 1..Len(runs)
         /\ \A r \in 1..Len(runs) : runs[r] \in Run
         /\ local \in Commits /\ local # AnyCommit
         /\ looked \in Nat /\ found \in Nat /\ verdict.run \in Nat /\ time \in Nat
<1>1. CITypeOK /\ CIFits /\ GoalTold /\ NothingOverlooked /\ TriggerUndone
  BY DEF CIInv
<1>2. runs \in Seq(Run)
  BY <1>1 DEF CITypeOK
<1>3. local \in Commits /\ looked \in Nat /\ found \in Nat /\ verdict.run \in Nat /\ time \in Nat
  BY <1>1, CINumbers DEF CITypeOK
<1> QED BY <1>1, <1>2, <1>3 DEF Commits, AnyCommit

LEMMA CIInitInv == CIInit => CIInv
<1> SUFFICES ASSUME CIInit PROVE CIInv
  OBVIOUS
<1> USE CINumbers
<1>1. runs \in Seq(Run) /\ Len(runs) = 0
  BY DEF CIInit
<1>2. verdict \in CIVerdicts /\ verdict.conclusion = "none" /\ verdict.run = 0
  BY DEF CIInit, NoVerdict, NoRun, CIVerdicts
<1>3. {polled, triggered, foggy} \subseteq BOOLEAN
  <2>1. polled \in BOOLEAN /\ triggered \in BOOLEAN /\ foggy \in BOOLEAN
    BY DEF CIInit
  <2> QED BY <2>1
<1>4. CITypeOK
  BY <1>1, <1>2, <1>3 DEF CIInit, CITypeOK, Commits, AnyCommit, NoRun
<1>5. CIFits
  BY <1>1, <1>2 DEF CIInit, CIFits, NoRun
<1>6. GoalTold /\ NothingOverlooked /\ TriggerUndone
  BY <1>2 DEF CIInit, GoalTold, NothingOverlooked, TriggerUndone, Waiting, ToolSteps, Overlooked
<1> QED BY <1>4, <1>5, <1>6 DEF CIInv

\* The runs that are there stay, and a run that ended has ended for good.
LEMMA HubKeepsRuns ==
  ASSUME CIInv, Hub
  PROVE  /\ runs' \in Seq(Run) /\ Len(runs') \in Nat /\ Len(runs) <= Len(runs') /\ Len(runs') <= MaxRuns
         /\ \A r \in 1..Len(runs) :
              /\ runs'[r].sha = runs[r].sha /\ runs'[r].stale = runs[r].stale
              /\ runs[r].status # "active" => runs'[r].status # "active"
         /\ remote' \in {remote, "foreign"}
<1> USE CINumbers, CIParts
<1>1. CASE StartRun
  <2>1. PICK sha \in {"before", remote} :
          runs' = Append(runs, [sha |-> sha, status |-> "active", stale |-> FALSE])
    BY <1>1 DEF StartRun
  <2>2. [sha |-> sha, status |-> "active", stale |-> FALSE] \in Run
    <3>1. sha \in Commits
      BY DEF CITypeOK, Commits
    <3> QED BY <3>1 DEF Run, Statuses
  <2>3. runs' \in Seq(Run) /\ Len(runs') = Len(runs) + 1 /\ \A r \in 1..Len(runs) : runs'[r] = runs[r]
    BY <2>1, <2>2
  <2> QED BY <1>1, <2>3 DEF StartRun
<1>2. CASE EndRun
  <2>1. PICK e \in DOMAIN runs : runs[e].status = "active" /\ runs' = [runs EXCEPT ![e].status = "completed"]
    BY <1>2 DEF EndRun
  <2>2. \A r \in 1..Len(runs) : /\ runs'[r] \in Run /\ runs'[r].sha = runs[r].sha
                                /\ runs'[r].stale = runs[r].stale
                                /\ runs[r].status # "active" => runs'[r].status # "active"
    BY <2>1 DEF Run, Statuses
  <2>3. runs' \in Seq(Run) /\ Len(runs') = Len(runs)
    BY <2>1, <2>2
  <2> QED BY <1>2, <2>2, <2>3 DEF EndRun, CITypeOK
<1>3. CASE ForeignPush
  BY <1>3 DEF ForeignPush, CITypeOK
<1> QED BY <1>1, <1>2, <1>3 DEF Hub

LEMMA HubKeeps == CIInv /\ Hub => CIInv'
<1> SUFFICES ASSUME CIInv, Hub PROVE CIInv'
  OBVIOUS
<1> USE CINumbers
<1>1. /\ cpc \notin {"new", "done"}
      /\ UNCHANGED <<cpc, local, goal, known, time, found, verdict, polled, triggered, looked, foggy>>
  BY DEF Hub
<1>2. /\ runs' \in Seq(Run) /\ Len(runs') \in Nat /\ Len(runs) <= Len(runs') /\ Len(runs') <= MaxRuns
      /\ \A r \in 1..Len(runs) :
           /\ runs'[r].sha = runs[r].sha /\ runs'[r].stale = runs[r].stale
           /\ runs[r].status # "active" => runs'[r].status # "active"
      /\ remote' \in {remote, "foreign"}
  BY HubKeepsRuns
<1>3. /\ CITypeOK /\ CIFits /\ GoalTold /\ NothingOverlooked /\ TriggerUndone
      /\ Len(runs) \in Nat /\ looked \in Nat /\ found \in Nat /\ verdict.run \in Nat
  BY CIParts
<1>4. CITypeOK'
  BY <1>1, <1>2, <1>3 DEF CITypeOK, Commits
<1>5. CIFits'
  BY <1>1, <1>2, <1>3 DEF CIFits, CIVerdicts
<1>6. found # NoRun => (Matches(found)' <=> Matches(found))
  BY <1>1, <1>2, <1>3 DEF Matches, CIFits, NoRun
<1>7. looked > 0 => (Matches(looked)' <=> Matches(looked))
  BY <1>1, <1>2, <1>3 DEF Matches, CIFits
<1>8. GoalTold'
  <2>1. verdict.run # NoRun => runs'[verdict.run].sha = runs[verdict.run].sha
    BY <1>2, <1>3 DEF CIFits, NoRun
  <2> QED BY <1>1, <1>3, <1>6, <2>1 DEF GoalTold
<1>9. Overlooked => Overlooked'
  BY <1>1, <1>2, <1>3, CINumbers DEF Overlooked, CIFits
<1>10. NothingOverlooked'
  <2>1. looked > 0 /\ runs[looked].status # "active" => runs'[looked].status # "active"
    BY <1>2, <1>3 DEF CIFits
  <2> QED BY <1>1, <1>3, <1>7, <1>9, <2>1 DEF NothingOverlooked
<1>11. TriggerUndone'
  BY <1>1, <1>2, <1>3 DEF TriggerUndone
<1> QED BY <1>4, <1>5, <1>8, <1>10, <1>11 DEF CIInv

LEMMA CIBeginKeeps == CIInv /\ CIBegin => CIInv'
<1> SUFFICES ASSUME CIInv, CIBegin PROVE CIInv'
  OBVIOUS
<1> USE CINumbers
<1>1. /\ cpc = "new" /\ cpc' = "lookback"
      /\ UNCHANGED <<remote, local, known, time, found, verdict, polled, triggered, looked>>
      /\ \/ goal' = local /\ UNCHANGED foggy
         \/ goal' = AnyCommit /\ foggy' = TRUE
  BY DEF CIBegin
<1>2. /\ CITypeOK /\ CIFits /\ GoalTold /\ NothingOverlooked /\ TriggerUndone
      /\ Len(runs) \in Nat /\ looked \in Nat /\ found \in Nat /\ verdict.run \in Nat
  BY CIParts
<1>3. looked = 0 /\ found = 0 /\ verdict.run = 0
  <2>1. Len(runs) = 0
    BY <1>1, <1>2 DEF CIFits
  <2> QED BY <1>2, <2>1 DEF CIFits
<1>4. runs' \in Seq(Run) /\ Len(runs') \in 0..1
  <2>1. ASSUME NEW run \in Run PROVE <<run>> \in Seq(Run) /\ Len(<<run>>) = 1
    OBVIOUS
  <2>2. /\ [sha |-> "before", status |-> "active", stale |-> FALSE] \in Run
        /\ \A old \in BOOLEAN : [sha |-> "before", status |-> "completed", stale |-> old] \in Run
    BY DEF Run, Commits, Statuses
  <2>3. runs' = <<>> \/ \E run \in Run : runs' = <<run>>
    BY <2>2 DEF CIBegin
  <2>4. <<>> \in Seq(Run) /\ Len(<<>>) = 0
    OBVIOUS
  <2>5. CASE runs' = <<>>
    BY <2>4, <2>5
  <2>6. ASSUME NEW run \in Run, runs' = <<run>> PROVE runs' \in Seq(Run) /\ Len(runs') \in 0..1
    <3>1. <<run>> \in Seq(Run) /\ Len(<<run>>) = 1
      BY <2>1
    <3> QED BY <2>6, <3>1
  <2> QED BY <2>3, <2>5, <2>6
<1>5. CITypeOK'
  <2>1. foggy' \in BOOLEAN
    BY <1>1, <1>2 DEF CITypeOK
  <2>2. Len(runs') <= MaxRuns
    BY <1>4
  <2> QED BY <1>1, <1>2, <1>4, <2>1, <2>2 DEF CITypeOK
<1>6. CIFits'
  BY <1>1, <1>2, <1>3, <1>4 DEF CIFits, CIVerdicts
<1>7. GoalTold' /\ NothingOverlooked'
  BY <1>1, <1>2, <1>3 DEF GoalTold, NothingOverlooked, Waiting, ToolSteps
<1>8. TriggerUndone'
  BY <1>1, <1>2 DEF TriggerUndone
<1> QED BY <1>5, <1>6, <1>7, <1>8 DEF CIInv

\* A step of the wait, which leaves the runs, the branch and the commit waited for.
LEMMA WaitStep ==
  ASSUME CIInv, KeepCaller, UNCHANGED goal, cpc \in Waiting, cpc' \in Waiting \ {"lookback"},
         time' \in 0..Patience, found' \in 0..Len(runs), looked' \in 0..Len(runs), polled' \in BOOLEAN,
         verdict' \in CIVerdicts, verdict'.run <= Len(runs),
         cpc' \in {"recheck", "sleep"} => time' > 0,
         cpc' = "follow" => found' # NoRun /\ Matches(found'),
         cpc' = "ended" => verdict'.run = NoRun \/ Matches(verdict'.run),
         cpc' = "ended" /\ verdict'.conclusion = "no_runs" => verdict'.run = NoRun /\ Overlooked',
         Patience = 0 => looked' = 0,
         cpc' = "recheck" /\ looked' > 0 => runs[looked'].status # "active" \/ ~Matches(looked'),
         cpc' = "sleep" \/ (cpc' = "active" /\ time' < Patience) => Overlooked'
  PROVE  CIInv'
<1> USE CINumbers
<1>1. UNCHANGED <<runs, remote, local, known, foggy, triggered>>
  BY DEF KeepCaller, hubVars
<1>2. /\ CITypeOK /\ CIFits /\ GoalTold /\ NothingOverlooked /\ TriggerUndone
      /\ Len(runs) \in Nat /\ local # AnyCommit
  BY CIParts
<1>3. CITypeOK'
  <2>1. Len(runs) <= MaxRuns
    BY <1>2 DEF CITypeOK
  <2>2. found' \in 0..MaxRuns /\ looked' \in 0..MaxRuns
    BY <1>2, <2>1
  <2>3. verdict'.conclusion \in Conclusions \union {"none"} /\ verdict'.run \in 0..MaxRuns
    BY DEF CIVerdicts
  <2>4. polled' \in BOOLEAN /\ triggered' \in BOOLEAN /\ foggy' \in BOOLEAN
    BY <1>1, <1>2 DEF CITypeOK
  <2> QED BY <1>1, <1>2, <2>2, <2>3, <2>4 DEF CITypeOK, Waiting
<1>4. CIFits'
  BY <1>1, <1>2 DEF CIFits, CIVerdicts, Waiting
<1>5. GoalTold'
  <2>2. Matches(found)' <=> Matches(found')
    BY <1>1 DEF Matches
  <2>3. cpc' = "ended" /\ verdict'.run # NoRun /\ ~foggy => runs[verdict'.run].sha = local
    BY <1>2 DEF GoalTold, Matches, Waiting
  <2> QED BY <1>1, <1>2, <2>2, <2>3 DEF GoalTold, Waiting, ToolSteps
<1>6. NothingOverlooked'
  <2>1. Matches(looked)' <=> Matches(looked')
    BY <1>1 DEF Matches
  <2> QED BY <1>1, <2>1 DEF NothingOverlooked
<1>7. TriggerUndone'
  BY <1>1, <1>2 DEF TriggerUndone, Waiting
<1> QED BY <1>3, <1>4, <1>5, <1>6, <1>7 DEF CIInv

\* The newest of some runs is one of them.
LEMMA LatestIs ==
  ASSUME runs \in Seq(Run), NEW some \in SUBSET (DOMAIN runs), some # {}
  PROVE  Latest(some) \in some
<1>1. Len(runs) \in Nat /\ DOMAIN runs = 1..Len(runs)
  OBVIOUS
<1>2. \E r \in some : \A q \in some : q <= r
  BY <1>1, Ends
<1> QED BY <1>2 DEF Latest

\* What the look-back reports.
LEMMA ReportKeeps ==
  ASSUME CIInv, KeepCaller, UNCHANGED <<goal, found, looked>>, cpc \in Waiting, time' = time,
         polled' \in BOOLEAN, NEW r \in DOMAIN runs, runs[r].status # "active", Matches(r), Report(r)
  PROVE  CIInv'
<1>1. cpc' = "ended" /\ verdict' = [conclusion |-> runs[r].status, run |-> r]
  BY DEF Report, Conclude
<1>2. /\ r \in 1..Len(runs) /\ Len(runs) \in Nat /\ Len(runs) <= MaxRuns /\ runs[r] \in Run
      /\ looked <= Len(runs) /\ found <= Len(runs) /\ looked \in Nat /\ found \in Nat
      /\ time \in 0..Patience /\ (Patience = 0 => looked = 0)
  BY CIParts DEF CITypeOK, CIFits, NothingOverlooked
<1>3. verdict' \in CIVerdicts /\ verdict'.run = r /\ verdict'.conclusion # "no_runs"
  <2>1. runs[r].status \in (Conclusions \union {"none"}) \ {"no_runs"}
    <3>1. runs[r].status = "completed"
      BY <1>2 DEF Run, Statuses
    <3> QED BY <3>1 DEF Conclusions
  <2>2. r \in 0..MaxRuns
    BY <1>2, CINumbers
  <2> QED BY <1>1, <2>1, <2>2 DEF CIVerdicts
<1>4. found' \in 0..Len(runs) /\ looked' \in 0..Len(runs) /\ r <= Len(runs)
  BY <1>2
<1> QED BY <1>1, <1>2, <1>3, <1>4, WaitStep DEF Waiting

LEMMA LookbackKeeps == CIInv /\ Lookback => CIInv'
<1> SUFFICES ASSUME CIInv, Lookback PROVE CIInv'
  OBVIOUS
<1>1. cpc = "lookback" /\ KeepCaller /\ UNCHANGED <<goal, time, found, polled, looked>>
  BY DEF Lookback
<1>2. /\ runs \in Seq(Run) /\ Len(runs) \in Nat /\ looked \in Nat /\ found \in Nat /\ verdict \in CIVerdicts
      /\ looked <= Len(runs) /\ found <= Len(runs) /\ verdict.run <= Len(runs) /\ polled \in BOOLEAN
      /\ time = Patience /\ (Patience = 0 => looked = 0)
  BY <1>1, CIParts DEF CITypeOK, CIFits, NothingOverlooked
<1>3. CASE CompletedMatch # {} /\ Report(Latest(CompletedMatch))
  <2>1. /\ CompletedMatch \in SUBSET DOMAIN runs
        /\ \A r \in CompletedMatch : Matches(r) /\ runs[r].status # "active"
    BY DEF CompletedMatch, Completed, Ended
  <2>2. Latest(CompletedMatch) \in CompletedMatch
    BY <1>2, <1>3, <2>1, LatestIs
  <2> QED BY <1>1, <1>2, <1>3, <2>1, <2>2, ReportKeeps DEF Waiting
<1>4. CASE cpc' = "active" /\ UNCHANGED verdict
  <2>1. time' \in 0..Patience /\ found' \in 0..Len(runs) /\ looked' \in 0..Len(runs) /\ ~(time' < Patience)
    BY <1>1, <1>2, CINumbers
  <2> QED BY <1>1, <1>2, <1>4, <2>1, WaitStep DEF Waiting
<1> QED BY <1>3, <1>4 DEF Lookback

\* A run of the last look that matches, has ended and is not too old is still on
\* the page of completed runs, unless a page of runs has started since.
LEMMA LookedIsOnPage ==
  ASSUME CIInv, CompletedMatch = {}, looked > 0, Len(runs) - looked < Page,
         runs[looked].status # "active" \/ ~Matches(looked)
  PROVE  runs[looked].stale \/ ~Matches(looked)
<1> SUFFICES ASSUME runs[looked].status # "active", ~runs[looked].stale, Matches(looked) PROVE FALSE
  BY CIParts DEF CIFits, Run
<1>1. Len(runs) \in Nat /\ looked \in Nat /\ looked <= Len(runs) /\ DOMAIN runs = 1..Len(runs)
  BY CIParts DEF CIFits
<1> DEFINE Later == {q \in Ended : q > looked}
           Since == (looked + 1)..Len(runs)
<1>2. looked \in Ended /\ Later \subseteq Since
  BY <1>1 DEF Ended
<1>3. IsFiniteSet(Since) /\ Cardinality(Since) = Len(runs) - looked
  BY <1>1, FS_Interval
<1>4. IsFiniteSet(Later) /\ Cardinality(Later) <= Cardinality(Since)
  BY <1>2, <1>3, FS_Subset
<1>5. Cardinality(Later) \in Nat
  BY <1>4, FS_CardinalityType
<1>6. Cardinality(Later) < Page
  BY <1>1, <1>3, <1>4, <1>5, CINumbers
<1> QED BY <1>2, <1>6 DEF CompletedMatch, Completed

LEMMA RecheckKeeps == CIInv /\ Recheck => CIInv'
<1> SUFFICES ASSUME CIInv, Recheck PROVE CIInv'
  OBVIOUS
<1>1. cpc = "recheck" /\ KeepCaller /\ UNCHANGED <<goal, time, found, polled, looked>>
  BY DEF Recheck
<1>2. /\ runs \in Seq(Run) /\ Len(runs) \in Nat /\ looked \in Nat /\ found \in Nat /\ verdict \in CIVerdicts
      /\ looked <= Len(runs) /\ found <= Len(runs) /\ verdict.run <= Len(runs) /\ polled \in BOOLEAN
      /\ time \in 0..Patience /\ time > 0 /\ (Patience = 0 => looked = 0)
      /\ (looked > 0 => runs[looked].status # "active" \/ ~Matches(looked))
  BY <1>1, CIParts DEF CITypeOK, CIFits, NothingOverlooked
<1>3. CASE CompletedMatch # {} /\ Report(Latest(CompletedMatch))
  <2>1. /\ CompletedMatch \in SUBSET DOMAIN runs
        /\ \A r \in CompletedMatch : Matches(r) /\ runs[r].status # "active"
    BY DEF CompletedMatch, Completed, Ended
  <2>2. Latest(CompletedMatch) \in CompletedMatch
    BY <1>2, <1>3, <2>1, LatestIs
  <2> QED BY <1>1, <1>2, <1>3, <2>1, <2>2, ReportKeeps DEF Waiting
<1>4. CASE CompletedMatch = {} /\ cpc' = "sleep" /\ UNCHANGED verdict
  <2>1. Overlooked'
    <3>1. UNCHANGED <<runs, goal, looked>>
      BY <1>1 DEF KeepCaller, hubVars
    <3>2. Overlooked
      BY <1>2, <1>4, LookedIsOnPage DEF Overlooked, Matches
    <3> QED BY <3>1, <3>2 DEF Overlooked
  <2>2. found' \in 0..Len(runs) /\ looked' \in 0..Len(runs) /\ time' > 0 /\ time' \in 0..Patience
    BY <1>1, <1>2
  <2> QED BY <1>1, <1>2, <1>4, <2>1, <2>2, WaitStep DEF Waiting
<1> QED BY <1>3, <1>4 DEF Recheck

LEMMA PollActiveKeeps == CIInv /\ PollActive => CIInv'
<1> SUFFICES ASSUME CIInv, PollActive PROVE CIInv'
  OBVIOUS
<1>1. cpc = "active" /\ time > 0 /\ looked' = Len(runs) /\ KeepCaller /\ UNCHANGED <<goal, verdict, polled>>
  BY DEF PollActive
<1>2. /\ runs \in Seq(Run) /\ Len(runs) \in Nat /\ found \in Nat /\ verdict \in CIVerdicts
      /\ found <= Len(runs) /\ verdict.run <= Len(runs) /\ polled \in BOOLEAN
      /\ time \in 0..Patience /\ DOMAIN runs = 1..Len(runs)
  BY CIParts DEF CITypeOK, CIFits
<1>3. Patience # 0
  BY <1>1, <1>2, CINumbers
<1>4. CASE /\ ActiveMatch # {} /\ found' = Latest(ActiveMatch) /\ cpc' = "follow" /\ time' \in {0, time}
  <2>1. ActiveMatch \in SUBSET DOMAIN runs
    BY DEF ActiveMatch
  <2>2. found' \in ActiveMatch
    BY <1>2, <1>4, <2>1, LatestIs
  <2>3. found' \in 1..Len(runs) /\ Matches(found')
    BY <1>2, <2>2 DEF ActiveMatch
  <2>4. time' \in 0..Patience /\ found' \in 0..Len(runs) /\ found' # NoRun /\ looked' \in 0..Len(runs)
    BY <1>1, <1>2, <1>4, <2>3, CINumbers DEF NoRun
  <2> QED BY <1>1, <1>2, <1>3, <1>4, <2>3, <2>4, WaitStep DEF Waiting
<1>5. CASE ActiveMatch = {} /\ cpc' = "recheck" /\ UNCHANGED <<found, time>>
  <2>1. looked' > 0 => runs[looked'].status # "active" \/ ~Matches(looked')
    BY <1>1, <1>2, <1>5 DEF ActiveMatch
  <2>2. found' \in 0..Len(runs) /\ looked' \in 0..Len(runs) /\ time' > 0 /\ time' \in 0..Patience
    BY <1>1, <1>2, <1>5
  <2> QED BY <1>1, <1>2, <1>3, <1>5, <2>1, <2>2, WaitStep DEF Waiting
<1> QED BY <1>4, <1>5 DEF PollActive

LEMMA EndsKeep == CIInv /\ (RequestFails \/ NoRuns \/ FollowTimeUp) => CIInv'
<1> SUFFICES ASSUME CIInv, RequestFails \/ NoRuns \/ FollowTimeUp PROVE CIInv'
  OBVIOUS
<1>1. /\ cpc \in Waiting /\ cpc' = "ended" /\ KeepCaller /\ UNCHANGED <<goal, time, found, polled, looked>>
      /\ \/ verdict' = [conclusion |-> "error", run |-> NoRun]
         \/ verdict' = [conclusion |-> "no_runs", run |-> NoRun] /\ cpc = "active" /\ time = 0
         \/ \E c \in {"timed_out", "raised"} : verdict' = [conclusion |-> c, run |-> found] /\ cpc = "follow"
  BY DEF RequestFails, NoRuns, FollowTimeUp, Conclude, Waiting
<1>2. /\ Len(runs) \in Nat /\ looked \in Nat /\ found \in Nat /\ polled \in BOOLEAN
      /\ looked <= Len(runs) /\ found <= Len(runs) /\ Len(runs) <= MaxRuns
      /\ time \in 0..Patience /\ (Patience = 0 => looked = 0)
      /\ (cpc = "follow" => Matches(found))
      /\ (cpc = "active" /\ time < Patience => Overlooked)
  BY CIParts DEF CITypeOK, CIFits, NothingOverlooked, GoalTold
<1>3. verdict' \in CIVerdicts /\ verdict'.run <= Len(runs)
  BY <1>1, <1>2, CINumbers DEF CIVerdicts, Conclusions, NoRun
<1>4. verdict'.run = NoRun \/ Matches(verdict'.run)
  BY <1>1, <1>2
<1>5. verdict'.conclusion = "no_runs" => verdict'.run = NoRun /\ Overlooked'
  <2> SUFFICES ASSUME verdict'.conclusion = "no_runs" PROVE verdict'.run = NoRun /\ Overlooked'
    OBVIOUS
  <2>1. verdict'.run = NoRun /\ cpc = "active" /\ time = 0
    BY <1>1
  <2>2. Overlooked
    BY <1>2, <2>1, CINumbers DEF Overlooked
  <2>3. UNCHANGED <<runs, goal, looked>>
    BY <1>1 DEF KeepCaller, hubVars
  <2> QED BY <2>1, <2>2, <2>3 DEF Overlooked
<1>6. found' \in 0..Len(runs) /\ looked' \in 0..Len(runs)
  BY <1>1, <1>2
<1> QED BY <1>1, <1>2, <1>3, <1>4, <1>5, <1>6, WaitStep DEF Waiting

LEMMA PollSleepKeeps == CIInv /\ PollSleep => CIInv'
<1> SUFFICES ASSUME CIInv, PollSleep PROVE CIInv'
  OBVIOUS
<1>1. cpc = "sleep" /\ cpc' = "active" /\ time' = time - 1 /\ KeepCaller
      /\ UNCHANGED <<goal, found, verdict, polled, looked>>
  BY DEF PollSleep
<1>2. /\ Len(runs) \in Nat /\ looked \in Nat /\ found \in Nat /\ verdict \in CIVerdicts
      /\ looked <= Len(runs) /\ found <= Len(runs) /\ verdict.run <= Len(runs) /\ polled \in BOOLEAN
      /\ time \in 0..Patience /\ time > 0 /\ (Patience = 0 => looked = 0) /\ Overlooked
  BY <1>1, CIParts DEF CITypeOK, CIFits, NothingOverlooked
<1>3. Overlooked'
  <2>1. UNCHANGED <<runs, goal, looked>>
    BY <1>1 DEF KeepCaller, hubVars
  <2> QED BY <1>2, <2>1 DEF Overlooked
<1>4. time' \in 0..Patience /\ found' \in 0..Len(runs) /\ looked' \in 0..Len(runs)
  BY <1>1, <1>2, CINumbers
<1> QED BY <1>1, <1>2, <1>3, <1>4, WaitStep DEF Waiting

LEMMA FollowKeeps == CIInv /\ Follow => CIInv'
<1> SUFFICES ASSUME CIInv, Follow PROVE CIInv'
  OBVIOUS
<1>1. cpc = "follow" /\ time > 0 /\ polled' = TRUE /\ KeepCaller /\ UNCHANGED <<goal, found, looked>>
  BY DEF Follow
<1>2. /\ Len(runs) \in Nat /\ DOMAIN runs = 1..Len(runs) /\ looked \in Nat /\ found \in Nat /\ verdict \in CIVerdicts
      /\ looked <= Len(runs) /\ found <= Len(runs) /\ verdict.run <= Len(runs)
      /\ time \in 0..Patience /\ (Patience = 0 => looked = 0) /\ found # NoRun /\ Matches(found)
  BY <1>1, CIParts DEF CITypeOK, CIFits, NothingOverlooked, GoalTold
<1>3. polled' \in BOOLEAN
  BY <1>1
<1>4. CASE runs[found].status # "active" /\ Report(found) /\ UNCHANGED time
  <2>1. found \in DOMAIN runs
    BY <1>2 DEF NoRun
  <2> QED BY <1>1, <1>2, <1>3, <1>4, <2>1, ReportKeeps DEF Waiting
<1>5. CASE time' = time - 1 /\ UNCHANGED <<cpc, verdict>>
  <2>1. time' \in 0..Patience /\ found' \in 0..Len(runs) /\ looked' \in 0..Len(runs)
    BY <1>1, <1>2, <1>5, CINumbers
  <2> QED BY <1>1, <1>2, <1>3, <1>5, <2>1, WaitStep DEF Waiting
<1> QED BY <1>4, <1>5 DEF Follow

\* The tool's steps, which leave the wait's own state.
LEMMA AnsweredKeeps == CIInv /\ (Answered \/ ViewPR) => CIInv'
<1> SUFFICES ASSUME CIInv, Answered \/ ViewPR PROVE CIInv'
  OBVIOUS
<1> USE CINumbers
<1>1. /\ UNCHANGED <<runs, remote, local, known, foggy, triggered, time, found, polled, looked, goal>>
      /\ \/ cpc = "ended" /\ cpc' = "view" /\ UNCHANGED verdict /\ verdict.conclusion = "no_runs"
         \/ cpc = "view" /\ cpc' = "commit" /\ UNCHANGED verdict
         \/ /\ cpc \in {"ended", "view"} /\ cpc' = "done"
            /\ \E c \in {"gh_view_failed", "merge_conflict", "auto_trigger_failed", "error", verdict.conclusion} :
                 verdict' = [verdict EXCEPT !.conclusion = c]
  BY DEF Answered, ViewPR, KeepCaller, KeepWatcher, hubVars, Finish
<1>2. CITypeOK /\ CIFits /\ GoalTold /\ NothingOverlooked /\ TriggerUndone
  BY CIParts
<1>3. verdict' \in CIVerdicts /\ verdict'.run = verdict.run
      /\ (verdict'.conclusion = "no_runs" => verdict.conclusion = "no_runs")
  BY <1>1, <1>2 DEF CIFits, CIVerdicts, Conclusions
<1>4. CITypeOK'
  <2>1. verdict'.conclusion \in Conclusions \union {"none"} /\ verdict'.run \in 0..MaxRuns
    BY <1>3 DEF CIVerdicts
  <2> QED BY <1>1, <1>2, <2>1 DEF CITypeOK
<1>5. CIFits'
  BY <1>1, <1>2, <1>3 DEF CIFits, CIVerdicts
<1>6. GoalTold'
  BY <1>1, <1>2, <1>3 DEF GoalTold, Waiting, ToolSteps
<1>7. NothingOverlooked'
  BY <1>1, <1>2 DEF NothingOverlooked
<1>8. TriggerUndone'
  BY <1>1, <1>2 DEF TriggerUndone
<1> QED BY <1>4, <1>5, <1>6, <1>7, <1>8 DEF CIInv

LEMMA CommitKeeps == CIInv /\ (EmptyCommit \/ ResetTrigger) => CIInv'
<1> SUFFICES ASSUME CIInv, EmptyCommit \/ ResetTrigger PROVE CIInv'
  OBVIOUS
<1> USE CINumbers
<1>1. /\ UNCHANGED <<runs, remote, known, triggered, verdict, time, found, polled, looked>>
      /\ \/ cpc = "commit" /\ cpc' = "done" /\ UNCHANGED <<local, goal, foggy>>
         \/ cpc = "commit" /\ cpc' = "push" /\ local' = "trigger" /\ goal' = local' /\ UNCHANGED foggy
         \/ cpc = "commit" /\ cpc' = "push" /\ local' = "trigger" /\ goal' = AnyCommit /\ foggy' = TRUE
         \/ cpc = "reset" /\ cpc' = "done" /\ local' = "head" /\ UNCHANGED <<goal, foggy>>
         \/ cpc = "reset" /\ cpc' = "done" /\ foggy' = TRUE /\ UNCHANGED <<local, goal>>
  BY DEF EmptyCommit, ResetTrigger, KeepWatcher, hubVars
<1>2. CITypeOK /\ CIFits /\ GoalTold /\ NothingOverlooked /\ TriggerUndone
  BY CIParts
<1>3. CITypeOK'
  <2>1. foggy' \in BOOLEAN
    BY <1>1, <1>2 DEF CITypeOK
  <2> QED BY <1>1, <1>2, <2>1 DEF CITypeOK, Commits
<1>4. CIFits'
  BY <1>1, <1>2 DEF CIFits, CIVerdicts
<1>5. GoalTold'
  <2>1. verdict.run = NoRun
    BY <1>1, <1>2 DEF GoalTold, ToolSteps
  <2> QED BY <1>1, <1>2, <2>1 DEF GoalTold, Waiting, ToolSteps
<1>6. NothingOverlooked'
  BY <1>1, <1>2 DEF NothingOverlooked
<1>7. TriggerUndone'
  BY <1>1, <1>2 DEF TriggerUndone
<1> QED BY <1>3, <1>4, <1>5, <1>6, <1>7 DEF CIInv

LEMMA PushTriggerKeeps == CIInv /\ PushTrigger => CIInv'
<1> SUFFICES ASSUME CIInv, PushTrigger PROVE CIInv'
  OBVIOUS
<1> USE CINumbers
<1>1. /\ cpc = "push" /\ UNCHANGED <<runs, local, goal, found, looked, verdict>>
      /\ \/ /\ cpc' = "lookback" /\ triggered' = TRUE /\ time' = Patience /\ polled' = FALSE
            /\ remote' = local /\ known' = local /\ UNCHANGED foggy
         \/ /\ cpc' = "reset" /\ UNCHANGED <<triggered, time, polled, known>>
            /\ UNCHANGED <<remote, foggy>> \/ (remote' = local /\ foggy' = TRUE)
  BY DEF PushTrigger, Lands
<1>2. CITypeOK /\ CIFits /\ GoalTold /\ NothingOverlooked /\ TriggerUndone
  BY CIParts
<1>3. CITypeOK'
  <2>1. foggy' \in BOOLEAN /\ triggered' \in BOOLEAN /\ polled' \in BOOLEAN
    BY <1>1, <1>2 DEF CITypeOK
  <2>2. remote' \in Commits /\ known' \in Commits /\ time' \in 0..Patience
    BY <1>1, <1>2 DEF CITypeOK
  <2> QED BY <1>1, <1>2, <2>1, <2>2 DEF CITypeOK
<1>4. CIFits'
  BY <1>1, <1>2 DEF CIFits, CIVerdicts
<1>5. GoalTold'
  <2>1. verdict.run = NoRun
    BY <1>1, <1>2 DEF GoalTold, ToolSteps
  <2> QED BY <1>1, <1>2, <2>1 DEF GoalTold, Waiting, ToolSteps
<1>6. NothingOverlooked'
  BY <1>1, <1>2 DEF NothingOverlooked
<1>7. TriggerUndone'
  BY <1>1, <1>2 DEF TriggerUndone
<1> QED BY <1>3, <1>4, <1>5, <1>6, <1>7 DEF CIInv

\* Whatever GitHub and other people do, and however long the wait: a conclusion is
\* reported of a run of the caller's commit, "no runs" is not said of a commit whose
\* run was there to see, and a trigger that failed is undone.
THEOREM CIVerdictIsTrue == CISpec => []CIVerdictTrue
<1>1. CIInv /\ [CINext]_ciVars => CIInv'
  <2> SUFFICES ASSUME CIInv, [CINext]_ciVars PROVE CIInv'
    OBVIOUS
  <2>1. CASE UNCHANGED ciVars
    <3>1. UNCHANGED <<runs, remote, cpc, local, goal, known, time, found, verdict, polled, triggered, looked,
                      foggy>>
      BY <2>1 DEF ciVars, hubVars
    <3>2. CITypeOK' /\ CIFits' /\ TriggerUndone'
      BY <3>1 DEF CIInv, CITypeOK, CIFits, CIVerdicts, TriggerUndone
    <3>3. (Matches(found)' <=> Matches(found)) /\ (Matches(looked)' <=> Matches(looked))
          /\ (Overlooked' <=> Overlooked)
      BY <3>1 DEF Matches, Overlooked
    <3>4. GoalTold' /\ NothingOverlooked'
      BY <3>1, <3>3 DEF CIInv, GoalTold, NothingOverlooked
    <3> QED BY <3>2, <3>4 DEF CIInv
  <2> QED BY <2>1, HubKeeps, CIBeginKeeps, EndsKeep, LookbackKeeps, PollActiveKeeps, RecheckKeeps, PollSleepKeeps,
             FollowKeeps, AnsweredKeeps, CommitKeeps, PushTriggerKeeps DEF CINext, CIWait, CITool
<1>2. CIInv => CIVerdictTrue
  <2> SUFFICES ASSUME CIInv PROVE CIVerdictTrue
    OBVIOUS
  <2>1. VerdictOfHead
    BY DEF CIInv, VerdictOfHead, GoalTold, CIDone
  <2>2. NoRunsIsTrue
    BY DEF CIInv, NoRunsIsTrue, NothingOverlooked, Overlooked
  <2>3. FailedTriggerUndone
    BY DEF CIInv, FailedTriggerUndone, TriggerUndone
  <2> QED BY <2>1, <2>2, <2>3 DEF CIInv, CIVerdictTrue
<1> QED BY <1>1, <1>2, CIInitInv, PTL DEF CISpec
=============================================================================
