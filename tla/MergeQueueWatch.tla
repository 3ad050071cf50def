-------------------------- MODULE MergeQueueWatch --------------------------
(***************************************************************************)
(* The merge queue watcher: it polls one pull request until it is merged,  *)
(* ejected, dropped, stalled or the time is up, and re-enrolls it when it  *)
(* stalls.  GitHub, the queue and people move the pull request meanwhile,  *)
(* and a merge becomes visible only some looks after it happened.          *)
(***************************************************************************)
EXTENDS Integers, Sequences

CONSTANTS Confirm,       \* not_in_queue_confirmation_cycles
          MaxStalls,     \* max_stall_retries
          MaxUnknown,    \* max_inconclusive_retries
          Grace,         \* stall_grace_period, in polls
          Budget,        \* timeout_seconds, in polls
          Lag,           \* looks for which a merge stays invisible
          MaxGroups,     \* bound: merge groups GitHub builds
          Healths,       \* merge states GitHub may report
          MaxMoves       \* bound: moves of GitHub and its users

ASSUME QueueAssumption ==
  /\ {Confirm, MaxStalls, MaxUnknown, Grace, Budget, Lag, MaxGroups, MaxMoves} \subseteq Nat
  /\ MaxGroups > 0
  /\ Healths \subseteq {"clean", "hooks", "blocked", "conflicting"} /\ "clean" \in Healths

VARIABLES place,   \* GitHub: where the pull request is
          checks, health,
          stuck,   \* its queue entry is UNMERGEABLE
          groups,  \* its merge-group runs, newest first
          hidden,  \* looks that did not show the merge
          age,     \* polls since auto-merge was enabled
          mpc, direct, look, ever, was, cache, cycles, unknown, pending, stalls,
          clock,   \* polls left before the deadline
          result,
          missed,  \* history: in the queue since the last look that saw it there
          why,     \* history: what its last merge group did to it
          unheard, \* history: since it was seen in the queue, a look that could
                   \* not tell why it left
          moves    \* bound: moves left

githubVars == <<place, checks, health, stuck, groups, hidden, age, missed, why>>
watchVars == <<mpc, direct, look, ever, was, cache, cycles, unknown, pending, stalls,
               clock, result, unheard>>
mqVars == <<githubVars, watchVars, moves>>

Places == {"out", "auto", "queued", "landed", "merged", "closed"}
CheckStates == {"green", "red", "pending"}
Blames == {"EJECTED", "EJECTED_CI_FAILURE", "DROPPED_HEALTHY", "DROPPED_MERGE_GROUP_CI",
           "NOT_ENROLLED"}
PRState == Blames \union {"MERGED", "STALLED", "TIMEOUT"}
Unset == "unset"
Look == [place : Places, checks : CheckStates, health : Healths, stuck : BOOLEAN,
         aged : BOOLEAN]
Current == [place |-> place, checks |-> checks, health |-> health, stuck |-> stuck,
            aged |-> place = "auto" /\ age >= Grace]

MQTypeOK ==
  /\ place \in Places /\ checks \in CheckStates /\ health \in Healths
  /\ {stuck, direct, ever, was, pending, missed, unheard} \subseteq BOOLEAN
  /\ groups \in Seq({"running", "passed", "failed"}) /\ Len(groups) <= MaxGroups
  /\ hidden \in 0..Lag /\ age \in 0..Grace /\ clock \in 0..Budget
  /\ mpc \in {"new", "loop", "left", "settle", "disabled", "confirmed", "toggled", "done"}
  /\ look \in Look /\ cache \in {Unset, "passed", "failed"}
  /\ cycles \in 0..Confirm /\ unknown \in 0..(MaxUnknown + 1) /\ stalls \in 0..MaxStalls
  /\ result \in PRState \union {Unset} /\ why \in {Unset, "passed", "failed", "running"}

MQInit ==
  /\ place = "out" /\ checks = "green" /\ health = "clean" /\ stuck = FALSE
  /\ groups = <<>> /\ hidden = 0 /\ age = 0 /\ missed = FALSE /\ why = Unset
  /\ mpc = "new" /\ direct = FALSE /\ look = Current
  /\ ever = FALSE /\ was = FALSE /\ cache = Unset /\ unheard = FALSE
  /\ cycles = 0 /\ unknown = 0 /\ pending = FALSE /\ stalls = 0
  /\ clock = Budget /\ result = Unset /\ moves = MaxMoves

----------------------------------------------------------------------------
(* GitHub, its queue and the people who use it.                             *)

Place(to) == place' = to /\ UNCHANGED <<checks, health, age>>

Changes ==
  /\ place \in {"out", "auto", "queued"}
  /\ \/ checks' \in CheckStates /\ UNCHANGED health
     \/ health' \in Healths /\ UNCHANGED checks
  /\ UNCHANGED <<place, stuck, groups, hidden, age, missed, why>>

\* Auto-merge is requested.
Enroll ==
  /\ place = "out" /\ place' = "auto" /\ age' = 0
  /\ UNCHANGED <<checks, health, stuck, groups, hidden, missed, why>>

Withdraw ==
  /\ place \in {"out", "auto"}
  /\ place' \in {"out", "closed"} \ {place} /\ age' = 0 /\ UNCHANGED <<checks, health>>
  /\ UNCHANGED <<stuck, groups, hidden, missed, why>>

JoinQueue ==
  /\ Len(groups) < MaxGroups
  /\ place' = "queued" /\ age' = 0 /\ UNCHANGED <<checks, health>>
  /\ groups' = <<"running">> \o groups /\ stuck' = FALSE
  /\ missed' = TRUE /\ UNCHANGED <<hidden, why>>

Queue == place = "auto" /\ checks = "green" /\ JoinQueue

GroupEnds ==
  /\ groups # <<>> /\ groups[1] = "running"
  /\ \E r \in {"passed", "failed"} : groups' = [groups EXCEPT ![1] = r]
  /\ UNCHANGED <<place, checks, health, stuck, hidden, age, missed, why>>

Unmergeable ==
  /\ place = "queued" /\ ~stuck /\ stuck' = TRUE
  /\ UNCHANGED <<place, checks, health, groups, hidden, age, missed, why>>

\* The group passed and landed, or it is put out: by its group or by hand.
LeaveQueue ==
  /\ place = "queued"
  /\ \/ groups[1] = "passed" /\ Place("landed") /\ hidden' = 0
     \/ Place("out") /\ UNCHANGED hidden
  /\ why' = groups[1] /\ stuck' = FALSE
  /\ UNCHANGED <<groups, missed>>

ShowMerge ==
  /\ place = "landed" /\ Place("merged")
  /\ UNCHANGED <<stuck, groups, hidden, missed, why, watchVars, moves>>

\* Bound: MaxMoves moves.
GitHub ==
  /\ moves > 0 /\ moves' = moves - 1
  /\ \/ Changes \/ Enroll \/ Withdraw \/ Queue \/ GroupEnds \/ Unmergeable
     \/ LeaveQueue
  /\ UNCHANGED watchVars

----------------------------------------------------------------------------
(* What a look says.                                                        *)

Red == look.checks = "red"
Healthy ==
  look.place \in {"out", "landed"} /\ look.health = "clean" /\ look.checks = "green"

Signal(when, terminal) == [when |-> when, terminal |-> terminal]

\* The classifier's gates in the order it tries them; group: the CI of the
\* merge group it left, when the watcher knows it.
Gates(group) ==
  <<Signal(look.place = "merged", "MERGED"),
    Signal(look.place = "closed" /\ Red, "EJECTED_CI_FAILURE"),
    Signal(look.place = "closed", "EJECTED"),
    Signal(Red, "EJECTED_CI_FAILURE"),
    Signal(look.place = "auto" /\ look.health \in {"clean", "hooks"}, "STALLED"),
    Signal(look.health = "conflicting", "EJECTED"),
    Signal(ever /\ Healthy /\ group = "failed", "DROPPED_MERGE_GROUP_CI"),
    Signal(ever /\ Healthy, "DROPPED_HEALTHY"),
    Signal(~ever /\ Healthy, "NOT_ENROLLED"),
    Signal(look.checks = "pending", "CIStillRunning"),
    Signal(TRUE, "NoPositiveSignal")>>

First(gates) ==
  gates[CHOOSE i \in DOMAIN gates :
          gates[i].when /\ \A j \in 1..(i - 1) : ~gates[j].when].terminal

Classify(group) == First(Gates(group))

\* The newest run of the merge group that has a conclusion.
Concluded(runs) ==
  LET ended == {i \in DOMAIN runs : runs[i] # "running"}
  IN  IF ended = {} THEN Unset ELSE runs[CHOOSE i \in ended : \A j \in ended : i <= j]

----------------------------------------------------------------------------
(* The watcher.                                                             *)

Plus(n, k, cap) == IF n + k > cap THEN cap ELSE n + k

Sleep(polls) ==
  /\ clock' = clock - Plus(0, polls, clock)
  /\ age' = IF place = "auto" THEN Plus(age, polls, Grace) ELSE 0

\* Mutant: the poll is retried at once.
NoSleep == UNCHANGED <<clock, age>>

Poll == Sleep(1)

\* It doubles, up to two minutes: a poll is 15 seconds.
Backoff == IF stalls < 2 THEN 2 * (stalls + 1) ELSE 8

KeepGitHub == UNCHANGED <<place, checks, health, stuck, groups, missed, why>>
Return(r) == mpc' = "done" /\ result' = r

\* enqueue_pr, which may fail, and then wait_for_merge_queue.
Begin ==
  /\ mpc = "new" /\ mpc' = "loop" /\ direct' \in BOOLEAN /\ checks' \in CheckStates
  /\ \/ UNCHANGED <<place, groups, missed>>
     \/ ~direct' /\ place' = "auto" /\ UNCHANGED <<groups, missed>>
     \/ direct' /\ place' = "queued" /\ groups' = <<"running">> /\ missed' = TRUE
  /\ UNCHANGED <<health, stuck, why, hidden, age, look, ever, was, cache, cycles, unknown,
                 pending, stalls, clock, result, unheard>>

TimeUp ==
  /\ mpc = "loop" /\ clock = 0 /\ Return("TIMEOUT")
  /\ KeepGitHub
  /\ UNCHANGED <<hidden, age, direct, look, ever, was, cache, cycles, unknown, pending,
                 stalls, clock, unheard>>

FetchFails ==
  /\ mpc = "loop" /\ clock > 0
  /\ Poll
  /\ KeepGitHub
  /\ UNCHANGED <<hidden, mpc, direct, look, ever, was, cache, cycles, unknown, pending,
                 stalls, result, unheard>>

\* External: after Lag looks that did not show it, a merge is visible.
Shown == IF place = "landed" /\ hidden = Lag THEN "merged" ELSE place

Fetch ==
  /\ mpc = "loop" /\ clock > 0
  /\ place' = Shown /\ look' = [Current EXCEPT !.place = Shown]
  /\ hidden' = IF Shown = "landed" THEN hidden + 1 ELSE hidden
  /\ ever' = (ever \/ place \in {"queued", "auto"})
  /\ UNCHANGED <<checks, health, stuck, groups, why, direct, stalls, result>>

FetchQueued ==
  /\ Fetch /\ place = "queued"
  /\ was' = TRUE /\ cache' = Unset /\ cycles' = 0 /\ unknown' = 0
  /\ pending' = stuck
  /\ missed' = FALSE /\ unheard' = FALSE
  /\ Poll /\ UNCHANGED mpc

FetchOutside ==
  /\ Fetch /\ place # "queued"
  /\ cycles' = Plus(cycles, 1, Confirm)
  /\ mpc' = IF was /\ checks # "red" THEN "left" ELSE "settle"
  /\ was' = (was /\ checks # "red")
  /\ unheard' = (unheard \/ (was /\ checks = "red"))
  /\ UNCHANGED <<cache, unknown, pending, clock, age, missed>>

AskMergeGroup ==
  /\ mpc = "left" /\ mpc' = "settle"
  /\ \/ cache' = Concluded(groups) /\ UNCHANGED unheard
     \/ cache' = Unset /\ unheard' = (unheard \/ cycles >= Confirm)
  /\ was' = (cache' = Unset /\ cycles < Confirm)
  /\ KeepGitHub
  /\ UNCHANGED <<hidden, age, direct, look, ever, cycles, unknown, pending, stalls,
                 clock, result>>

\* Mutant: the first look outside the queue is definitive.
ConfirmedAtOnce == cycles > 0

Confirmed == cycles >= Confirm

Again ==
  /\ Poll /\ mpc' = "loop"
  /\ UNCHANGED <<result, unknown>>

Stop(r) == Return(r) /\ UNCHANGED <<clock, age, unknown>>

Inconclusive ==
  /\ unknown' = unknown + 1
  /\ IF unknown' >= MaxUnknown
     THEN Return("TIMEOUT") /\ UNCHANGED <<clock, age>>
     ELSE Poll /\ mpc' = "loop" /\ UNCHANGED result

Stalled ==
  CASE ~look.aged                      -> Again
    [] look.aged /\ stalls < MaxStalls ->
         mpc' = "disabled" /\ UNCHANGED <<result, unknown, clock, age>>
    [] OTHER                           -> Stop("STALLED")

Settle ==
  /\ mpc = "settle"
  /\ LET c == Classify(cache)
     IN  \/ c = "CIStillRunning" /\ Again
         \/ c = "NoPositiveSignal" /\ IF Confirmed THEN Inconclusive ELSE Again
         \/ c = "MERGED" /\ Stop("MERGED")
         \/ /\ c \in Blames \union {"STALLED"}
            /\ CASE ~Confirmed                     -> Again
                 [] Confirmed /\ pending           -> Stop("EJECTED")
                 [] Confirmed /\ ~pending /\ c = "STALLED" -> Stalled
                 [] OTHER                          -> Stop(c)
  /\ KeepGitHub
  /\ UNCHANGED <<hidden, direct, look, ever, was, cache, cycles, pending, stalls, unheard>>

----------------------------------------------------------------------------
(* Re-enrolling a stalled pull request.                                     *)

ToggleRest ==
  UNCHANGED <<hidden, direct, look, ever, was, cache, cycles, unknown, pending, stalls,
              clock, result, unheard>>

EnqueueDirect ==
  /\ mpc = "disabled" /\ direct /\ mpc' = "toggled"
  /\ \/ place \in {"out", "auto"} /\ JoinQueue
     \/ KeepGitHub /\ UNCHANGED <<hidden, age>>
  /\ UNCHANGED <<direct, look, ever, was, cache, cycles, unknown, pending, stalls,
                 clock, result, unheard>>

DisableAutoMerge ==
  /\ mpc = "disabled" /\ ~direct
  /\ \/ place = "auto" /\ place' = "out" /\ age' = 0 /\ mpc' = "confirmed"
     \/ UNCHANGED <<place, age>> /\ mpc' = "toggled"
  /\ UNCHANGED <<checks, health, stuck, groups, missed, why>> /\ ToggleRest

\* _confirm_disable is best effort and only a failing request stops the toggle.
EnableAutoMerge ==
  /\ mpc = "confirmed" /\ mpc' = "toggled"
  /\ \/ place = "out" /\ place' = "auto" /\ age' = 0
     \/ UNCHANGED <<place, age>>
  /\ UNCHANGED <<checks, health, stuck, groups, missed, why>> /\ ToggleRest

Toggled ==
  /\ mpc = "toggled" /\ mpc' = "loop"
  /\ stalls' = stalls + 1 /\ cycles' = 0 /\ Sleep(Backoff)
  /\ KeepGitHub
  /\ UNCHANGED <<hidden, direct, look, ever, was, cache, unknown, pending, result, unheard>>

Watcher ==
  \/ Begin \/ TimeUp \/ FetchFails \/ FetchQueued \/ FetchOutside \/ AskMergeGroup
  \/ Settle \/ EnqueueDirect \/ DisableAutoMerge \/ EnableAutoMerge \/ Toggled

MQNext == GitHub \/ ShowMerge \/ (Watcher /\ UNCHANGED moves)

MQSpec == MQInit /\ [][MQNext]_mqVars

----------------------------------------------------------------------------
\* A pull request that landed is never reported ejected, dropped or not
\* enrolled: the confirmation cycles outlast the looks that do not show the
\* merge.  Except when it went through the queue between two looks.
MergedNotBlamed ==
  result \in Blames /\ place \in {"landed", "merged"} => missed

\* "Dropped healthy" is not what becomes of a pull request its merge group put
\* out: when it was seen in the queue, and GitHub answered why it left.
HealthyDropIsHealthy ==
  result = "DROPPED_HEALTHY" /\ ~missed /\ ~unheard => why # "failed"

\* While checks run the watcher does not give up before its deadline.
PatientWithCI ==
  result = "TIMEOUT" /\ clock > 0 => look.checks # "pending"

\* The watcher's answer is true of the pull request, and not given too early.
QueueVerdictTrue ==
  MQTypeOK /\ MergedNotBlamed /\ HealthyDropIsHealthy /\ PatientWithCI
=============================================================================
