---------------------------- MODULE ProcessRace ----------------------------
(***************************************************************************)
(* One run of run_managed_async (execution/process): a child process, the  *)
(* watchers that poll it, its stdout and its session log in one task       *)
(* group, and the main coroutine that waits for the first signal or for    *)
(* the deadline, drains, decides and kills.                                *)
(*                                                                         *)
(* Time is discrete.  Every watcher polls once per unit, in any order, and *)
(* a Tick waits for all of them: the event loop is prompt, the order in    *)
(* which it serves its tasks is not fixed.                                 *)
(***************************************************************************)
EXTENDS Integers, RaceOutcomes

CONSTANTS Timeout,        \* the wall-clock deadline
          MaxExtension,   \* max_extension_seconds
          IdWait,         \* _session_id_timeout
          FindTimeout,    \* _phase1_timeout
          Stale,          \* stale_threshold
          MaxSuppression, \* max_suppression_seconds
          Drain,          \* completion_drain_timeout
          Grace,          \* natural_exit_grace_seconds
          RaceCalls       \* what callers ask for: see Call

\* The optional arguments: a session log directory is given,
\* enable_deadline_extension, idle_output_timeout (0 for none).
Call == [monitored : BOOLEAN, extended : BOOLEAN, idle : Nat]

ASSUME RaceAssumption ==
  /\ {Timeout, MaxExtension, IdWait, FindTimeout, Stale, MaxSuppression,
      Drain, Grace} \subseteq Nat
  /\ RaceCalls \subseteq Call

VARIABLES call,       \* the arguments of this run
          alive,      \* the child process runs
          killed,     \* the runner killed it
          stdoutRec,  \* how far the final result record on stdout is
          stdoutGrew, \* stdout has grown since the idle watcher looked
          logFile,    \* the session log: directory missing, no file, there
          logRec,     \* how far the marker record in the log is
          logGrew,    \* the log has unread content
          acc,        \* RaceAccumulator
          trigger,    \* the event that ends the race
          bPc, bTime, \* Channel B: its phase and the time spent in it
          quiet,      \* time since the log last changed (last_change)
          sup,        \* how long each kind of activity has suppressed, or Never
          idleTime,   \* time since stdout last grew
          deadline, first, \* the deadline now, and as first observed
          age,        \* time since the spawn
          polled,     \* the watchers that have polled in this unit
          pc, wait,   \* the main coroutine: its phase and its current wait
          timedOut,   \* the timeout scope was cancelled
          slack,      \* history: time left when Channel B found the marker
          result      \* SubprocessResult, the fields the race decides

env == <<call, alive, killed>>
files == <<stdoutRec, stdoutGrew, logFile, logRec, logGrew>>
chanB == <<bPc, bTime, quiet, sup, slack>>
scope == <<deadline, first>>
main == <<pc, wait, timedOut, result>>
raceVars == <<env, files, acc, trigger, chanB, idleTime, scope, age, polled, main>>

Never == -1
Unknown == "none"
Progress == {"none", "half", "whole", "torn"}
Racing == pc \in {"race", "symdrain", "cancelled"}

BStatuses == {Unknown, "COMPLETION", "STALE", "DIR_MISSING"}
Actions == {"NO_KILL", "DRAIN_THEN_KILL_IF_ALIVE", "IMMEDIATE_KILL"}

RaceInit ==
  /\ call \in RaceCalls
  /\ alive = TRUE /\ killed = FALSE
  /\ stdoutRec = "none" /\ stdoutGrew = FALSE
  /\ logFile \in {"nodir", "none"} /\ logRec = "none" /\ logGrew = FALSE
  /\ acc = [exited |-> FALSE, a |-> FALSE, b |-> Unknown, idle |-> FALSE]
  /\ trigger = FALSE
  /\ bPc = (IF call.monitored THEN "id" ELSE "off") /\ bTime = 0
  /\ quiet = 0 /\ sup = [api |-> Never, child |-> Never]
  /\ idleTime = 0
  /\ deadline = Timeout /\ first = Never
  /\ age = 0
  /\ polled = {"A", "B", "idle", "extend"}
  /\ pc = "race" /\ wait = 0 /\ timedOut = FALSE
  /\ slack = Never
  /\ result = [termination |-> "NATURAL_EXIT", channel |-> "UNMONITORED",
               kill |-> Unknown]

----------------------------------------------------------------------------
(* The child: it writes records whole or in two parts, and exits when it    *)
(* likes.                                                                   *)

WriteStdout ==
  /\ alive
  /\ stdoutGrew' = TRUE
  /\ stdoutRec' \in CASE stdoutRec = "none" -> {"none", "half", "whole"}
                      [] stdoutRec = "half" -> {"whole"}
                      [] OTHER -> {stdoutRec}
  /\ UNCHANGED <<env, logFile, logRec, logGrew, acc, trigger, chanB,
                 idleTime, scope, age, polled, main>>

CreateLog ==
  /\ alive /\ logFile # "there"
  /\ logFile' = "there"
  /\ UNCHANGED <<env, stdoutRec, stdoutGrew, logRec, logGrew, acc, trigger,
                 chanB, idleTime, scope, age, polled, main>>

WriteLog ==
  /\ alive /\ logFile = "there"
  /\ logGrew' = TRUE
  /\ logRec' \in CASE logRec = "none" -> {"none", "half", "whole"}
                   [] logRec = "half" -> {"whole"}
                   [] OTHER -> {logRec}
  /\ UNCHANGED <<env, stdoutRec, stdoutGrew, logFile, acc, trigger, chanB,
                 idleTime, scope, age, polled, main>>

Exit ==
  /\ alive
  /\ alive' = FALSE
  /\ UNCHANGED <<call, killed, files, acc, trigger, chanB, idleTime, scope, age,
                 polled, main>>

----------------------------------------------------------------------------
(* The watchers.                                                            *)

Polls(w) == Racing /\ w \notin polled /\ polled' = polled \union {w}

\* A reader that skips what it has seen never parses a record it read half of.
Scanned(rec) == IF rec = "half" THEN "torn" ELSE rec

WatchProcess ==
  /\ Racing /\ ~alive /\ ~acc.exited
  /\ acc' = [acc EXCEPT !.exited = TRUE]
  /\ trigger' = TRUE
  /\ UNCHANGED <<env, files, chanB, idleTime, scope, age, polled, main>>

WatchHeartbeat ==
  /\ ~acc.a /\ Polls("A")
  /\ stdoutRec' = Scanned(stdoutRec)
  /\ acc' = [acc EXCEPT !.a = (stdoutRec = "whole")]
  /\ trigger' = (trigger \/ stdoutRec = "whole")
  /\ UNCHANGED <<env, stdoutGrew, logFile, logRec, logGrew, chanB,
                 idleTime, scope, age, main>>

WatchStdoutIdle ==
  /\ call.idle > 0 /\ ~acc.idle /\ Polls("idle")
  /\ stdoutGrew' = FALSE
  /\ idleTime' = (IF stdoutGrew THEN 0 ELSE idleTime)
  /\ LET stalls == ~stdoutGrew /\ idleTime >= call.idle
     IN  /\ acc' = [acc EXCEPT !.idle = stalls]
         /\ trigger' = (trigger \/ stalls)
  /\ UNCHANGED <<env, stdoutRec, logFile, logRec, logGrew, chanB, scope,
                 age, main>>

Lesser(a, b) == IF a < b THEN a ELSE b

\* The deadline after a poll that found activity: two polls away, capped.
Extension(cap) ==
  LET new == Lesser(age + 2, cap + MaxExtension)
  IN  IF new > deadline THEN new ELSE deadline

WatchChildActivity ==
  /\ call.extended /\ ~trigger /\ Polls("extend")
  /\ first' = (IF first = Never THEN deadline ELSE first)
  /\ \E active \in {FALSE, alive} :
       deadline' = (IF active THEN Extension(first') ELSE deadline)
  /\ UNCHANGED <<env, files, acc, trigger, chanB, idleTime, age, main>>

(* Channel B, _watch_session_log with _session_log_monitor. *)

Deposit(status) ==
  /\ bPc' = "done"
  /\ acc' = [acc EXCEPT !.b = status]
  /\ trigger' = TRUE

SessionIdReady ==
  /\ Racing /\ bPc = "id"
  /\ bPc' = "find" /\ bTime' = 0
  /\ polled' = polled \union {"B"}
  /\ UNCHANGED <<env, files, acc, trigger, quiet, sup, slack, idleTime, scope,
                 age, main>>

FindLog ==
  /\ bPc = "find" /\ Polls("B")
  /\ \/ /\ logFile = "there"
        /\ bPc' = "watch" /\ quiet' = 0
        /\ UNCHANGED <<acc, trigger>>
     \/ /\ logFile = "nodir"
        /\ Deposit("DIR_MISSING") /\ UNCHANGED quiet
     \/ /\ logFile = "none" /\ bTime >= FindTimeout
        /\ Deposit("STALE") /\ UNCHANGED quiet
     \/ /\ logFile = "none" /\ bTime < FindTimeout
        /\ UNCHANGED <<bPc, quiet, acc, trigger>>
  /\ UNCHANGED <<env, files, bTime, sup, slack, idleTime, scope, age, main>>

ReadLog ==
  /\ bPc = "watch" /\ logGrew /\ Polls("B")
  /\ logGrew' = FALSE /\ quiet' = 0
  /\ sup' = [api |-> Never, child |-> Never]
  /\ logRec' = Scanned(logRec)
  /\ IF logRec = "whole"
     THEN /\ bPc' = "drain" /\ bTime' = 0
          /\ slack' = (IF timedOut THEN 0 ELSE deadline - age)
     ELSE UNCHANGED <<bPc, bTime, slack>>
  /\ UNCHANGED <<env, stdoutRec, stdoutGrew, logFile, acc, trigger,
                 idleTime, scope, age, main>>

Other(kind) == IF kind = "api" THEN "child" ELSE "api"

\* Activity of a kind postpones the verdict, at most MaxSuppression in a row.
Suppress(kind) ==
  LET since == IF sup[kind] = Never THEN 0 ELSE sup[kind]
  IN  /\ sup' = [sup EXCEPT ![kind] = since, ![Other(kind)] = Never]
      /\ IF since >= MaxSuppression
         THEN Deposit("STALE") /\ UNCHANGED quiet
         ELSE quiet' = 0 /\ UNCHANGED <<bPc, acc, trigger>>

QuietLog ==
  /\ bPc = "watch" /\ ~logGrew /\ Polls("B")
  /\ \/ /\ quiet < Stale
        /\ UNCHANGED <<bPc, acc, trigger, quiet, sup>>
     \/ /\ quiet >= Stale /\ alive
        /\ \E kind \in {"api", "child"} : Suppress(kind)
     \/ /\ quiet >= Stale
        /\ Deposit("STALE") /\ UNCHANGED <<quiet, sup>>
  /\ UNCHANGED <<env, files, bTime, slack, idleTime, scope, age, main>>

\* Channel A gets a window to confirm before Channel B reports completion.
DrainOver == trigger \/ bTime >= Drain

DrainEnds ==
  /\ Racing /\ bPc = "drain" /\ DrainOver
  /\ Deposit("COMPLETION")
  /\ UNCHANGED <<env, files, bTime, quiet, sup, slack, idleTime, scope, age,
                 polled, main>>

----------------------------------------------------------------------------
(* The main coroutine.                                                      *)

TimeoutFires ==
  /\ pc = "race" /\ ~trigger /\ age >= deadline
  /\ timedOut' = TRUE
  /\ UNCHANGED <<env, files, acc, trigger, chanB, idleTime, scope, age, polled,
                 pc, wait, result>>

\* Mutant: an exit ends the race at once.
NeverDrains == FALSE

\* An exit that Channel B has not judged yet opens the symmetric drain.
NeedsDrain == acc.exited /\ acc.b = Unknown /\ call.monitored

LeaveRace ==
  /\ pc = "race" /\ (trigger \/ timedOut)
  /\ pc' = (IF NeedsDrain THEN "symdrain" ELSE "cancelled")
  /\ wait' = 0
  /\ UNCHANGED <<env, files, acc, trigger, chanB, idleTime, scope, age, polled,
                 timedOut, result>>

LeaveDrain ==
  /\ pc = "symdrain" /\ (acc.b # Unknown \/ wait >= Drain)
  /\ pc' = "cancelled"
  /\ UNCHANGED <<env, files, acc, trigger, chanB, idleTime, scope, age, polled,
                 wait, timedOut, result>>

ResolvedChannel ==
  CASE acc.a                -> "CHANNEL_A"
    [] ~acc.a /\ acc.b = "COMPLETION"  -> "CHANNEL_B"
    [] ~acc.a /\ acc.b = "DIR_MISSING" -> "DIR_MISSING"
    [] OTHER                -> "UNMONITORED"

ResolvedTermination ==
  IF acc.exited THEN "NATURAL_EXIT"
  ELSE IF acc.idle THEN "IDLE_STALL"
  ELSE IF acc.b \in {"STALE", "DIR_MISSING"} THEN "STALE"
  ELSE IF acc.b = "COMPLETION" \/ acc.a THEN "COMPLETED"
  ELSE "NATURAL_EXIT"

resolve_termination ==
  [termination |-> IF timedOut THEN "TIMED_OUT" ELSE ResolvedTermination,
   channel     |-> ResolvedChannel,
   kill        |-> Unknown]

decide_termination_action(termination) ==
  CASE timedOut -> "IMMEDIATE_KILL"
    [] ~timedOut /\ (acc.exited \/ termination = "NATURAL_EXIT") -> "NO_KILL"
    [] ~timedOut /\ ~acc.exited /\ termination = "COMPLETED"
         -> "DRAIN_THEN_KILL_IF_ALIVE"
    [] OTHER -> "IMMEDIATE_KILL"

\* After the group is cancelled no watcher runs: the signals are frozen.
Resolve ==
  /\ pc = "cancelled"
  /\ result' = resolve_termination
  /\ pc' = decide_termination_action(resolve_termination.termination)
  /\ wait' = 0
  /\ UNCHANGED <<env, files, acc, trigger, chanB, idleTime, scope, age, polled,
                 timedOut>>

Return(reason) ==
  /\ pc' = "returned"
  /\ result' = [result EXCEPT !.kill = reason]

NoKill ==
  /\ pc = "NO_KILL"
  /\ Return("NATURAL_EXIT")
  /\ UNCHANGED <<env, files, acc, trigger, chanB, idleTime, scope, age, polled,
                 wait, timedOut>>

\* Mutant: nobody ends the grace period of a child that runs on.
GraceForExit ==
  /\ pc = "DRAIN_THEN_KILL_IF_ALIVE" /\ ~alive
  /\ Return("NATURAL_EXIT")
  /\ UNCHANGED <<env, files, acc, trigger, chanB, idleTime, scope, age, polled,
                 wait, timedOut>>

\* The event the grace period waits for was set by a watcher or never will be.
GraceEnds ==
  /\ pc = "DRAIN_THEN_KILL_IF_ALIVE" /\ (acc.exited \/ wait >= Grace)
  /\ IF alive THEN pc' = "kill" /\ UNCHANGED result
              ELSE Return("NATURAL_EXIT")
  /\ UNCHANGED <<env, files, acc, trigger, chanB, idleTime, scope, age, polled,
                 wait, timedOut>>

KillTree(reason) ==
  /\ alive' = FALSE
  /\ killed' = (killed \/ alive)
  /\ Return(reason)
  /\ UNCHANGED <<call, files, acc, trigger, chanB, idleTime, scope, age, polled,
                 wait, timedOut>>

KillAfterGrace == pc = "kill" /\ KillTree("KILL_AFTER_COMPLETION")
ImmediateKill == pc = "IMMEDIATE_KILL" /\ KillTree("INFRA_KILL")

\* A cancellation or a watcher's exception reaches any wait of the coroutine.
Cancelled ==
  /\ pc \notin {"cleanup", "returned", "raised", "NO_KILL"}
  /\ pc' = "cleanup"
  /\ UNCHANGED <<env, files, acc, trigger, chanB, idleTime, scope, age, polled,
                 wait, timedOut, result>>

\* Mutant: without the shield the kill itself is cancelled.
CleanupUnshielded ==
  /\ pc = "cleanup"
  /\ pc' = "raised"
  /\ UNCHANGED <<env, files, acc, trigger, chanB, idleTime, scope, age, polled,
                 wait, timedOut, result>>

\* The shielded handler kills what still runs before it raises again.
Cleanup ==
  /\ pc = "cleanup"
  /\ alive' = FALSE
  /\ killed' = (killed \/ alive)
  /\ pc' = "raised"
  /\ UNCHANGED <<call, files, acc, trigger, chanB, idleTime, scope, age, polled,
                 wait, timedOut, result>>

----------------------------------------------------------------------------
(* Time.                                                                    *)

Polling ==
  {w \in {"A", "B", "idle", "extend"} :
     \/ w = "A" /\ ~acc.a
     \/ w = "B" /\ bPc \in {"find", "watch"}
     \/ w = "idle" /\ call.idle > 0 /\ ~acc.idle
     \/ w = "extend" /\ call.extended /\ ~trigger}

\* Nothing is due: a wait that is over ends before time goes on.
RaceMayWait ==
  /\ Polling \subseteq polled
  /\ alive \/ acc.exited
  /\ bPc = "id" => bTime < IdWait
  /\ bPc = "drain" => ~DrainOver

MayWait ==
  \/ pc = "race" /\ RaceMayWait /\ ~trigger /\ ~timedOut /\ age < deadline
  \/ pc = "symdrain" /\ RaceMayWait /\ acc.b = Unknown /\ wait < Drain
  \/ pc = "DRAIN_THEN_KILL_IF_ALIVE" /\ ~acc.exited /\ wait < Grace

\* Bound: a phase of Channel B is not timed past its longest wait.
Longest == Drain + IdWait + FindTimeout

Later(t, bound) == IF t = Never THEN Never ELSE Lesser(t + 1, bound)

Tick ==
  /\ MayWait
  /\ polled' = {}
  /\ age' = (IF pc = "race" THEN age + 1 ELSE age)
  /\ wait' = (IF pc = "race" THEN 0 ELSE wait + 1)
  /\ bTime' = (IF bPc \in {"id", "find", "drain"}
               THEN Lesser(bTime + 1, Longest) ELSE bTime)
  /\ quiet' = (IF bPc = "watch" THEN Lesser(quiet + 1, Stale) ELSE quiet)
  /\ sup' = [kind \in {"api", "child"} |-> Later(sup[kind], MaxSuppression)]
  /\ idleTime' = Lesser(idleTime + 1, call.idle)
  /\ UNCHANGED <<env, stdoutRec, stdoutGrew, logFile, logRec, logGrew, acc,
                 trigger, bPc, slack, scope, pc, timedOut, result>>

----------------------------------------------------------------------------

Watchers ==
  \/ WatchProcess \/ WatchHeartbeat \/ WatchStdoutIdle \/ WatchChildActivity
  \/ SessionIdReady \/ FindLog \/ ReadLog \/ QuietLog \/ DrainEnds

Main ==
  \/ TimeoutFires \/ LeaveRace \/ LeaveDrain \/ Resolve \/ NoKill \/ GraceEnds
  \/ KillAfterGrace \/ ImmediateKill \/ Cleanup

Child == WriteStdout \/ CreateLog \/ WriteLog \/ Exit

RaceNext == Child \/ Watchers \/ Main \/ Cancelled \/ Tick

RaceSpec == RaceInit /\ [][RaceNext]_raceVars

\* The event loop serves its tasks and time passes; the child owes nothing.
RaceFairSpec ==
  RaceSpec /\ WF_raceVars(Watchers) /\ WF_raceVars(Main) /\ WF_raceVars(Tick)

----------------------------------------------------------------------------
(* Properties.                                                              *)

Over == pc \in {"returned", "raised"}

\* The run's variables keep their types and their bounds.
RaceTypeOK ==
  /\ call \in Call
  /\ {alive, killed, stdoutGrew, logGrew, trigger, timedOut} \subseteq BOOLEAN
  /\ {stdoutRec, logRec} \subseteq Progress
  /\ logFile \in {"nodir", "none", "there"}
  /\ acc \in [exited : BOOLEAN, a : BOOLEAN, b : BStatuses, idle : BOOLEAN]
  /\ bPc \in {"off", "id", "find", "watch", "drain", "done"}
  /\ {bTime, quiet, idleTime, deadline, age, wait} \subseteq Nat
  /\ {first, sup.api, sup.child} \subseteq Nat \union {Never}
  /\ slack \in Int
  /\ polled \subseteq {"A", "B", "idle", "extend"}
  /\ pc \in {"race", "symdrain", "cancelled", "kill", "cleanup", "returned",
             "raised"} \union Actions
  /\ result \in [termination : Terminations, channel : Channels,
                 kill : Kills \union {Unknown}]

\* However the coroutine ends - a result, a cancellation at any wait, an
\* exception of a watcher - the child it spawned no longer runs.
NoLeak == Over => ~alive

\* "Natural exit" in the result means that the child ended by itself, and a
\* kill reason that the runner killed it or found it already gone.
KillReasonTrue ==
  pc = "returned" => (result.kill = "NATURAL_EXIT" => ~killed)

\* Whoever ended the child, what is reported is one of the combinations the
\* adjudication of the session knows what to do with.
ResultShape == pc = "returned" => result \in RaceResults

\* The runner kills only for a cause it reports: the deadline, a stall of
\* stdout, a judgement of the session log, or a completion that a channel
\* confirmed and that the child then did not end within the grace period.
KilledForCause ==
  pc = "returned" /\ killed =>
    CASE result.termination = "TIMED_OUT"  -> timedOut
      [] result.termination = "IDLE_STALL" -> acc.idle
      [] result.termination = "STALE"      -> acc.b \in {"STALE", "DIR_MISSING"}
      [] result.termination = "COMPLETED"  ->
           /\ result.channel \in {"CHANNEL_A", "CHANNEL_B"}
           /\ wait >= Grace
      [] OTHER -> FALSE

\* However often activity extends the deadline, it stays within the cap, and
\* the race never outlives it.
DeadlineBounded ==
  /\ deadline <= Timeout + MaxExtension
  /\ age <= deadline

\* A marker that Channel B found with more than the drain window left before the
\* deadline is not turned into a timeout.
CompletionBeatsTimeout ==
  pc = "returned" /\ result.termination = "TIMED_OUT" => slack <= Drain

\* A child that wrote its completion marker and then exited is reported as
\* confirmed by a channel, although the exit itself ended the race - unless a
\* watcher had given the session up before it.  (A record read in two parts is not seen:
\* logRec is then "torn".)
CompletionConfirmed ==
  /\ pc = "returned" /\ result.termination = "NATURAL_EXIT"
  /\ call.monitored /\ Drain > IdWait + 2
  /\ logRec = "whole"
  => acc.idle \/ acc.b \in {"STALE", "DIR_MISSING"}
       \/ result.channel \in {"CHANNEL_A", "CHANNEL_B"}

\* The result says why the process ended, and the process has ended.
RaceResultTrue == RaceTypeOK /\ NoLeak /\ KillReasonTrue /\ ResultShape /\ KilledForCause

\* A confirmed completion is not overtaken by the deadline, which extensions move
\* only up to their cap.
CompletionHonoured == DeadlineBounded /\ CompletionBeatsTimeout /\ CompletionConfirmed
=============================================================================
