--------------------------- MODULE ExecutionProofs ---------------------------
(***************************************************************************)
(* Proofs about the execution of a session.  One run of a child process,   *)
(* for any deadlines, waits and callers: its result is true, and a         *)
(* completion is not lost to the clock.  Then the verdict on what the      *)
(* session left, for any evidence, and the calls that share the audit log: *)
(* a success is sound, confirmed work is not abandoned, and the budget     *)
(* bounds the retries.                                                     *)
(***************************************************************************)
EXTENDS ProcessRace, HeadlessSession, FiniteSetTheorems, TLAPS

Sups == [api : Nat \union {Never}, child : Nat \union {Never}]

\* The signals: each ends the race, none is taken back, and the last one of
\* Channel B is its verdict.
Signals ==
  /\ acc.exited => ~alive /\ trigger
  /\ trigger => acc.exited \/ acc.a \/ acc.idle \/ acc.b # Unknown
  /\ acc.b # Unknown <=> bPc = "done"
  /\ bPc = "done" => trigger
  /\ bPc = "off" => ~call.monitored

\* The coroutine: after Resolve the result is what the signals say, and only the
\* action that was decided adds its kill reason.
Decided == decide_termination_action(resolve_termination.termination)
Ruled(k) == result = [resolve_termination EXCEPT !.kill = k]
Course ==
  /\ pc \in {"symdrain", "cancelled"} => trigger \/ timedOut
  /\ pc = "symdrain" => acc.exited
  /\ pc \in Actions => result = resolve_termination /\ pc = Decided
  /\ pc = "NO_KILL" => acc.exited
  /\ pc = "kill" =>
       result = resolve_termination /\ Decided = "DRAIN_THEN_KILL_IF_ALIVE" /\ wait >= Grace
  /\ pc = "returned" =>
       \/ Decided = "NO_KILL" /\ Ruled("NATURAL_EXIT")
       \/ Decided = "DRAIN_THEN_KILL_IF_ALIVE" /\ Ruled("NATURAL_EXIT")
       \/ Decided = "DRAIN_THEN_KILL_IF_ALIVE" /\ Ruled("KILL_AFTER_COMPLETION") /\ wait >= Grace
       \/ Decided = "IMMEDIATE_KILL" /\ Ruled("INFRA_KILL")
  /\ Over => ~alive
  /\ killed => pc = "raised" \/ (pc = "returned" /\ result.kill # "NATURAL_EXIT")

\* The clocks: extensions start from the deadline as given, and while Channel B
\* drains, the time left and the time drained make up what there was.
Clocks ==
  /\ first \in {Never, Timeout} /\ (first = Never => deadline = Timeout)
  /\ DeadlineBounded
  /\ bPc \notin {"drain", "done"} => slack = Never
  /\ bPc = "drain" /\ pc = "race" /\ ~trigger /\ ~timedOut =>
       bTime <= Drain /\ slack <= deadline - age + bTime
  /\ bPc = "id" /\ Racing => bTime <= IdWait
  /\ timedOut => slack <= Drain

\* The log of a child that is gone: what it wrote whole is still to be read, and
\* the symmetric drain is long enough to find the file, read it and report.
Unread == IF "B" \in polled THEN 0 ELSE 1
Confirming ==
  /\ logRec # "none" => logFile = "there"
  /\ logRec = "whole" /\ bPc \in {"id", "find", "watch"} => logGrew
  /\ pc = "symdrain" /\ logRec = "whole" =>
       CASE bPc = "id" -> wait <= bTime
         [] bPc = "find" -> wait <= IdWait + Unread
         [] bPc = "watch" -> wait <= IdWait + 1 + Unread
         [] bPc = "drain" -> wait <= IdWait + 2
         [] OTHER -> TRUE
  /\ /\ pc \in {"cancelled", "kill", "returned"} \union Actions
     /\ ~timedOut /\ call.monitored /\ Drain > IdWait + 2
     /\ ~acc.a /\ ~acc.idle /\ acc.b = Unknown
     => acc.exited /\ logRec # "whole"

RaceInv == RaceTypeOK /\ sup \in Sups /\ Signals /\ Course /\ Clocks /\ Confirming

Signal == [exited : BOOLEAN, a : BOOLEAN, b : BStatuses, idle : BOOLEAN]
RaceOutcome == [termination : Terminations, channel : Channels, kill : Kills \union {Unknown}]
Pcs == {"race", "symdrain", "cancelled", "kill", "cleanup", "returned", "raised"} \union Actions

LEMMA RaceNumbers ==
  /\ Timeout \in Nat /\ MaxExtension \in Nat /\ IdWait \in Nat /\ FindTimeout \in Nat
  /\ Stale \in Nat /\ MaxSuppression \in Nat /\ Drain \in Nat /\ Grace \in Nat
  /\ Never \in Int /\ Longest \in Nat /\ Drain <= Longest /\ IdWait <= Longest
BY RaceAssumption DEF Never, Longest

LEMMA RaceTypes ==
  RaceTypeOK /\ sup \in Sups <=>
    /\ call \in Call /\ acc \in Signal /\ result \in RaceOutcome /\ sup \in Sups
    /\ alive \in BOOLEAN /\ killed \in BOOLEAN /\ stdoutGrew \in BOOLEAN /\ logGrew \in BOOLEAN
    /\ trigger \in BOOLEAN /\ timedOut \in BOOLEAN
    /\ stdoutRec \in Progress /\ logRec \in Progress /\ logFile \in {"nodir", "none", "there"}
    /\ bPc \in {"off", "id", "find", "watch", "drain", "done"}
    /\ bTime \in Nat /\ quiet \in Nat /\ idleTime \in Nat /\ deadline \in Nat /\ age \in Nat
    /\ wait \in Nat /\ first \in Nat \union {Never} /\ slack \in Int
    /\ polled \subseteq {"A", "B", "idle", "extend"} /\ pc \in Pcs
BY DEF RaceTypeOK, Sups, Signal, RaceOutcome, Pcs

LEMMA TypesMade ==
  ASSUME call' \in Call, acc' \in Signal, result' \in RaceOutcome, sup' \in Sups,
         alive' \in BOOLEAN, killed' \in BOOLEAN, stdoutGrew' \in BOOLEAN, logGrew' \in BOOLEAN,
         trigger' \in BOOLEAN, timedOut' \in BOOLEAN,
         stdoutRec' \in Progress, logRec' \in Progress, logFile' \in {"nodir", "none", "there"},
         bPc' \in {"off", "id", "find", "watch", "drain", "done"},
         bTime' \in Nat, quiet' \in Nat, idleTime' \in Nat, deadline' \in Nat, age' \in Nat,
         wait' \in Nat, first' \in Nat \union {Never}, slack' \in Int,
         polled' \subseteq {"A", "B", "idle", "extend"}, pc' \in Pcs
  PROVE  RaceTypeOK' /\ sup' \in Sups
BY DEF RaceTypeOK, Sups, Signal, RaceOutcome, Pcs

\* The invariant is what the runs check, and more.
LEMMA RaceInvTrue == RaceInv => RaceResultTrue
<1> SUFFICES ASSUME RaceInv PROVE RaceResultTrue
  OBVIOUS
<1>1. RaceTypeOK /\ Course /\ acc \in Signal /\ result \in RaceOutcome
  BY RaceTypes DEF RaceInv
<1>2. NoLeak
  BY <1>1 DEF NoLeak, Course
<1>3. KillReasonTrue
  BY <1>1 DEF KillReasonTrue, Course
<1>4. ASSUME pc = "returned" PROVE result \in RaceResults /\ (killed => KilledForCause)
  <2> DEFINE R == resolve_termination
  <2>1. R.termination \in Terminations /\ R.channel \in Channels
        /\ R.termination = (IF timedOut THEN "TIMED_OUT" ELSE ResolvedTermination)
        /\ R.channel = ResolvedChannel
    BY DEF resolve_termination, ResolvedTermination, ResolvedChannel, Terminations, Channels
  <2>2. \A k : [R EXCEPT !.kill = k] = [termination |-> R.termination, channel |-> R.channel, kill |-> k]
    BY DEF resolve_termination
  <2>3. PICK k \in Kills : result = [termination |-> R.termination, channel |-> R.channel, kill |-> k]
                  /\ \/ Decided = "NO_KILL" /\ k = "NATURAL_EXIT"
                     \/ Decided = "DRAIN_THEN_KILL_IF_ALIVE" /\ k = "NATURAL_EXIT"
                     \/ Decided = "DRAIN_THEN_KILL_IF_ALIVE" /\ k = "KILL_AFTER_COMPLETION" /\ wait >= Grace
                     \/ Decided = "IMMEDIATE_KILL" /\ k = "INFRA_KILL"
    BY <1>1, <1>4, <2>2 DEF Course, Ruled, Kills
  <2>4. Decided = decide_termination_action(R.termination)
    BY DEF Decided
  <2> HIDE DEF R
  <2>5. killed => k # "NATURAL_EXIT"
    BY <1>1, <1>4, <2>3 DEF Course
  <2>6. /\ result.termination = R.termination /\ result.channel = R.channel /\ result.kill = k
        /\ result \in [termination : Terminations, channel : Channels, kill : Kills]
    BY <2>1, <2>3
  <2>7. result \in RaceResults
    BY <2>1, <2>3, <2>4, <2>6 DEF RaceResults, decide_termination_action, ResolvedTermination,
       ResolvedChannel, Terminations
  <2>8. ASSUME killed PROVE KilledForCause
    BY <1>1, <2>1, <2>3, <2>4, <2>5, <2>6, <2>8 DEF KilledForCause, decide_termination_action,
       ResolvedTermination, ResolvedChannel
  <2> QED BY <2>7, <2>8
<1>5. ResultShape /\ KilledForCause
  BY <1>4 DEF ResultShape, KilledForCause
<1> QED BY <1>1, <1>2, <1>3, <1>5 DEF RaceResultTrue

LEMMA RaceInvHonours == RaceInv => CompletionHonoured
<1> SUFFICES ASSUME RaceInv PROVE CompletionHonoured
  OBVIOUS
<1>1. RaceTypeOK /\ Course /\ Clocks /\ Confirming /\ acc \in Signal
  BY RaceTypes DEF RaceInv
<1>2. DeadlineBounded
  BY <1>1 DEF Clocks
<1>3. ASSUME pc = "returned"
      PROVE  /\ result.termination = (IF timedOut THEN "TIMED_OUT" ELSE ResolvedTermination)
             /\ result.channel = ResolvedChannel
  BY <1>1, <1>3 DEF Course, Ruled, resolve_termination
<1>4. CompletionBeatsTimeout
  <2>1. ResolvedTermination # "TIMED_OUT"
    BY DEF ResolvedTermination
  <2> QED BY <1>1, <1>3, <2>1 DEF CompletionBeatsTimeout, Clocks
<1>5. CompletionConfirmed
  <2> SUFFICES ASSUME pc = "returned", result.termination = "NATURAL_EXIT", call.monitored,
                      Drain > IdWait + 2, logRec = "whole", ~acc.idle, acc.b \notin {"STALE", "DIR_MISSING"}
               PROVE  result.channel \in {"CHANNEL_A", "CHANNEL_B"}
    BY DEF CompletionConfirmed
  <2>1. ~timedOut
    BY <1>3
  <2>2. acc.a \/ acc.b # Unknown
    BY <1>1, <2>1 DEF Confirming
  <2>3. acc.b \in BStatuses
    BY <1>1 DEF Signal
  <2> QED BY <1>3, <2>2, <2>3 DEF ResolvedChannel, BStatuses, Unknown
<1> QED BY <1>2, <1>4, <1>5 DEF CompletionHonoured

LEMMA RaceInitInv == RaceInit => RaceInv
<1> SUFFICES ASSUME RaceInit PROVE RaceInv
  OBVIOUS
<1>1. RaceTypeOK /\ sup \in Sups
  <2>1. sup \in Sups /\ acc \in Signal /\ result \in RaceOutcome
    BY DEF RaceInit, Sups, Signal, RaceOutcome, BStatuses, Terminations, Channels
  <2>2. call \in Call
    BY RaceAssumption DEF RaceInit
  <2>3. bPc \in {"off", "id"} /\ pc \in Pcs /\ logRec \in Progress /\ stdoutRec \in Progress
    BY DEF RaceInit, Pcs, Progress
  <2> QED BY <2>1, <2>2, <2>3, RaceNumbers, RaceTypes DEF RaceInit
<1>2. Signals
  BY DEF RaceInit, Signals, Unknown
<1>3. Course
  BY DEF RaceInit, Course, Actions, Over
<1>4. Clocks
  BY RaceNumbers DEF RaceInit, Clocks, DeadlineBounded
<1>5. Confirming
  BY DEF RaceInit, Confirming, Actions
<1> QED BY <1>1, <1>2, <1>3, <1>4, <1>5 DEF RaceInv

-----------------------------------------------------------------------------
(* What each part of the invariant depends on.                              *)

LEMMA SignalsFrame == Signals /\ UNCHANGED <<acc, alive, trigger, bPc, call>> => Signals'
BY DEF Signals

LEMMA JudgementFrame ==
  UNCHANGED <<acc, timedOut>> => /\ Decided' = Decided /\ resolve_termination' = resolve_termination
BY DEF Decided, resolve_termination, decide_termination_action, ResolvedTermination, ResolvedChannel

LEMMA CourseFrame ==
  Course /\ UNCHANGED <<pc, trigger, timedOut, acc, result, wait, alive, killed>> => Course'
BY JudgementFrame DEF Course, Over, Ruled

LEMMA ClocksFrame ==
  Clocks /\ UNCHANGED <<first, deadline, age, bPc, slack, bTime, pc, trigger, timedOut>> => Clocks'
BY DEF Clocks, DeadlineBounded, Racing

LEMMA ConfirmingFrame ==
  /\ Confirming
  /\ UNCHANGED <<logRec, logFile, logGrew, bPc, pc, wait, polled, bTime, timedOut, call, acc>>
  => Confirming'
BY DEF Confirming, Unread

\* A watcher raises signals and leaves the coroutine where it is.
LEMMA CourseWatched ==
  ASSUME Course, Racing, UNCHANGED <<pc, timedOut, alive, killed>>,
         trigger => trigger', acc.exited => acc'.exited
  PROVE  Course'
<1>1. pc \in {"race", "symdrain", "cancelled"} /\ pc' = pc
  BY DEF Racing
<1>2. pc \notin Actions \union {"NO_KILL", "kill", "returned", "raised"}
  BY <1>1 DEF Actions
<1> QED BY <1>1, <1>2 DEF Course, Over

LEMMA RaceParts ==
  RaceInv => /\ RaceTypeOK /\ sup \in Sups /\ Signals /\ Course /\ Clocks /\ Confirming
             /\ call \in Call /\ acc \in Signal /\ result \in RaceOutcome
             /\ alive \in BOOLEAN /\ killed \in BOOLEAN /\ stdoutGrew \in BOOLEAN /\ logGrew \in BOOLEAN
             /\ trigger \in BOOLEAN /\ timedOut \in BOOLEAN
             /\ stdoutRec \in Progress /\ logRec \in Progress /\ logFile \in {"nodir", "none", "there"}
             /\ bPc \in {"off", "id", "find", "watch", "drain", "done"}
             /\ bTime \in Nat /\ quiet \in Nat /\ idleTime \in Nat /\ deadline \in Nat /\ age \in Nat
             /\ wait \in Nat /\ first \in Nat \union {Never} /\ slack \in Int
             /\ polled \subseteq {"A", "B", "idle", "extend"} /\ pc \in Pcs
BY RaceTypes DEF RaceInv

-----------------------------------------------------------------------------
(* The child.                                                               *)

LEMMA ChildKeeps == RaceInv /\ Child => RaceInv'
<1> SUFFICES ASSUME RaceInv, Child PROVE RaceInv'
  OBVIOUS
<1>1. CASE WriteStdout
  <2>1. /\ UNCHANGED <<call, alive, killed, logFile, logRec, logGrew, acc, trigger, bPc, bTime, quiet,
                        sup, slack, idleTime, deadline, first, age, polled, pc, wait, timedOut, result>>
        /\ stdoutGrew' = TRUE /\ stdoutRec' \in Progress
    BY <1>1, RaceParts DEF WriteStdout, env, chanB, scope, main, Progress
  <2>2. RaceTypeOK' /\ sup' \in Sups
    BY <2>1, RaceParts, TypesMade
  <2> QED BY <2>1, <2>2, RaceParts, SignalsFrame, CourseFrame, ClocksFrame, ConfirmingFrame DEF RaceInv
<1>2. CASE CreateLog
  <2>1. /\ UNCHANGED <<call, alive, killed, stdoutRec, stdoutGrew, logRec, logGrew, acc, trigger, bPc,
                        bTime, quiet, sup, slack, idleTime, deadline, first, age, polled, pc, wait,
                        timedOut, result>>
        /\ logFile' = "there"
    BY <1>2 DEF CreateLog, env, chanB, scope, main
  <2>2. RaceTypeOK' /\ sup' \in Sups
    BY <2>1, RaceParts, TypesMade
  <2>3. Confirming'
    BY <2>1, RaceParts DEF Confirming, Unread
  <2> QED BY <2>1, <2>2, <2>3, RaceParts, SignalsFrame, CourseFrame, ClocksFrame DEF RaceInv
<1>3. CASE WriteLog
  <2>1. /\ UNCHANGED <<call, alive, killed, stdoutRec, stdoutGrew, logFile, acc, trigger, bPc,
                        bTime, quiet, sup, slack, idleTime, deadline, first, age, polled, pc, wait,
                        timedOut, result>>
        /\ alive /\ logFile = "there" /\ logGrew' = TRUE /\ logRec' \in Progress
    BY <1>3, RaceParts DEF WriteLog, env, chanB, scope, main, Progress
  <2>2. RaceTypeOK' /\ sup' \in Sups
    BY <2>1, RaceParts, TypesMade
  <2>3. ~acc.exited /\ pc # "symdrain"
    BY <2>1, RaceParts DEF Signals, Course
  <2>4. Confirming'
    BY <2>1, <2>3, RaceParts DEF Confirming
  <2> QED BY <2>1, <2>2, <2>4, RaceParts, SignalsFrame, CourseFrame, ClocksFrame DEF RaceInv
<1>4. CASE Exit
  <2>1. /\ UNCHANGED <<call, killed, stdoutRec, stdoutGrew, logFile, logRec, logGrew, acc, trigger, bPc,
                        bTime, quiet, sup, slack, idleTime, deadline, first, age, polled, pc, wait,
                        timedOut, result>>
        /\ alive' = FALSE
    BY <1>4 DEF Exit, files, chanB, scope, main
  <2>2. RaceTypeOK' /\ sup' \in Sups
    BY <2>1, RaceParts, TypesMade
  <2>3. Signals'
    BY <2>1, RaceParts DEF Signals
  <2>4. Course'
    BY <2>1, RaceParts, JudgementFrame DEF Course, Over, Ruled
  <2> QED BY <2>1, <2>2, <2>3, <2>4, RaceParts, ClocksFrame, ConfirmingFrame DEF RaceInv
<1> QED BY <1>1, <1>2, <1>3, <1>4 DEF Child

-----------------------------------------------------------------------------
(* The watchers.                                                            *)

\* A watcher of another source than the log.
LEMMA ConfirmingWatched ==
  ASSUME Confirming, UNCHANGED <<logRec, logFile, logGrew, bPc, pc, wait, bTime, timedOut, call>>,
         "B" \in polled' <=> "B" \in polled,
         acc.exited => acc'.exited, acc.a => acc'.a, acc.idle => acc'.idle, acc'.b = acc.b
  PROVE  Confirming'
BY DEF Confirming, Unread

LEMMA ClocksWatched ==
  ASSUME Clocks, UNCHANGED <<first, deadline, age, bPc, slack, bTime, pc, timedOut>>,
         trigger => trigger'
  PROVE  Clocks'
BY DEF Clocks, DeadlineBounded, Racing

LEMMA WatchProcessKeeps == RaceInv /\ WatchProcess => RaceInv'
<1> SUFFICES ASSUME RaceInv, WatchProcess PROVE RaceInv'
  OBVIOUS
<1>1. /\ UNCHANGED <<call, alive, killed, stdoutRec, stdoutGrew, logFile, logRec, logGrew, bPc,
                      bTime, quiet, sup, slack, idleTime, deadline, first, age, polled, pc, wait,
                      timedOut, result>>
      /\ Racing /\ ~alive /\ acc' = [acc EXCEPT !.exited = TRUE] /\ trigger' = TRUE
  BY DEF WatchProcess, env, files, chanB, scope, main
<1>2. acc' \in Signal /\ acc'.exited /\ acc'.a = acc.a /\ acc'.b = acc.b /\ acc'.idle = acc.idle
  BY <1>1, RaceParts DEF Signal
<1>3. RaceTypeOK' /\ sup' \in Sups
  BY <1>1, <1>2, RaceParts, TypesMade
<1>4. Signals'
  BY <1>1, <1>2, RaceParts DEF Signals
<1> QED BY <1>1, <1>2, <1>3, <1>4, RaceParts, CourseWatched, ClocksWatched, ConfirmingWatched
    DEF RaceInv

LEMMA WatchHeartbeatKeeps == RaceInv /\ WatchHeartbeat => RaceInv'
<1> SUFFICES ASSUME RaceInv, WatchHeartbeat PROVE RaceInv'
  OBVIOUS
<1> DEFINE done == stdoutRec = "whole"
<1>1. /\ UNCHANGED <<call, alive, killed, stdoutGrew, logFile, logRec, logGrew, bPc,
                      bTime, quiet, sup, slack, idleTime, deadline, first, age, pc, wait,
                      timedOut, result>>
      /\ Racing /\ ~acc.a /\ acc' = [acc EXCEPT !.a = done] /\ trigger' = (trigger \/ done)
      /\ stdoutRec' = Scanned(stdoutRec) /\ polled' = polled \union {"A"}
  BY DEF WatchHeartbeat, Polls, env, chanB, scope, main
<1>2. done \in BOOLEAN /\ stdoutRec' \in Progress
  BY <1>1, RaceParts DEF Scanned, Progress
<1> HIDE DEF done
<1>3. acc' \in Signal /\ acc'.exited = acc.exited /\ acc'.a = done /\ acc'.b = acc.b
      /\ acc'.idle = acc.idle
  BY <1>1, <1>2, RaceParts DEF Signal
<1>4. trigger' \in BOOLEAN /\ (trigger => trigger') /\ (trigger' => trigger \/ done) /\ (done => trigger')
  BY <1>1, <1>2, RaceParts
<1>5. RaceTypeOK' /\ sup' \in Sups
  BY <1>1, <1>2, <1>3, <1>4, RaceParts, TypesMade
<1>6. Signals'
  BY <1>1, <1>3, <1>4, RaceParts DEF Signals
<1> QED BY <1>1, <1>3, <1>4, <1>5, <1>6, RaceParts, CourseWatched, ClocksWatched, ConfirmingWatched
    DEF RaceInv

LEMMA WatchStdoutIdleKeeps == RaceInv /\ WatchStdoutIdle => RaceInv'
<1> SUFFICES ASSUME RaceInv, WatchStdoutIdle PROVE RaceInv'
  OBVIOUS
<1> DEFINE stalls == ~stdoutGrew /\ idleTime >= call.idle
<1>1. /\ UNCHANGED <<call, alive, killed, stdoutRec, logFile, logRec, logGrew, bPc,
                      bTime, quiet, sup, slack, deadline, first, age, pc, wait,
                      timedOut, result>>
      /\ Racing /\ ~acc.idle /\ acc' = [acc EXCEPT !.idle = stalls] /\ trigger' = (trigger \/ stalls)
      /\ stdoutGrew' = FALSE /\ idleTime' = (IF stdoutGrew THEN 0 ELSE idleTime)
      /\ polled' = polled \union {"idle"}
  BY DEF WatchStdoutIdle, Polls, env, chanB, scope, main
<1>2. stalls \in BOOLEAN /\ idleTime' \in Nat
  BY <1>1, RaceParts
<1> HIDE DEF stalls
<1>3. acc' \in Signal /\ acc'.exited = acc.exited /\ acc'.a = acc.a /\ acc'.b = acc.b
      /\ acc'.idle = stalls
  BY <1>1, <1>2, RaceParts DEF Signal
<1>4. trigger' \in BOOLEAN /\ (trigger => trigger') /\ (trigger' => trigger \/ stalls)
      /\ (stalls => trigger')
  BY <1>1, <1>2, RaceParts
<1>5. RaceTypeOK' /\ sup' \in Sups
  BY <1>1, <1>2, <1>3, <1>4, RaceParts, TypesMade
<1>6. Signals'
  BY <1>1, <1>3, <1>4, RaceParts DEF Signals
<1> QED BY <1>1, <1>3, <1>4, <1>5, <1>6, RaceParts, CourseWatched, ClocksWatched, ConfirmingWatched
    DEF RaceInv

\* Extensions never pull the deadline in, and stop at the cap.
LEMMA ExtensionBounded ==
  ASSUME deadline \in Nat, age \in Nat, deadline <= Timeout + MaxExtension
  PROVE  /\ Extension(Timeout) \in Nat /\ deadline <= Extension(Timeout)
         /\ Extension(Timeout) <= Timeout + MaxExtension
BY RaceNumbers DEF Extension, Lesser

LEMMA WatchChildActivityKeeps == RaceInv /\ WatchChildActivity => RaceInv'
<1> SUFFICES ASSUME RaceInv, WatchChildActivity PROVE RaceInv'
  OBVIOUS
<1>1. /\ UNCHANGED <<call, alive, killed, stdoutRec, stdoutGrew, logFile, logRec, logGrew, acc, trigger,
                      bPc, bTime, quiet, sup, slack, idleTime, age, pc, wait, timedOut, result>>
      /\ polled' = polled \union {"extend"}
      /\ first' = (IF first = Never THEN deadline ELSE first)
      /\ deadline' \in {deadline, Extension(first')}
  BY DEF WatchChildActivity, Polls, env, files, chanB, main
<1>2. first' = Timeout
  BY <1>1, RaceParts DEF Clocks
<1>3. /\ deadline' \in Nat /\ deadline <= deadline' /\ deadline' <= Timeout + MaxExtension
  BY <1>1, <1>2, RaceParts, ExtensionBounded, RaceNumbers DEF Clocks, DeadlineBounded
<1>4. RaceTypeOK' /\ sup' \in Sups
  BY <1>1, <1>2, <1>3, RaceParts, RaceNumbers, TypesMade
<1>5. Clocks'
  BY <1>1, <1>2, <1>3, RaceParts, RaceNumbers DEF Clocks, DeadlineBounded, Racing, Never
<1> QED BY <1>1, <1>4, <1>5, RaceParts, SignalsFrame, CourseFrame, ConfirmingWatched DEF RaceInv

LEMMA SessionIdReadyKeeps == RaceInv /\ SessionIdReady => RaceInv'
<1> SUFFICES ASSUME RaceInv, SessionIdReady PROVE RaceInv'
  OBVIOUS
<1>1. /\ UNCHANGED <<call, alive, killed, stdoutRec, stdoutGrew, logFile, logRec, logGrew, acc, trigger,
                      quiet, sup, slack, idleTime, deadline, first, age, pc, wait, timedOut, result>>
      /\ Racing /\ bPc = "id" /\ bPc' = "find" /\ bTime' = 0 /\ polled' = polled \union {"B"}
  BY DEF SessionIdReady, env, files, scope, main
<1>2. RaceTypeOK' /\ sup' \in Sups
  BY <1>1, RaceParts, TypesMade
<1>3. Signals'
  BY <1>1, RaceParts DEF Signals
<1>4. Clocks'
  BY <1>1, RaceParts DEF Clocks, DeadlineBounded
<1>5. Confirming'
  BY <1>1, RaceParts, RaceNumbers DEF Confirming, Unread, Clocks
<1> QED BY <1>1, <1>2, <1>3, <1>4, <1>5, RaceParts, CourseFrame DEF RaceInv

\* Channel B ends with a verdict.
LEMMA DepositKeeps ==
  ASSUME RaceInv, Racing, bPc # "done", bPc # "off" \/ ~call.monitored,
         NEW status \in BStatuses \ {Unknown}, Deposit(status),
         UNCHANGED <<call, alive, killed, stdoutRec, stdoutGrew, logFile, logRec, logGrew, bTime,
                     slack, idleTime, deadline, first, age, pc, wait, timedOut, result>>,
         quiet' \in Nat, sup' \in Sups, polled' \subseteq {"A", "B", "idle", "extend"}
  PROVE  RaceInv'
<1>1. acc' = [acc EXCEPT !.b = status] /\ bPc' = "done" /\ trigger' = TRUE
  BY DEF Deposit
<1>2. acc' \in Signal /\ acc'.exited = acc.exited /\ acc'.a = acc.a /\ acc'.b = status
      /\ acc'.idle = acc.idle
  BY <1>1, RaceParts DEF Signal
<1>3. RaceTypeOK' /\ sup' \in Sups
  BY <1>1, <1>2, RaceParts, TypesMade
<1>4. Signals'
  BY <1>1, <1>2, RaceParts DEF Signals
<1>5. Course'
  BY <1>1, <1>2, RaceParts, CourseWatched
<1>6. Clocks'
  BY <1>1, RaceParts DEF Clocks, DeadlineBounded
<1>7. Confirming'
  BY <1>1, <1>2, RaceParts DEF Confirming
<1> QED BY <1>3, <1>4, <1>5, <1>6, <1>7 DEF RaceInv

LEMMA FindLogKeeps == RaceInv /\ FindLog => RaceInv'
<1> SUFFICES ASSUME RaceInv, FindLog PROVE RaceInv'
  OBVIOUS
<1>1. /\ UNCHANGED <<call, alive, killed, stdoutRec, stdoutGrew, logFile, logRec, logGrew, bTime,
                      sup, slack, idleTime, deadline, first, age, pc, wait, timedOut, result>>
      /\ Racing /\ bPc = "find" /\ polled' = polled \union {"B"} /\ "B" \notin polled
  BY DEF FindLog, Polls, env, files, scope, main
<1>2. CASE Deposit("DIR_MISSING") /\ UNCHANGED quiet
  BY <1>1, <1>2, RaceParts, DepositKeeps DEF BStatuses, Unknown
<1>3. CASE Deposit("STALE") /\ UNCHANGED quiet
  BY <1>1, <1>3, RaceParts, DepositKeeps DEF BStatuses, Unknown
<1>4. CASE logFile = "there" /\ bPc' = "watch" /\ quiet' = 0 /\ UNCHANGED <<acc, trigger>>
  <2>1. RaceTypeOK' /\ sup' \in Sups
    BY <1>1, <1>4, RaceParts, TypesMade
  <2>2. Signals'
    BY <1>1, <1>4, RaceParts DEF Signals
  <2>3. Clocks'
    BY <1>1, <1>4, RaceParts DEF Clocks, DeadlineBounded
  <2>4. Confirming'
    BY <1>1, <1>4, RaceParts, RaceNumbers DEF Confirming, Unread
  <2> QED BY <1>1, <1>4, <2>1, <2>2, <2>3, <2>4, RaceParts, CourseFrame DEF RaceInv
<1>5. CASE logFile = "none" /\ UNCHANGED <<bPc, quiet, acc, trigger>>
  <2>1. RaceTypeOK' /\ sup' \in Sups
    BY <1>1, <1>5, RaceParts, TypesMade
  <2>2. logRec = "none"
    BY <1>5, RaceParts DEF Confirming
  <2>3. Confirming'
    BY <1>1, <1>5, <2>2, RaceParts DEF Confirming
  <2> QED BY <1>1, <1>5, <2>1, <2>3, RaceParts, SignalsFrame, CourseFrame, ClocksFrame DEF RaceInv
<1> QED BY <1>2, <1>3, <1>4, <1>5 DEF FindLog

LEMMA ReadLogKeeps == RaceInv /\ ReadLog => RaceInv'
<1> SUFFICES ASSUME RaceInv, ReadLog PROVE RaceInv'
  OBVIOUS
<1>1. /\ UNCHANGED <<call, alive, killed, stdoutRec, stdoutGrew, logFile, acc, trigger,
                      idleTime, deadline, first, age, pc, wait, timedOut, result>>
      /\ Racing /\ bPc = "watch" /\ polled' = polled \union {"B"}
      /\ logGrew' = FALSE /\ quiet' = 0 /\ sup' = [api |-> Never, child |-> Never]
      /\ logRec' = Scanned(logRec)
      /\ IF logRec = "whole"
         THEN bPc' = "drain" /\ bTime' = 0 /\ slack' = (IF timedOut THEN 0 ELSE deadline - age)
         ELSE UNCHANGED <<bPc, bTime, slack>>
  BY DEF ReadLog, Polls, env, scope, main
<1>2. sup' \in Sups /\ logRec' \in Progress /\ (logRec' = "whole" <=> logRec = "whole")
      /\ (logRec' # "none" => logRec # "none")
  BY <1>1, RaceParts DEF Sups, Scanned, Progress
<1>3. slack' \in Int /\ bTime' \in Nat /\ bPc' \in {"watch", "drain"}
  BY <1>1, RaceParts
<1>4. RaceTypeOK' /\ sup' \in Sups
  BY <1>1, <1>2, <1>3, RaceParts, TypesMade
<1>5. Signals'
  BY <1>1, <1>3, RaceParts DEF Signals
<1>6. Clocks'
  BY <1>1, <1>3, RaceParts, RaceNumbers DEF Clocks, DeadlineBounded, Never
<1>7. Confirming'
  BY <1>1, <1>2, <1>3, RaceParts, RaceNumbers DEF Confirming, Unread
<1> QED BY <1>1, <1>4, <1>5, <1>6, <1>7, RaceParts, CourseFrame DEF RaceInv

LEMMA QuietLogKeeps == RaceInv /\ QuietLog => RaceInv'
<1> SUFFICES ASSUME RaceInv, QuietLog PROVE RaceInv'
  OBVIOUS
<1>1. /\ UNCHANGED <<call, alive, killed, stdoutRec, stdoutGrew, logFile, logRec, logGrew, bTime,
                      slack, idleTime, deadline, first, age, pc, wait, timedOut, result>>
      /\ Racing /\ bPc = "watch" /\ ~logGrew /\ polled' = polled \union {"B"}
  BY DEF QuietLog, Polls, env, files, scope, main
<1>2. logRec # "whole"
  BY <1>1, RaceParts DEF Confirming
<1>3. ASSUME UNCHANGED <<bPc, acc, trigger>>, quiet' \in Nat, sup' \in Sups PROVE RaceInv'
  <2>1. RaceTypeOK' /\ sup' \in Sups
    BY <1>1, <1>3, RaceParts, TypesMade
  <2>2. Confirming'
    BY <1>1, <1>2, <1>3, RaceParts DEF Confirming
  <2> QED BY <1>1, <1>3, <2>1, <2>2, RaceParts, SignalsFrame, CourseFrame, ClocksFrame DEF RaceInv
<1>4. ASSUME Deposit("STALE"), quiet' \in Nat, sup' \in Sups PROVE RaceInv'
  BY <1>1, <1>4, RaceParts, DepositKeeps DEF BStatuses, Unknown
<1>5. ASSUME NEW kind \in {"api", "child"}, Suppress(kind) PROVE RaceInv'
  <2>1. sup' \in Sups
    <3> DEFINE since == IF sup[kind] = Never THEN 0 ELSE sup[kind]
    <3>1. sup.api \in Nat \union {Never} /\ sup.child \in Nat \union {Never} /\ sup \in Sups
      BY RaceParts DEF Sups
    <3>2. CASE kind = "api"
      <4>1. sup' = [sup EXCEPT !.api = IF sup.api = Never THEN 0 ELSE sup.api, !.child = Never]
        BY <1>5, <3>2 DEF Suppress, Other
      <4> QED BY <3>1, <4>1 DEF Sups
    <3>3. CASE kind = "child"
      <4>1. sup' = [sup EXCEPT !.child = IF sup.child = Never THEN 0 ELSE sup.child, !.api = Never]
        BY <1>5, <3>3 DEF Suppress, Other
      <4> QED BY <3>1, <4>1 DEF Sups
    <3> QED BY <3>2, <3>3
  <2>2. \/ Deposit("STALE") /\ UNCHANGED quiet
        \/ quiet' = 0 /\ UNCHANGED <<bPc, acc, trigger>>
    BY <1>5 DEF Suppress
  <2> QED BY <1>3, <1>4, <2>1, <2>2, RaceParts
<1> QED BY <1>3, <1>4, <1>5, RaceParts DEF QuietLog

LEMMA DrainEndsKeeps == RaceInv /\ DrainEnds => RaceInv'
<1> SUFFICES ASSUME RaceInv, DrainEnds PROVE RaceInv'
  OBVIOUS
<1>1. /\ UNCHANGED <<call, alive, killed, stdoutRec, stdoutGrew, logFile, logRec, logGrew, bTime,
                      slack, idleTime, deadline, first, age, pc, wait, timedOut, result, quiet, sup,
                      polled>>
      /\ Racing /\ bPc = "drain" /\ Deposit("COMPLETION")
  BY DEF DrainEnds, env, files, scope, main
<1> QED BY <1>1, RaceParts, DepositKeeps DEF BStatuses, Unknown

LEMMA WatchersKeep == RaceInv /\ Watchers => RaceInv'
BY WatchProcessKeeps, WatchHeartbeatKeeps, WatchStdoutIdleKeeps, WatchChildActivityKeeps,
   SessionIdReadyKeeps, FindLogKeeps, ReadLogKeeps, QuietLogKeeps, DrainEndsKeeps DEF Watchers

-----------------------------------------------------------------------------
(* The coroutine.                                                           *)

LEMMA TimeoutFiresKeeps == RaceInv /\ TimeoutFires => RaceInv'
<1> SUFFICES ASSUME RaceInv, TimeoutFires PROVE RaceInv'
  OBVIOUS
<1>1. /\ UNCHANGED <<call, alive, killed, stdoutRec, stdoutGrew, logFile, logRec, logGrew, acc, trigger,
                      bPc, bTime, quiet, sup, slack, idleTime, deadline, first, age, polled, pc, wait,
                      result>>
      /\ pc = "race" /\ ~trigger /\ age >= deadline /\ timedOut' = TRUE
  BY DEF TimeoutFires, env, files, chanB, scope
<1>2. RaceTypeOK' /\ sup' \in Sups
  BY <1>1, RaceParts, TypesMade
<1>3. Course'
  BY <1>1, RaceParts DEF Course, Over, Actions
<1>4. slack <= Drain
  <2>1. CASE bPc = "drain" /\ ~timedOut
    BY <1>1, <2>1, RaceParts, RaceNumbers DEF Clocks
  <2>2. CASE bPc \notin {"drain", "done"}
    BY <2>2, RaceParts, RaceNumbers DEF Clocks, Never
  <2>3. bPc # "done"
    BY <1>1, RaceParts DEF Signals
  <2>4. timedOut => slack <= Drain
    BY RaceParts DEF Clocks
  <2> QED BY <2>1, <2>2, <2>3, <2>4
<1>5. Clocks'
  BY <1>1, <1>4, RaceParts DEF Clocks, DeadlineBounded, Racing
<1>6. Confirming'
  BY <1>1, RaceParts DEF Confirming, Unread, Actions
<1> QED BY <1>1, <1>2, <1>3, <1>5, <1>6, RaceParts, SignalsFrame DEF RaceInv

LEMMA LeaveRaceKeeps == RaceInv /\ LeaveRace => RaceInv'
<1> SUFFICES ASSUME RaceInv, LeaveRace PROVE RaceInv'
  OBVIOUS
<1>1. /\ UNCHANGED <<call, alive, killed, stdoutRec, stdoutGrew, logFile, logRec, logGrew, acc, trigger,
                      bPc, bTime, quiet, sup, slack, idleTime, deadline, first, age, polled, timedOut,
                      result>>
      /\ pc = "race" /\ (trigger \/ timedOut) /\ wait' = 0
      /\ pc' = (IF NeedsDrain THEN "symdrain" ELSE "cancelled")
  BY DEF LeaveRace, env, files, chanB, scope
<1>2. pc' \in {"symdrain", "cancelled"} /\ pc' \in Pcs /\ pc' \notin Actions
      /\ (pc' = "symdrain" => acc.exited)
  BY <1>1 DEF Pcs, NeedsDrain, Actions
<1>3. RaceTypeOK' /\ sup' \in Sups
  BY <1>1, <1>2, RaceParts, TypesMade
<1>4. Course'
  BY <1>1, <1>2, RaceParts DEF Course, Over, Actions
<1>5. Clocks'
  BY <1>1, <1>2, RaceParts DEF Clocks, DeadlineBounded, Racing
<1>6. pc' = "cancelled" /\ ~timedOut /\ call.monitored /\ ~acc.a /\ ~acc.idle /\ acc.b = Unknown => FALSE
  BY <1>1, RaceParts DEF Signals, NeedsDrain
<1>7. Confirming'
  BY <1>1, <1>2, <1>6, RaceParts, RaceNumbers DEF Confirming, Unread, Actions
<1> QED BY <1>1, <1>3, <1>4, <1>5, <1>7, RaceParts, SignalsFrame DEF RaceInv

\* The symmetric drain ends with a verdict, or after time enough for one on a
\* marker that was there.
LEMMA LeaveDrainKeeps == RaceInv /\ LeaveDrain => RaceInv'
<1> SUFFICES ASSUME RaceInv, LeaveDrain PROVE RaceInv'
  OBVIOUS
<1>1. /\ UNCHANGED <<call, alive, killed, stdoutRec, stdoutGrew, logFile, logRec, logGrew, acc, trigger,
                      bPc, bTime, quiet, sup, slack, idleTime, deadline, first, age, polled, timedOut,
                      result, wait>>
      /\ pc = "symdrain" /\ (acc.b # Unknown \/ wait >= Drain) /\ pc' = "cancelled"
  BY DEF LeaveDrain, env, files, chanB, scope
<1>2. RaceTypeOK' /\ sup' \in Sups
  BY <1>1, RaceParts, TypesMade DEF Pcs
<1>3. Course'
  BY <1>1, RaceParts DEF Course, Over, Actions
<1>4. Clocks'
  BY <1>1, RaceParts DEF Clocks, DeadlineBounded, Racing
<1>5. call.monitored /\ Drain > IdWait + 2 /\ acc.b = Unknown => acc.exited /\ logRec # "whole"
  <2> SUFFICES ASSUME call.monitored, Drain > IdWait + 2, acc.b = Unknown, logRec = "whole" PROVE FALSE
    BY <1>1, RaceParts DEF Course
  <2>1. bPc \in {"id", "find", "watch", "drain"}
    BY RaceParts DEF Signals
  <2>2. wait >= Drain /\ wait \in Nat /\ bTime \in Nat
    BY <1>1, RaceParts
  <2>3. CASE bPc = "id"
    BY <1>1, <2>2, <2>3, RaceParts, RaceNumbers DEF Confirming, Clocks, Racing
  <2>4. CASE bPc = "find"
    BY <1>1, <2>2, <2>4, RaceParts, RaceNumbers DEF Confirming, Unread
  <2>5. CASE bPc = "watch"
    BY <1>1, <2>2, <2>5, RaceParts, RaceNumbers DEF Confirming, Unread
  <2>6. CASE bPc = "drain"
    BY <1>1, <2>2, <2>6, RaceParts, RaceNumbers DEF Confirming
  <2> QED BY <2>1, <2>3, <2>4, <2>5, <2>6
<1>6. Confirming'
  BY <1>1, <1>5, RaceParts DEF Confirming
<1> QED BY <1>1, <1>2, <1>3, <1>4, <1>6, RaceParts, SignalsFrame DEF RaceInv

LEMMA ResolvedTyped == resolve_termination \in RaceOutcome /\ Decided \in Actions
BY DEF resolve_termination, Decided, decide_termination_action, ResolvedTermination, ResolvedChannel,
   RaceOutcome, Terminations, Channels, Actions

\* Once judged, a run is past what the clocks and the drain are about.
LEMMA JudgedFrame ==
  ASSUME RaceInv, pc \in {"cancelled", "kill"} \union Actions,
         pc' \in {"kill", "returned"} \union Actions,
         UNCHANGED <<call, stdoutRec, stdoutGrew, logFile, logRec, logGrew, acc, trigger,
                     bPc, bTime, quiet, sup, slack, idleTime, deadline, first, age, polled, timedOut>>
  PROVE  Clocks' /\ Confirming'
<1>1. pc' \notin {"race", "symdrain", "cancelled"} /\ pc \notin {"race", "symdrain"}
  BY DEF Actions
<1>2. Clocks'
  BY <1>1, RaceParts DEF Clocks, DeadlineBounded, Racing
<1>3. Confirming'
  BY <1>1, RaceParts DEF Confirming
<1> QED BY <1>2, <1>3

LEMMA ResolveKeeps == RaceInv /\ Resolve => RaceInv'
<1> SUFFICES ASSUME RaceInv, Resolve PROVE RaceInv'
  OBVIOUS
<1>1. /\ UNCHANGED <<call, alive, killed, stdoutRec, stdoutGrew, logFile, logRec, logGrew, acc, trigger,
                      bPc, bTime, quiet, sup, slack, idleTime, deadline, first, age, polled, timedOut>>
      /\ pc = "cancelled" /\ wait' = 0 /\ result' = resolve_termination /\ pc' = Decided
  BY DEF Resolve, Decided, env, files, chanB, scope
<1>2. pc' \in Actions /\ result' \in RaceOutcome
  BY <1>1, ResolvedTyped
<1>3. RaceTypeOK' /\ sup' \in Sups
  BY <1>1, <1>2, RaceParts, TypesMade DEF Pcs
<1>4. pc' = "NO_KILL" => acc.exited
  <2>1. trigger \/ timedOut
    BY <1>1, RaceParts DEF Course
  <2>2. CASE timedOut
    BY <1>1, <2>2 DEF Decided, decide_termination_action
  <2>3. CASE ~timedOut /\ ~acc.exited
    <3>1. acc.a \/ acc.idle \/ acc.b \in {"COMPLETION", "STALE", "DIR_MISSING"}
      BY <2>1, <2>3, RaceParts DEF Signals, Signal, BStatuses
    <3>2. ResolvedTermination # "NATURAL_EXIT" /\ resolve_termination.termination = ResolvedTermination
      BY <2>3, <3>1 DEF ResolvedTermination, resolve_termination
    <3> QED BY <1>1, <2>3, <3>2 DEF Decided, decide_termination_action
  <2> QED BY <2>2, <2>3
<1>5. result' = resolve_termination' /\ pc' = Decided'
  BY <1>1, JudgementFrame
<1>6. Course'
  BY <1>1, <1>2, <1>4, <1>5, RaceParts DEF Course, Over, Actions
<1>7. Clocks' /\ Confirming'
  BY <1>1, <1>2, JudgedFrame
<1> QED BY <1>1, <1>3, <1>6, <1>7, RaceParts, SignalsFrame DEF RaceInv

\* The coroutine returns, with a reason that fits the action.
LEMMA ReturnKeeps ==
  ASSUME RaceInv, pc \in {"kill", "NO_KILL", "DRAIN_THEN_KILL_IF_ALIVE", "IMMEDIATE_KILL"},
         NEW reason \in Kills, Return(reason),
         UNCHANGED <<call, stdoutRec, stdoutGrew, logFile, logRec, logGrew, acc, trigger, bPc, bTime,
                     quiet, sup, slack, idleTime, deadline, first, age, polled, wait, timedOut>>,
         alive' = FALSE, killed' \in BOOLEAN, killed' => reason # "NATURAL_EXIT",
         \/ Decided = "NO_KILL" /\ reason = "NATURAL_EXIT"
         \/ Decided = "DRAIN_THEN_KILL_IF_ALIVE" /\ reason = "NATURAL_EXIT"
         \/ Decided = "DRAIN_THEN_KILL_IF_ALIVE" /\ reason = "KILL_AFTER_COMPLETION" /\ wait >= Grace
         \/ Decided = "IMMEDIATE_KILL" /\ reason = "INFRA_KILL"
  PROVE  RaceInv'
<1>1. pc' = "returned" /\ result' = [result EXCEPT !.kill = reason] /\ result = resolve_termination
  BY RaceParts DEF Return, Course, Actions
<1>2. result' \in RaceOutcome /\ result'.kill = reason
  BY <1>1, RaceParts DEF RaceOutcome
<1>3. RaceTypeOK' /\ sup' \in Sups
  BY <1>1, <1>2, RaceParts, TypesMade DEF Pcs
<1>4. Signals'
  BY RaceParts DEF Signals
<1>5. Ruled(reason)' /\ Decided' = Decided
  BY <1>1, JudgementFrame DEF Ruled
<1>6. Course'
  BY <1>1, <1>2, <1>5 DEF Course, Over, Actions
<1>7. Clocks' /\ Confirming'
  BY <1>1, JudgedFrame DEF Actions
<1> QED BY <1>3, <1>4, <1>6, <1>7 DEF RaceInv

LEMMA NoKillKeeps == RaceInv /\ NoKill => RaceInv'
<1> SUFFICES ASSUME RaceInv, NoKill PROVE RaceInv'
  OBVIOUS
<1>1. /\ UNCHANGED <<call, alive, killed, stdoutRec, stdoutGrew, logFile, logRec, logGrew, acc, trigger,
                      bPc, bTime, quiet, sup, slack, idleTime, deadline, first, age, polled, wait,
                      timedOut>>
      /\ pc = "NO_KILL" /\ Return("NATURAL_EXIT")
  BY DEF NoKill, env, files, chanB, scope
<1>2. ~alive /\ ~killed /\ Decided = "NO_KILL"
  BY <1>1, RaceParts DEF Course, Signals, Actions
<1>3. alive \in BOOLEAN /\ killed \in BOOLEAN
  BY RaceParts
<1>4. alive' = FALSE /\ killed' \in BOOLEAN /\ ~killed'
  BY <1>1, <1>2, <1>3
<1>5. "NATURAL_EXIT" \in Kills
  BY DEF Kills
<1> QED BY <1>1, <1>2, <1>4, <1>5, ReturnKeeps

LEMMA GraceEndsKeeps == RaceInv /\ GraceEnds => RaceInv'
<1> SUFFICES ASSUME RaceInv, GraceEnds PROVE RaceInv'
  OBVIOUS
<1>1. /\ UNCHANGED <<call, alive, killed, stdoutRec, stdoutGrew, logFile, logRec, logGrew, acc, trigger,
                      bPc, bTime, quiet, sup, slack, idleTime, deadline, first, age, polled, wait,
                      timedOut>>
      /\ pc = "DRAIN_THEN_KILL_IF_ALIVE" /\ (acc.exited \/ wait >= Grace)
  BY DEF GraceEnds, env, files, chanB, scope
<1>2. ~killed /\ Decided = "DRAIN_THEN_KILL_IF_ALIVE" /\ result = resolve_termination
  BY <1>1, RaceParts DEF Course, Actions
<1>3. CASE ~alive /\ Return("NATURAL_EXIT")
  <2>1. alive \in BOOLEAN /\ killed \in BOOLEAN
    BY RaceParts
  <2>2. alive' = FALSE /\ killed' \in BOOLEAN /\ ~killed'
    BY <1>1, <1>2, <1>3, <2>1
  <2>3. "NATURAL_EXIT" \in Kills
    BY DEF Kills
  <2> QED BY <1>1, <1>2, <1>3, <2>2, <2>3, ReturnKeeps
<1>4. CASE alive /\ pc' = "kill" /\ UNCHANGED result
  <2>1. wait >= Grace
    BY <1>1, <1>4, RaceParts DEF Signals
  <2>2. RaceTypeOK' /\ sup' \in Sups
    BY <1>1, <1>4, RaceParts, TypesMade DEF Pcs
  <2>3. Course'
    BY <1>1, <1>2, <1>4, <2>1, JudgementFrame, RaceParts DEF Course, Over, Actions
  <2>4. Clocks' /\ Confirming'
    BY <1>1, <1>4, JudgedFrame DEF Actions
  <2> QED BY <1>1, <2>2, <2>3, <2>4, RaceParts, SignalsFrame DEF RaceInv
<1> QED BY <1>3, <1>4 DEF GraceEnds

LEMMA KillKeeps == RaceInv /\ (KillAfterGrace \/ ImmediateKill) => RaceInv'
<1> SUFFICES ASSUME RaceInv, KillAfterGrace \/ ImmediateKill PROVE RaceInv'
  OBVIOUS
<1>1. /\ UNCHANGED <<call, stdoutRec, stdoutGrew, logFile, logRec, logGrew, acc, trigger,
                      bPc, bTime, quiet, sup, slack, idleTime, deadline, first, age, polled, wait,
                      timedOut>>
      /\ alive' = FALSE /\ killed' = (killed \/ alive)
  BY DEF KillAfterGrace, ImmediateKill, KillTree, files, chanB, scope
<1>2. killed' \in BOOLEAN
  BY <1>1, RaceParts
<1>3. CASE pc = "kill" /\ Return("KILL_AFTER_COMPLETION")
  <2>1. Decided = "DRAIN_THEN_KILL_IF_ALIVE" /\ wait >= Grace
    BY <1>3, RaceParts DEF Course
  <2> QED BY <1>1, <1>2, <1>3, <2>1, ReturnKeeps DEF Kills
<1>4. CASE pc = "IMMEDIATE_KILL" /\ Return("INFRA_KILL")
  <2>1. Decided = "IMMEDIATE_KILL"
    BY <1>4, RaceParts DEF Course, Actions
  <2> QED BY <1>1, <1>2, <1>4, <2>1, ReturnKeeps DEF Kills
<1> QED BY <1>3, <1>4 DEF KillAfterGrace, ImmediateKill, KillTree

\* A cancellation, and the shielded kill that answers it.
LEMMA CancelledKeeps == RaceInv /\ (Cancelled \/ Cleanup) => RaceInv'
<1> SUFFICES ASSUME RaceInv, Cancelled \/ Cleanup PROVE RaceInv'
  OBVIOUS
<1>1. /\ UNCHANGED <<call, stdoutRec, stdoutGrew, logFile, logRec, logGrew, acc, trigger,
                      bPc, bTime, quiet, sup, slack, idleTime, deadline, first, age, polled, wait,
                      timedOut, result>>
      /\ \/ pc' = "cleanup" /\ UNCHANGED <<alive, killed>> /\ pc \notin {"returned", "raised"}
         \/ pc' = "raised" /\ alive' = FALSE /\ killed' = (killed \/ alive)
  BY DEF Cancelled, Cleanup, env, files, chanB, scope
<1>2. pc' \in {"cleanup", "raised"} /\ pc' \notin Actions /\ alive' \in BOOLEAN /\ killed' \in BOOLEAN
  BY <1>1, RaceParts DEF Actions
<1>3. RaceTypeOK' /\ sup' \in Sups
  BY <1>1, <1>2, RaceParts, TypesMade DEF Pcs
<1>4. Signals'
  BY <1>1, RaceParts DEF Signals
<1>5. Course'
  BY <1>1, <1>2, RaceParts DEF Course, Over
<1>6. Clocks'
  BY <1>1, <1>2, RaceParts DEF Clocks, DeadlineBounded, Racing
<1>7. Confirming'
  BY <1>1, <1>2, RaceParts DEF Confirming
<1> QED BY <1>3, <1>4, <1>5, <1>6, <1>7 DEF RaceInv

-----------------------------------------------------------------------------
(* Time.                                                                    *)

LEMMA RaceTickKeeps == RaceInv /\ Tick => RaceInv'
<1> SUFFICES ASSUME RaceInv, Tick PROVE RaceInv'
  OBVIOUS
<1>1. /\ UNCHANGED <<call, alive, killed, stdoutRec, stdoutGrew, logFile, logRec, logGrew, acc, trigger,
                      bPc, slack, deadline, first, pc, timedOut, result>>
      /\ MayWait /\ polled' = {}
      /\ age' = (IF pc = "race" THEN age + 1 ELSE age)
      /\ wait' = (IF pc = "race" THEN 0 ELSE wait + 1)
      /\ bTime' = (IF bPc \in {"id", "find", "drain"} THEN Lesser(bTime + 1, Longest) ELSE bTime)
      /\ quiet' = (IF bPc = "watch" THEN Lesser(quiet + 1, Stale) ELSE quiet)
      /\ sup' = [kind \in {"api", "child"} |-> Later(sup[kind], MaxSuppression)]
      /\ idleTime' = Lesser(idleTime + 1, call.idle)
  BY DEF Tick, env, scope
<1>2. call.idle \in Nat
  BY RaceParts DEF Call
<1>3. /\ age' \in Nat /\ wait' \in Nat /\ bTime' \in Nat /\ quiet' \in Nat /\ idleTime' \in Nat
  BY <1>1, <1>2, RaceParts, RaceNumbers DEF Lesser
<1>4. sup' \in Sups
  <2>1. sup["api"] \in Nat \union {Never} /\ sup["child"] \in Nat \union {Never}
    BY RaceParts DEF Sups
  <2>2. \A kind \in {"api", "child"} : Later(sup[kind], MaxSuppression) \in Nat \union {Never}
    BY <2>1, RaceNumbers DEF Later, Lesser
  <2>3. sup' \in [{"api", "child"} -> Nat \union {Never}]
    BY <1>1, <2>2
  <2> QED BY <1>1, <2>2, <2>3 DEF Sups
<1>5. RaceTypeOK' /\ sup' \in Sups
  BY <1>1, <1>3, <1>4, RaceParts, TypesMade
<1>6. pc \in {"race", "symdrain", "DRAIN_THEN_KILL_IF_ALIVE"}
  BY <1>1 DEF MayWait
<1>7. Course'
  BY <1>1, <1>6, RaceParts, JudgementFrame DEF Course, Over, Actions
<1>8. Clocks'
  <2>1. pc = "race" => age < deadline
    BY <1>1 DEF MayWait
  <2>2. DeadlineBounded'
    BY <1>1, <2>1, RaceParts, RaceNumbers DEF Clocks, DeadlineBounded
  <2>3. ASSUME bPc = "drain", pc = "race", ~trigger, ~timedOut
        PROVE  bTime' <= Drain /\ slack <= deadline - age' + bTime'
    <3>1. bTime < Drain
      BY <1>1, <2>3, RaceParts, RaceNumbers DEF MayWait, RaceMayWait, DrainOver
    <3>2. bTime' = bTime + 1 /\ age' = age + 1
      BY <1>1, <2>3, <3>1, RaceParts, RaceNumbers DEF Lesser
    <3> QED BY <2>3, <3>1, <3>2, RaceParts, RaceNumbers DEF Clocks
  <2>4. ASSUME bPc = "id", Racing PROVE bTime' <= IdWait
    <3>1. bTime < IdWait
      BY <1>1, <2>4 DEF MayWait, RaceMayWait, Racing
    <3> QED BY <1>1, <2>4, <3>1, RaceParts, RaceNumbers DEF Lesser
  <2> QED BY <1>1, <2>2, <2>3, <2>4, RaceParts DEF Clocks, Racing
<1>9. Confirming'
  <2>1. ASSUME pc = "symdrain", logRec = "whole"
        PROVE  CASE bPc = "id" -> wait' <= bTime'
                 [] bPc = "find" -> wait' <= IdWait + 1
                 [] bPc = "watch" -> wait' <= IdWait + 1 + 1
                 [] bPc = "drain" -> wait' <= IdWait + 2
                 [] OTHER -> TRUE
    <3>1. RaceMayWait /\ trigger /\ wait' = wait + 1
      BY <1>1, <2>1, RaceParts DEF MayWait, Course, Signals
    <3>2. CASE bPc = "id"
      <4>1. wait <= bTime /\ bTime < IdWait
        BY <2>1, <3>1, <3>2, RaceParts DEF Confirming, RaceMayWait
      <4> QED BY <1>1, <3>1, <3>2, <4>1, RaceParts, RaceNumbers DEF Lesser
    <3>3. CASE bPc \in {"find", "watch"}
      <4>1. "B" \in polled
        BY <3>1, <3>3 DEF RaceMayWait, Polling
      <4> QED BY <2>1, <3>1, <3>3, <4>1, RaceParts, RaceNumbers DEF Confirming, Unread
    <3>4. CASE bPc = "drain"
      BY <3>1, <3>4 DEF RaceMayWait, DrainOver
    <3> QED BY <3>2, <3>3, <3>4
  <2>2. Unread' = 1
    BY <1>1 DEF Unread
  <2> QED BY <1>1, <2>1, <2>2, RaceParts DEF Confirming
<1> QED BY <1>1, <1>5, <1>7, <1>8, <1>9, RaceParts, SignalsFrame DEF RaceInv

LEMMA RaceStepKeeps == RaceInv /\ [RaceNext]_raceVars => RaceInv'
<1> SUFFICES ASSUME RaceInv, [RaceNext]_raceVars PROVE RaceInv'
  OBVIOUS
<1>1. CASE Main
  BY <1>1, TimeoutFiresKeeps, LeaveRaceKeeps, LeaveDrainKeeps, ResolveKeeps, NoKillKeeps,
     GraceEndsKeeps, KillKeeps, CancelledKeeps DEF Main
<1>2. CASE UNCHANGED raceVars
  <2>1. UNCHANGED <<call, alive, killed, stdoutRec, stdoutGrew, logFile, logRec, logGrew, acc, trigger,
                     bPc, bTime, quiet, sup, slack, idleTime, deadline, first, age, polled, pc, wait,
                     timedOut, result>>
    BY <1>2 DEF raceVars, env, files, chanB, scope, main
  <2>2. RaceTypeOK' /\ sup' \in Sups
    BY <2>1, RaceParts, TypesMade
  <2> QED BY <2>1, <2>2, RaceParts, SignalsFrame, CourseFrame, ClocksFrame, ConfirmingFrame DEF RaceInv
<1> QED BY <1>1, <1>2, ChildKeeps, WatchersKeep, CancelledKeeps, RaceTickKeeps DEF RaceNext

\* Whatever the child writes and in whatever order the watchers are served, and
\* at whatever wait the coroutine is cancelled: no child outlives its run, the
\* kill reason and the termination say what happened, and every result is one
\* the adjudication knows.
THEOREM RaceResultIsTrue == RaceSpec => []RaceResultTrue
BY RaceInitInv, RaceStepKeeps, RaceInvTrue, PTL DEF RaceSpec

\* For any deadline, cap and drain: extensions stay under the cap, a marker found
\* a drain ahead of the deadline does not become a timeout, and with a drain that
\* covers the id wait and two polls an exit after a marker is confirmed.
THEOREM CompletionIsHonoured == RaceSpec => []CompletionHonoured
BY RaceInitInv, RaceStepKeeps, RaceInvHonours, PTL DEF RaceSpec

----------------------------------------------------------------------------
(* The verdict on what a session left.                                      *)

\* A verdict that names a reason exactly when it asks for a retry, and never
\* both succeeds and asks for one.
WellFormed(v) ==
  /\ v = [success |-> v.success, subtype |-> v.subtype, retry |-> v.retry, reason |-> v.reason]
  /\ v.success \in BOOLEAN /\ v.retry \in BOOLEAN
  /\ v.retry = (v.reason \notin {"none", "budget_exhausted"})
  /\ ~(v.success /\ v.retry)

\* Neither a success nor a retry is owed any more.
Answered(v) == v.success \/ v.retry \/ v.reason = "budget_exhausted"

\* The fields of a piece of evidence, and of a session.
LEMMA EvidenceTypes ==
  ASSUME NEW e \in Evidence
  PROVE  /\ e.session \in Session /\ Parsed(e.session)
         /\ e.race \in RaceResults
         /\ e.race.termination \in Terminations /\ e.race.channel \in Channels /\ e.race.kill \in Kills
         /\ e.rc \in ReturnCodes /\ e.api \in BOOLEAN /\ e.files \in BOOLEAN /\ e.strays \in BOOLEAN
         /\ e.patterns \in {"none", "path", "plain"} /\ e.mustWrite \in BOOLEAN
  BY DEF Evidence, RaceResults

LEMMA SessionTypes ==
  ASSUME NEW s \in Session
  PROVE  /\ s.subtype \in Subtypes /\ s.isError \in BOOLEAN /\ s.text \in Texts /\ s.msgs \in Texts
         /\ s.flat \in BOOLEAN /\ s.limit \in {"nowhere", "errors", "result"}
         /\ s.thinking \in BOOLEAN /\ s.tool \in BOOLEAN
  BY DEF Session

\* What two texts contain together is a text.
LEMMA TextsJoin ==
  ASSUME NEW s \in Texts, NEW t \in Texts PROVE s \union t \in Texts
  BY DEF Texts, Marks

\* A retry asked for has its reason.
RetryWords == {"resume", "thinking_stall", "empty_output", "early_stop", "drain_race"}
Retries == {NoRetry} \union {Retry(reason) : reason \in RetryWords}

LEMMA RetriesTyped ==
  ASSUME NEW r \in Retries
  PROVE  /\ r = [needed |-> r.needed, reason |-> r.reason]
         /\ r.needed \in BOOLEAN /\ r.reason \in RetryWords \union {"none"}
         /\ r.needed = (r.reason # "none")
<1>1. CASE r = NoRetry BY <1>1 DEF NoRetry
<1>2. CASE r \in {Retry(reason) : reason \in RetryWords}
  <2>1. PICK reason \in RetryWords : r = [needed |-> TRUE, reason |-> reason] BY <1>2 DEF Retry
  <2>2. r.needed = TRUE /\ r.reason = reason BY <2>1
  <2>3. reason # "none" BY DEF RetryWords
  <2> QED BY <2>1, <2>2, <2>3
<1> QED BY <1>1, <1>2 DEF Retries

LEMMA RetryShape ==
  ASSUME NEW s, NEW termination, NEW channel, NEW rc
  PROVE  ComputeRetry(s, termination, channel, rc) \in Retries
<1>1. \/ ComputeRetry(s, termination, channel, rc) = NoRetry
      \/ \E reason \in {"resume", "thinking_stall", "empty_output", "early_stop"} :
           ComputeRetry(s, termination, channel, rc) = Retry(reason)
  BY DEF ComputeRetry
<1> QED BY <1>1 DEF Retries, RetryWords

\* Recovery keeps the session a session, and adds no text the session did not
\* leave, unless it stands for a file written in a session nobody watched.
LEMMA AdjudgedSession ==
  ASSUME NEW e \in Evidence
  PROVE  LET s == Adjudged(e)
             left == e.session.text \union e.session.msgs
         IN  /\ s \in Session
             /\ \/ s.text \subseteq left
                \/ /\ s.text \subseteq left \union {"text", "tokens"}
                   /\ e.race.channel = "UNMONITORED" /\ e.patterns = "path" /\ e.session.tool
<1> DEFINE s0 == IF e.race.termination # "TIMED_OUT" THEN e.session
                 ELSE IF e.session.subtype \in {"success", "empty_output"}
                 THEN [e.session EXCEPT !.subtype = "timeout", !.isError = TRUE]
                 ELSE e.session
           left == e.session.text \union e.session.msgs
           r == DrainRaceRecovered(s0, e)
           f == FromMarker(r)
           t == TokensRecovered(f, e)
           Kept(x) == x \in Session /\ x.msgs = e.session.msgs /\ x.tool = e.session.tool /\ x.text \subseteq left
<1>1. e.session \in Session
  BY EvidenceTypes
<1>2. Kept(s0)
  BY <1>1, SessionTypes DEF Session, Subtypes
<1>m. ASSUME NEW x, Kept(x) PROVE Kept(FromMarker(x))
  <2>1. x \in Session /\ x.msgs \in Texts BY <1>m, SessionTypes
  <2>2. [x EXCEPT !.text = x.msgs] \in Session BY <2>1 DEF Session
  <2>3. CASE Recoverable(x)
    BY <2>1, <2>2, <2>3, <1>m DEF FromMarker, Session
  <2>4. CASE ~Recoverable(x)
    BY <2>4, <1>m DEF FromMarker
  <2> QED BY <2>3, <2>4
<1>3. Kept(r)
  <2>1. Kept(FromMarker(s0)) BY <1>2, <1>m
  <2>2. [FromMarker(s0) EXCEPT !.subtype = "success", !.isError = FALSE] \in Session
    BY <2>1 DEF Session, Subtypes
  <2>3. Kept([FromMarker(s0) EXCEPT !.subtype = "success", !.isError = FALSE])
    BY <2>1, <2>2 DEF Session
  <2> HIDE DEF s0, Kept
  <2> QED BY <1>2, <2>3 DEF DrainRaceRecovered
<1>4. Kept(f)
  BY <1>3, <1>m
<1>5. /\ t \in Session
      /\ \/ t.text \subseteq left
         \/ /\ t.text \subseteq left \union {"text", "tokens"}
            /\ e.race.channel = "UNMONITORED" /\ e.patterns = "path" /\ e.session.tool
  <2> HIDE DEF f
  <2>1. f \in Session /\ f.text \in Texts /\ f.msgs \in Texts BY <1>4, SessionTypes
  <2>2. f.text \union f.msgs \in Texts BY <2>1, TextsJoin
  <2>3. f.text \union {"text", "tokens"} \in Texts BY <2>1 DEF Texts, Marks
  <2>4. [f EXCEPT !.text = @ \union f.msgs] \in Session BY <2>1, <2>2 DEF Session
  <2>5. [f EXCEPT !.text = @ \union {"text", "tokens"}] \in Session BY <2>1, <2>3 DEF Session
  <2>6. CASE t = f BY <2>6, <1>4
  <2>7. CASE t = [f EXCEPT !.text = @ \union f.msgs]
    <3>1. t.text = f.text \union f.msgs BY <2>7, <2>1 DEF Session
    <3> QED BY <3>1, <2>7, <2>4, <1>4
  <2>8. CASE /\ t = [f EXCEPT !.text = @ \union {"text", "tokens"}]
             /\ e.race.channel = "UNMONITORED" /\ e.patterns = "path" /\ f.tool
    <3>1. t.text = f.text \union {"text", "tokens"} BY <2>8, <2>1 DEF Session
    <3> QED BY <3>1, <2>8, <2>5, <1>4
  <2> QED BY <2>6, <2>7, <2>8 DEF TokensRecovered
<1> HIDE DEF s0, r, f, t
<1>6. Adjudged(e) = IF SessionComplete(r) THEN t ELSE r
  BY DEF Adjudged, s0, r, f, t
<1> QED BY <1>3, <1>5, <1>6



\* An outcome decides: success, or a retry with its reason, or neither.
WellDecided(o) ==
  /\ o = [success |-> o.success, retry |-> o.retry]
  /\ o.success \in BOOLEAN /\ o.retry \in Retries
  /\ ~(o.success /\ o.retry.needed)

\* A retry signal demotes a success, so the outcome never has both.
LEMMA OutcomeDecides ==
  ASSUME NEW s, NEW e
  PROVE  LET o == Outcome(s, e)
         IN  /\ WellDecided(o)
             /\ o.success =>
                  ComputeSuccess(s, e.race.termination, e.race.channel, e.rc, e.patterns)
<1> DEFINE o == Outcome(s, e)
           cs == ComputeSuccess(s, e.race.termination, e.race.channel, e.rc, e.patterns)
           cr == ComputeRetry(s, e.race.termination, e.race.channel, e.rc)
<1>0. cs \in BOOLEAN
  BY DEF ComputeSuccess, PatternsHold, ContentOK
<1>1. cr \in Retries
  BY RetryShape
<1> HIDE DEF cs, cr
<1>2. /\ o.success = (cs /\ ~cr.needed)
      /\ o.retry = cr \/ (~cs /\ o.retry = Retry("drain_race"))
      /\ o = [success |-> o.success, retry |-> o.retry]
  BY <1>0 DEF Outcome, cs, cr
<1> HIDE DEF o
<1>3. cr.needed \in BOOLEAN
  BY <1>1, RetriesTyped
<1>4. Retry("drain_race") \in Retries
  BY DEF Retries, RetryWords
<1>5. WellDecided(o) /\ (o.success => cs)
  BY <1>0, <1>1, <1>2, <1>3, <1>4 DEF WellDecided
<1> QED BY <1>5 DEF cs, o

\* The override for API errors and kills touches failures only.
LEMMA OverrideDecides ==
  ASSUME NEW s, NEW e, NEW o, WellDecided(o)
  PROVE  WellDecided(Overridden(s, e, o)) /\ Overridden(s, e, o).success = o.success
<1>1. CASE Overridden(s, e, o) = o BY <1>1
<1>2. CASE ~o.success /\ Overridden(s, e, o) = [o EXCEPT !.retry = Retry("resume")]
  <2>1. Retry("resume") \in Retries BY DEF Retries, RetryWords
  <2>2. /\ Overridden(s, e, o).success = o.success /\ Overridden(s, e, o).retry = Retry("resume")
        /\ Overridden(s, e, o) = [success |-> o.success, retry |-> Retry("resume")]
    BY <1>2 DEF WellDecided
  <2> QED BY <2>1, <2>2, <1>2 DEF WellDecided
<1> QED BY <1>1, <1>2 DEF Overridden

\* What Judged computes, with its parts named.
LEMMA JudgedParts ==
  ASSUME NEW e \in Evidence
  PROVE  LET s == Adjudged(e)
             o == Outcome(s, [e EXCEPT !.rc = ReturnCode(e)])
             n == Overridden(s, e, o)
         IN  /\ Judged(e) = Verdict(n.success, NormalSubtype(s, n.success), n.retry)
             /\ WellDecided(o) /\ WellDecided(n) /\ n.success = o.success
             /\ n.success =>
                  ComputeSuccess(s, e.race.termination, e.race.channel, ReturnCode(e), e.patterns)
<1> DEFINE x == [e EXCEPT !.rc = ReturnCode(e)]
<1>1. x.race = e.race /\ x.patterns = e.patterns /\ x.rc = ReturnCode(e)
  BY DEF Evidence
<1>2. WellDecided(Outcome(Adjudged(e), x)) /\
      (Outcome(Adjudged(e), x).success => 
         ComputeSuccess(Adjudged(e), e.race.termination, e.race.channel, ReturnCode(e), e.patterns))
  BY <1>1, OutcomeDecides
<1>3. Judged(e) = Verdict(Overridden(Adjudged(e), e, Outcome(Adjudged(e), x)).success,
                          NormalSubtype(Adjudged(e), Overridden(Adjudged(e), e, Outcome(Adjudged(e), x)).success),
                          Overridden(Adjudged(e), e, Outcome(Adjudged(e), x)).retry)
  BY DEF Judged
<1> QED BY <1>2, <1>3, OverrideDecides

\* The verdict before the gates is well formed.
LEMMA JudgedShape ==
  ASSUME NEW e \in Evidence
  PROVE  LET v == Judged(e)
         IN  /\ WellFormed(v)
             /\ v.reason \in RetryWords \union {"none"}
             /\ v.success => ComputeSuccess(Adjudged(e), e.race.termination, e.race.channel,
                                            ReturnCode(e), e.patterns)
<1>1. PICK n : /\ WellDecided(n)
               /\ Judged(e) = Verdict(n.success, NormalSubtype(Adjudged(e), n.success), n.retry)
               /\ n.success => ComputeSuccess(Adjudged(e), e.race.termination, e.race.channel,
                                              ReturnCode(e), e.patterns)
  BY JudgedParts
<1>2. /\ n.retry.needed \in BOOLEAN /\ n.retry.reason \in RetryWords \union {"none"}
      /\ n.retry.needed = (n.retry.reason # "none")
  BY <1>1, RetriesTyped DEF WellDecided
<1>3. n.retry.reason # "budget_exhausted"
  BY <1>2 DEF RetryWords
<1>4. /\ Judged(e) = [success |-> n.success, subtype |-> NormalSubtype(Adjudged(e), n.success),
                      retry |-> n.retry.needed, reason |-> n.retry.reason]
      /\ n.success \in BOOLEAN /\ ~(n.success /\ n.retry.needed)
  BY <1>1 DEF Verdict, WellDecided
<1>5. /\ Judged(e).success = n.success /\ Judged(e).retry = n.retry.needed
      /\ Judged(e).reason = n.retry.reason
      /\ Judged(e).subtype = NormalSubtype(Adjudged(e), n.success)
  BY <1>4
<1> QED BY <1>1, <1>2, <1>3, <1>4, <1>5 DEF WellFormed

\* A success keeps the skill's contract, and has something to show.
LEMMA JudgedSuccess ==
  ASSUME NEW e \in Evidence, Judged(e).success
  PROVE  LET left == e.session.text \union e.session.msgs
         IN  /\ \/ PatternsHold(e.patterns, left)
                \/ e.race.channel = "UNMONITORED" /\ e.patterns = "path" /\ e.session.tool
             /\ e.race.channel = "CHANNEL_B"
                  \/ /\ "marker" \in left
                     /\ "text" \in left \/ e.session.tool
<1> DEFINE left == e.session.text \union e.session.msgs
<1>0. e.session \in Session /\ e.session.text \in Texts /\ e.session.msgs \in Texts
  BY EvidenceTypes, SessionTypes
<1>1. PICK s \in Session :
        /\ \/ s.text \subseteq left
           \/ /\ s.text \subseteq left \union {"text", "tokens"}
              /\ e.race.channel = "UNMONITORED" /\ e.patterns = "path" /\ e.session.tool
        /\ ComputeSuccess(s, e.race.termination, e.race.channel, ReturnCode(e), e.patterns)
  BY JudgedShape, AdjudgedSession
<1>2. s.text \in Texts BY SessionTypes
<1>3. PatternsHold(e.patterns, s.text)
  BY <1>1 DEF ComputeSuccess, ContentOK
<1>4. e.race.channel = "CHANNEL_B" \/ ("marker" \in s.text /\ s.text # {"marker"})
  BY <1>1 DEF ComputeSuccess, ContentOK
<1>5. "marker" \in s.text /\ s.text # {"marker"} => "text" \in s.text
  BY <1>2 DEF Texts, Marks
<1>6. "tokens" \in left => "text" \in left
  BY <1>0 DEF Texts
<1> QED
  BY <1>1, <1>3, <1>4, <1>5, <1>6 DEF PatternsHold

\* A completion that a channel confirmed, without a marker in what the session
\* left and without an error, is no dead end.
LEMMA JudgedConfirmed ==
  ASSUME NEW e \in Evidence,
         e.race.channel \in {"CHANNEL_A", "CHANNEL_B"}, e.race.termination # "TIMED_OUT",
         ~e.session.isError, "marker" \notin e.session.text \union e.session.msgs
  PROVE  Judged(e).success \/ Judged(e).retry
<1> DEFINE s == Adjudged(e)
           x == [e EXCEPT !.rc = ReturnCode(e)]
           left == e.session.text \union e.session.msgs
<1>0. e.session \in Session
  BY EvidenceTypes
<1>1. ~Recoverable(e.session)
  BY DEF Recoverable
<1>2. DrainRaceRecovered(e.session, e) = e.session /\ FromMarker(e.session) = e.session
  BY <1>1 DEF DrainRaceRecovered, FromMarker
<1>3. s \in {e.session, TokensRecovered(e.session, e)}
  BY <1>2 DEF Adjudged
<1>4. s.isError = e.session.isError
  BY <1>3, <1>0 DEF TokensRecovered, Session
<1>5. "marker" \notin s.text
  BY AdjudgedSession
<1>6. ~s.isError BY <1>4
<1>7. ContentState(s, e.patterns) = "ABSENT"
  BY <1>5, <1>6 DEF ContentState
<1>8. x.race = e.race /\ x.patterns = e.patterns
  BY DEF Evidence
<1> HIDE DEF s, x
<1>9. Outcome(s, x).success \/ Outcome(s, x).retry.needed
  <2> DEFINE cs == ComputeSuccess(s, x.race.termination, x.race.channel, x.rc, x.patterns)
             cr == ComputeRetry(s, x.race.termination, x.race.channel, x.rc)
  <2>1. cs \in BOOLEAN /\ cr.needed \in BOOLEAN
    <3>1. cs \in BOOLEAN BY DEF ComputeSuccess, PatternsHold, ContentOK
    <3>2. cr.needed \in BOOLEAN BY RetryShape, RetriesTyped
    <3> QED BY <3>1, <3>2
  <2>2. /\ Outcome(s, x).success = (cs /\ ~cr.needed)
        /\ Outcome(s, x).retry = IF ~cs /\ ~cr.needed THEN Retry("drain_race") ELSE cr
    BY <1>7, <1>8 DEF Outcome
  <2> HIDE DEF cs, cr
  <2> QED BY <2>1, <2>2 DEF Retry
<1>10. LET n == Overridden(s, e, Outcome(s, x)) IN n.success \/ n.retry.needed
  BY <1>9, JudgedParts DEF Overridden, WellDecided, Retry, s, x
<1> QED
  BY <1>10, JudgedParts DEF Verdict, s, x

\* What something else than the runner killed is resumed, unless it had finished.
LEMMA JudgedKilled ==
  ASSUME NEW e \in Evidence, e.race.kill = "NATURAL_EXIT", e.rc = "negative"
  PROVE  Judged(e).success \/ Judged(e).retry
<1> DEFINE s == Adjudged(e)
           x == [e EXCEPT !.rc = ReturnCode(e)]
           o == Outcome(s, x)
           n == Overridden(s, e, o)
<1>1. WellDecided(o) /\ Judged(e) = Verdict(n.success, NormalSubtype(s, n.success), n.retry)
  BY JudgedParts
<1>2. NeedsResume(s) => o.retry.needed
  <2>1. NeedsResume(s) => ComputeRetry(s, x.race.termination, x.race.channel, x.rc) = Retry("resume")
    BY DEF ComputeRetry
  <2> QED BY <2>1 DEF Outcome, Retry
<1>3. ~NeedsResume(s) => InfraExit(s, e) \in {"API_ERROR", "PROCESS_KILLED"}
  BY DEF NeedsResume, InfraExit
<1> HIDE DEF o
<1>4. n.success \/ n.retry.needed
  BY <1>1, <1>2, <1>3 DEF Overridden, WellDecided, Retry
<1> QED
  BY <1>1, <1>4 DEF Verdict

----------------------------------------------------------------------------
(* The gates between the outcome and the answer.                            *)

\* The two verdicts the gates and the nudge make.
LEMMA RetryMade ==
  ASSUME NEW subtype, NEW reason, reason \notin {"none", "budget_exhausted"}
  PROVE  LET v == Verdict(FALSE, subtype, Retry(reason))
         IN  WellFormed(v) /\ ~v.success /\ v.subtype = subtype /\ v.retry /\ v.reason = reason
  BY DEF Verdict, WellFormed, Retry

LEMMA SuccessMade ==
  ASSUME NEW subtype
  PROVE  LET v == Verdict(TRUE, subtype, NoRetry)
         IN  WellFormed(v) /\ v.success /\ ~v.retry
  BY DEF Verdict, WellFormed, NoRetry

\* The budget guard takes a retry away and nothing else.
LEMMA GuardFacts ==
  ASSUME NEW v, WellFormed(v), NEW spent \in BOOLEAN
  PROVE  LET g == BudgetGuard(spent, v)
         IN  /\ WellFormed(g)
             /\ g.success = v.success /\ g.subtype = v.subtype
             /\ g.retry = (v.retry /\ ~spent)
             /\ g.retry => g = v
             /\ Answered(v) => Answered(g)
             /\ ~(v.retry /\ spent) => g = v
<1>1. CASE v.retry /\ spent
  <2>1. LET g == BudgetGuard(spent, v)
        IN  /\ g = [success |-> v.success, subtype |-> v.subtype, retry |-> FALSE, reason |-> "budget_exhausted"]
            /\ g.success = v.success /\ g.subtype = v.subtype /\ g.retry = FALSE /\ g.reason = "budget_exhausted"
    BY <1>1 DEF BudgetGuard, WellFormed
  <2> QED BY <2>1, <1>1 DEF WellFormed, Answered
<1>2. CASE ~(v.retry /\ spent)
  BY <1>2 DEF BudgetGuard, WellFormed
<1> QED BY <1>1, <1>2


\* A session leaves at most one record.
LEMMA RecordedShape ==
  ASSUME NEW e \in Evidence
  PROVE  Recorded(e) \in {{}, {TRUE}, {FALSE}}
<1>1. CASE Stalled(e) BY <1>1 DEF Recorded
<1>2. CASE ~Stalled(e)
  <2>1. Judged(e).retry \/ OwesToken(e, Judged(e)) \in BOOLEAN
    BY JudgedShape DEF OwesToken, WellFormed
  <2>2. Judged(e).success \in BOOLEAN BY JudgedShape DEF WellFormed
  <2>3. (Judged(e).retry \/ OwesToken(e, Judged(e))) = TRUE \/ (Judged(e).retry \/ OwesToken(e, Judged(e))) = FALSE
    BY <2>1, Zenon
  <2> QED BY <2>2, <2>3, <1>2 DEF Recorded
<1> QED BY <1>1, <1>2

\* A stall is recovered, or asks for a retry and is recorded so.
LEMMA StallFacts ==
  ASSUME NEW e \in Evidence, Stalled(e), NEW spent \in BOOLEAN
  PROVE  LET v == BuildSkillResult(e, spent)
         IN  /\ WellFormed(v)
             /\ ~Nudgeable(v)
             /\ v.retry => ~spent /\ Recorded(e) = {TRUE}
<1> DEFINE s == StallVerdict(e)
           v == BuildSkillResult(e, spent)
<1>1. v = BudgetGuard(spent, s) BY DEF BuildSkillResult
<1>2. CASE StallRecovered(e)
  <2>1. WellFormed(s) /\ ~s.retry BY <1>2, SuccessMade DEF StallVerdict
  <2> HIDE DEF s
  <2> QED BY <2>1, <1>1, GuardFacts DEF Nudgeable
<1>3. CASE ~StallRecovered(e)
  <2>1. WellFormed(s) /\ s.reason \in {"stale", "idle_stall"}
    <3>1. s = Verdict(FALSE, "stale", Retry("stale")) \/ s = Verdict(FALSE, "idle_stall", Retry("idle_stall"))
      BY <1>3 DEF StallVerdict
    <3>2. /\ WellFormed(Verdict(FALSE, "stale", Retry("stale")))
          /\ Verdict(FALSE, "stale", Retry("stale")).reason = "stale"
      BY RetryMade
    <3>3. /\ WellFormed(Verdict(FALSE, "idle_stall", Retry("idle_stall")))
          /\ Verdict(FALSE, "idle_stall", Retry("idle_stall")).reason = "idle_stall"
      BY RetryMade
    <3> HIDE DEF s
    <3> QED BY <3>1, <3>2, <3>3
  <2>2. Recorded(e) = {TRUE} BY <1>3 DEF Recorded
  <2> HIDE DEF s
  <2> HIDE DEF v
  <2>3. WellFormed(v) /\ (v.retry => v = s /\ ~spent)
    BY <2>1, <1>1, GuardFacts
  <2>4. WellFormed(v) /\ ~Nudgeable(v) /\ (v.retry => ~spent /\ Recorded(e) = {TRUE})
    BY <2>1, <2>2, <2>3 DEF Nudgeable
  <2> QED BY <2>4 DEF v
<1> QED BY <1>2, <1>3

\* What the gates make of a judged session.
LEMMA GateFacts ==
  ASSUME NEW e \in Evidence, ~Stalled(e), NEW spent \in BOOLEAN
  PROVE  LET v == BuildSkillResult(e, spent)
             j == Judged(e)
         IN  /\ WellFormed(v)
             /\ v.success => j.success /\ (e.mustWrite => Wrote(e))
             /\ j.success \/ j.retry => Answered(v)
             /\ Nudgeable(v) => ~j.success
             /\ v.retry /\ v.reason \notin Unguarded => ~spent /\ Recorded(e) = {TRUE}
<1> DEFINE j == Judged(e)
           c == Contaminated(e, j)
           g == BudgetGuard(spent, c)
           k0 == ContractGate(e, g)
           k == BudgetGuard(spent, k0)
           w == ZeroWriteGate(e, k)
           f == NoFlushGate(e, w)
           v == BuildSkillResult(e, spent)
<1>0. v = BudgetGuard(spent /\ f # w, f)
  BY DEF BuildSkillResult
<1>1. /\ WellFormed(j) /\ j.reason \in RetryWords \union {"none"} /\ Wrote(e) \in BOOLEAN
      /\ e.mustWrite \in BOOLEAN
  <2>1. e.session.tool \in BOOLEAN /\ e.files \in BOOLEAN /\ e.mustWrite \in BOOLEAN
    BY EvidenceTypes, SessionTypes
  <2> QED BY <2>1, JudgedShape DEF Wrote
<1>2. /\ c = j \/ (WellFormed(c) /\ ~c.success /\ c.subtype = "path_contamination"
                   /\ c.retry /\ c.reason = "path_contamination")
      /\ WellFormed(c)
  BY <1>1, RetryMade DEF Contaminated
<1>3. /\ WellFormed(g) /\ g.success = c.success /\ g.subtype = c.subtype
      /\ g.retry = (c.retry /\ ~spent) /\ (g.retry => g = c)
      /\ (Answered(c) => Answered(g)) /\ (~(c.retry /\ spent) => g = c)
  <2> HIDE DEF c
  <2> QED BY <1>2, GuardFacts
<1>4. \/ k0 = g
      \/ /\ OwesToken(e, g)
         /\ WellFormed(k0) /\ ~k0.success /\ k0.subtype = g.subtype /\ k0.retry
         /\ k0.reason = "contract_recovery"
  <2> HIDE DEF g
  <2>1. k0 = g \/ (OwesToken(e, g) /\ k0 = Verdict(FALSE, g.subtype, Retry("contract_recovery")))
    BY DEF ContractGate
  <2> HIDE DEF k0
  <2>2. LET r == Verdict(FALSE, g.subtype, Retry("contract_recovery"))
        IN  WellFormed(r) /\ ~r.success /\ r.subtype = g.subtype /\ r.retry /\ r.reason = "contract_recovery"
    BY DEF Verdict, WellFormed, Retry
  <2> QED BY <2>1, <2>2
<1>5. WellFormed(k0) BY <1>3, <1>4
<1>6. /\ WellFormed(k) /\ k.success = k0.success /\ k.subtype = k0.subtype
      /\ k.retry = (k0.retry /\ ~spent) /\ (k.retry => k = k0)
      /\ (Answered(k0) => Answered(k))
  <2> HIDE DEF k0
  <2> QED BY <1>5, GuardFacts
<1>7. \/ /\ w = k /\ (k.success => Wrote(e) \/ ~e.mustWrite)
      \/ /\ k.success
         /\ WellFormed(w) /\ ~w.success /\ w.retry /\ w.reason = "zero_writes"
  <2> HIDE DEF k
  <2> QED BY RetryMade DEF ZeroWriteGate
<1>8. WellFormed(w) BY <1>6, <1>7
<1>9. \/ f = w
      \/ /\ w.retry /\ w.reason = "empty_output"
         /\ WellFormed(f) /\ ~f.success /\ f.retry /\ f.reason = "completed_no_flush"
  <2> HIDE DEF w
  <2> QED BY RetryMade DEF NoFlushGate
<1>10. WellFormed(f) BY <1>8, <1>9
<1>11. /\ WellFormed(v) /\ v.success = f.success
       /\ v.retry = (f.retry /\ ~(spent /\ f # w)) /\ (v.retry => v = f)
       /\ (Answered(f) => Answered(v))
  <2> HIDE DEF f, w
  <2>1. PICK b \in BOOLEAN : b = (spent /\ f # w) OBVIOUS
  <2>2. v = BudgetGuard(b, f) BY <1>0, <2>1
  <2> HIDE DEF v
  <2> QED BY <1>10, <2>1, <2>2, GuardFacts
<1>13. Recorded(e) = IF j.success THEN {} ELSE {j.retry \/ OwesToken(e, j)}
  BY DEF Recorded
<1> HIDE DEF j, c, g, k0, k, w, f, v
<1>14. v.success => j.success /\ (e.mustWrite => Wrote(e))
  BY <1>1, <1>2, <1>3, <1>4, <1>6, <1>7, <1>9, <1>11 DEF WellFormed
<1>15. j.success \/ j.retry => Answered(v)
  <2>1. j.success \/ j.retry => Answered(c) BY <1>2 DEF Answered
  <2>2. Answered(g) => Answered(k0) BY <1>4 DEF Answered
  <2>3. Answered(k) => Answered(w) BY <1>7 DEF Answered
  <2>4. Answered(w) => Answered(f) BY <1>9 DEF Answered
  <2> QED BY <2>1, <2>2, <2>3, <2>4, <1>3, <1>6, <1>11
<1>16. v.retry /\ v.reason \notin Unguarded =>
         /\ ~spent /\ w = k /\ k = k0 /\ k.retry /\ k.reason \notin Unguarded
  BY <1>6, <1>7, <1>9, <1>11 DEF Unguarded
<1>17. v.retry /\ v.reason \notin Unguarded => ~j.success /\ (j.retry \/ OwesToken(e, j))
  <2> SUFFICES ASSUME v.retry, v.reason \notin Unguarded
               PROVE  ~j.success /\ (j.retry \/ OwesToken(e, j))
    OBVIOUS
  <2>1. CASE k0 = g
    <3>1. g.retry /\ g = c /\ g.reason \notin Unguarded BY <2>1, <1>16, <1>3
    <3>2. c = j BY <3>1, <1>2 DEF Unguarded
    <3> QED BY <3>1, <3>2, <1>1 DEF WellFormed
  <2>2. CASE OwesToken(e, g)
    <3>1. c = j BY <2>2, <1>2, <1>3 DEF OwesToken
    <3>2. g = j BY <3>1, <1>3, <1>16
    <3> QED BY <3>2, <2>2 DEF OwesToken
  <2> QED BY <2>1, <2>2, <1>4
<1>18. v.retry /\ v.reason \notin Unguarded => Recorded(e) = {TRUE}
  BY <1>13, <1>17
<1>19. Nudgeable(v) => ~j.success
  BY <1>17 DEF Nudgeable, Unguarded
<1> QED
  BY <1>11, <1>14, <1>15, <1>16, <1>18, <1>19 DEF j, v

----------------------------------------------------------------------------
(* The audit log and the budget.                                            *)

Record == [key : Keys \union {NoKey}, retry : BOOLEAN]
InStreak(log, key, i) == log[i].key = key /\ \A j \in i..Len(log) : log[j].key = key => log[j].retry

LEMMA StreakIsNatural ==
  ASSUME NEW log \in Seq(Record), NEW key
  PROVE  Streak(log, key) \in Nat
<1>1. IsFiniteSet(1..Len(log)) BY FS_Interval
<1>2. {i \in DOMAIN log : InStreak(log, key, i)} \subseteq 1..Len(log) OBVIOUS
<1>3. IsFiniteSet({i \in DOMAIN log : InStreak(log, key, i)}) BY <1>1, <1>2, FS_Subset
<1> QED BY <1>3, FS_CardinalityType DEF Streak, InStreak

\* A record of another command leaves a streak, a retriable one lengthens it, and
\* one that is not ends it.
LEMMA StreakGrows ==
  ASSUME NEW log \in Seq(Record), NEW x \in Record, NEW key
  PROVE  LET log2 == log \o <<x>>
         IN  /\ log2 \in Seq(Record)
             /\ x.key # key => Streak(log2, key) = Streak(log, key)
             /\ x.key = key /\ x.retry => Streak(log2, key) = Streak(log, key) + 1
<1> DEFINE log2 == log \o <<x>>
           n == Len(log)
           A == {i \in DOMAIN log : InStreak(log, key, i)}
           B == {i \in DOMAIN log2 : InStreak(log2, key, i)}
<1>1. /\ log2 \in Seq(Record) /\ Len(log2) = n + 1 /\ n \in Nat
      /\ DOMAIN log = 1..n /\ DOMAIN log2 = 1..(n + 1)
      /\ \A i \in 1..n : log2[i] = log[i]
      /\ log2[n + 1] = x
  OBVIOUS
<1>2. Streak(log, key) = Cardinality(A) /\ Streak(log2, key) = Cardinality(B)
  BY DEF Streak, InStreak
<1>3. IsFiniteSet(A)
  <2>1. IsFiniteSet(1..n) BY <1>1, FS_Interval
  <2>2. A \subseteq 1..n BY <1>1
  <2> QED BY <2>1, <2>2, FS_Subset
<1>4. ASSUME x.key = key => x.retry, NEW i \in 1..n PROVE InStreak(log2, key, i) <=> InStreak(log, key, i)
  <2>1. \A j \in i..(n + 1) : j \in i..n \/ j = n + 1 BY <1>1
  <2>2. \A j \in i..n : j \in 1..n /\ j \in i..(n + 1) BY <1>1
  <2> HIDE DEF log2, n
  <2> QED BY <1>1, <1>4, <2>1, <2>2 DEF InStreak
<1>5. InStreak(log2, key, n + 1) <=> x.key = key /\ x.retry
  <2>1. \A j \in (n + 1)..(n + 1) : j = n + 1 BY <1>1
  <2>2. n + 1 \in (n + 1)..(n + 1) BY <1>1
  <2> HIDE DEF log2, n
  <2> QED BY <1>1, <2>1, <2>2 DEF InStreak
<1> HIDE DEF log2, n
<1>6. ASSUME x.key # key PROVE Streak(log2, key) = Streak(log, key)
  <2>1. B = A BY <1>1, <1>4, <1>5, <1>6
  <2> QED BY <2>1, <1>2
<1>7. ASSUME x.key = key, x.retry PROVE Streak(log2, key) = Streak(log, key) + 1
  <2>1. B = A \union {n + 1} /\ n + 1 \notin A
    <3>1. n + 1 \notin 1..n /\ 1..(n + 1) = (1..n) \union {n + 1} BY <1>1
    <3> QED BY <1>1, <1>4, <1>5, <1>7, <3>1
  <2> HIDE DEF A, B
  <2> QED BY <2>1, <1>2, <1>3, FS_AddElement
<1> QED BY <1>1, <1>6, <1>7 DEF log2

Least(m, n) == IF m < n THEN m ELSE n

\* A command whose failures are filed under the key they are looked up by.
Filed(k) == \A i \in Commands : Info[i].key = k => Info[i].lookup = k

\* The calls of a command that are about to answer with a guarded retry.
Owing(k) ==
  {c \in Calls : /\ hpc[c] \in {"nudge", "guard", "reply"}
                 /\ sr[c].retry /\ sr[c].reason \notin Unguarded
                 /\ InfoOf(c).key = k}

BudgetAt(k) ==
  Filed(k) => granted[k] + Cardinality(Owing(k))
                <= Least(Streak(audit, k), MaxRetries) + Cardinality(Calls)

\* What a call carries from its judgement to its answer.
Kept(e, v) ==
  /\ v.success /\ ~Stalled(e) /\ Judged(e).success =>
       /\ \/ PatternsHold(e.patterns, e.session.text \union e.session.msgs)
          \/ e.race.channel = "UNMONITORED" /\ e.patterns = "path" /\ e.session.tool
       /\ e.mustWrite => Wrote(e)
  /\ v.success /\ Judged(e).success =>
       e.race.channel = "CHANNEL_B"
         \/ /\ "marker" \in e.session.text \union e.session.msgs
            /\ "text" \in e.session.text \union e.session.msgs \/ e.session.tool
  /\ /\ e.race.channel \in {"CHANNEL_A", "CHANNEL_B"} /\ ~Stalled(e)
     /\ ~e.session.isError /\ e.race.termination # "TIMED_OUT"
     /\ "marker" \notin e.session.text \union e.session.msgs
     => Answered(v)
  /\ e.race.kill = "NATURAL_EXIT" /\ e.rc = "negative" => Answered(v)

Carried(c) ==
  /\ WellFormed(sr[c])
  /\ hpc[c] \in {"nudge", "guard"} => seen[c] \in Evidence /\ Kept(seen[c], sr[c])
  /\ hpc[c] = "nudge" => ~Judged(seen[c]).success

\* The variables that the type invariant does not say are functions are.
Shapes ==
  /\ audit \in Seq(Record)
  /\ cmd = [c \in Calls |-> cmd[c]]
  /\ seen = [c \in Calls |-> seen[c]]
  /\ sr = [c \in Calls |-> sr[c]]
  /\ hpc \in [Calls -> {"idle", "running", "nudge", "guard", "reply"}]
  /\ granted \in [Keys -> Nat]
  /\ workload \in DOMAIN Workloads
  /\ \A c \in Calls : hpc[c] # "idle" => cmd[c] \in Commands

HeadlessInv == Shapes /\ (\A c \in Calls : Carried(c)) /\ (\A k \in Keys : BudgetAt(k))

\* The judgement gives what a call carries, and so does a nudge.
LEMMA BuildKept ==
  ASSUME NEW e \in Evidence, NEW spent \in BOOLEAN
  PROVE  LET v == BuildSkillResult(e, spent)
         IN  WellFormed(v) /\ Kept(e, v) /\ (Nudgeable(v) => ~Judged(e).success)
<1> DEFINE v == BuildSkillResult(e, spent)
<1>1. e.race.kill = "NATURAL_EXIT" => ~Stalled(e)
  BY EvidenceTypes DEF RaceResults, Stalled
<1>2. CASE Stalled(e)
  <2>1. WellFormed(v) /\ ~Nudgeable(v) BY <1>2, StallFacts
  <2> HIDE DEF v
  <2> QED BY <2>1, <1>1, <1>2, JudgedSuccess DEF Kept, v
<1>3. CASE ~Stalled(e)
  <2>1. /\ WellFormed(v)
        /\ v.success => Judged(e).success /\ (e.mustWrite => Wrote(e))
        /\ Judged(e).success \/ Judged(e).retry => Answered(v)
        /\ Nudgeable(v) => ~Judged(e).success
    BY <1>3, GateFacts
  <2> HIDE DEF v
  <2>2. Kept(e, v)
    BY <2>1, JudgedSuccess, JudgedConfirmed, JudgedKilled DEF Kept
  <2> QED BY <2>1, <2>2 DEF v
<1> QED BY <1>2, <1>3

LEMMA NudgedKept ==
  ASSUME NEW e, ~Judged(e).success
  PROVE  LET v == Verdict(TRUE, "success", NoRetry)
         IN  WellFormed(v) /\ ~v.retry /\ Kept(e, v)
<1>1. LET v == Verdict(TRUE, "success", NoRetry) IN WellFormed(v) /\ v.success /\ ~v.retry
  BY SuccessMade
<1> QED BY <1>1 DEF Kept, Answered

\* The owing calls are some of the calls.
LEMMA OwingCounts ==
  ASSUME NEW k PROVE IsFiniteSet(Owing(k)) /\ Cardinality(Owing(k)) \in Nat
                     /\ Cardinality(Owing(k)) <= Cardinality(Calls) /\ Cardinality(Calls) \in Nat
<1>1. Owing(k) \subseteq Calls BY DEF Owing
<1> QED BY <1>1, HeadlessAssumption, FS_Subset, FS_CardinalityType

LEMMA OwingCountsNext ==
  ASSUME NEW k PROVE IsFiniteSet(Owing(k)') /\ Cardinality(Owing(k)') \in Nat
                     /\ Cardinality(Owing(k)') <= Cardinality(Calls) /\ Cardinality(Calls) \in Nat
<1>1. Owing(k)' \subseteq Calls BY DEF Owing
<1> QED BY <1>1, HeadlessAssumption, FS_Subset, FS_CardinalityType

\* No more is owed, no more was granted, and the streak is no shorter.
LEMMA BudgetKeeps ==
  ASSUME NEW k \in Keys, Shapes, Shapes', BudgetAt(k),
         Owing(k)' \subseteq Owing(k), granted'[k] = granted[k],
         Streak(audit', k) >= Streak(audit, k)
  PROVE  BudgetAt(k)'
<1>1. Cardinality(Owing(k)') <= Cardinality(Owing(k)) BY OwingCounts, FS_Subset
<1>2. granted[k] \in Nat /\ Streak(audit, k) \in Nat /\ Streak(audit', k) \in Nat /\ MaxRetries \in Nat
  BY StreakIsNatural, HeadlessAssumption DEF Shapes
<1>3. Least(Streak(audit, k), MaxRetries) <= Least(Streak(audit', k), MaxRetries)
      /\ Least(Streak(audit, k), MaxRetries) \in Nat /\ Least(Streak(audit', k), MaxRetries) \in Nat
  BY <1>2 DEF Least
<1> QED BY <1>1, <1>2, <1>3, OwingCounts, OwingCountsNext DEF BudgetAt, Filed

\* The streak is broken, and with it the count of what was granted.
LEMMA BudgetStarts ==
  ASSUME NEW k \in Keys, Shapes', granted'[k] = 0
  PROVE  BudgetAt(k)'
<1>1. Streak(audit', k) \in Nat BY StreakIsNatural DEF Shapes
<1>2. Least(Streak(audit', k), MaxRetries) \in Nat BY <1>1, HeadlessAssumption DEF Least
<1> QED BY <1>2, OwingCountsNext DEF BudgetAt, Filed

\* The audit keys of a call under way.
LEMMA CommandTypes ==
  ASSUME NEW c \in Calls, Shapes, hpc[c] # "idle"
  PROVE  /\ cmd[c] \in Commands /\ Info[cmd[c]] = InfoOf(c)
         /\ InfoOf(c).key \in Keys \union {NoKey}
         /\ InfoOf(c).lookup \in Keys /\ InfoOf(c).sentinel \in Keys
  BY HeadlessAssumption DEF Shapes, CommandInfo, InfoOf

\* The invariant holds at the start and is kept by every step of a call.
LEMMA HeadlessInitInv == HeadlessInit => HeadlessInv
<1> SUFFICES ASSUME HeadlessInit PROVE HeadlessInv OBVIOUS
<1>1. Shapes BY DEF HeadlessInit, Shapes, Record
<1>2. ASSUME NEW c \in Calls PROVE Carried(c)
  <2>1. hpc[c] = "idle" /\ sr[c] = Pending BY DEF HeadlessInit
  <2>2. WellFormed(Pending) BY DEF Pending, WellFormed, Verdict, NoRetry
  <2> QED BY <2>1, <2>2 DEF Carried
<1>3. ASSUME NEW k \in Keys PROVE BudgetAt(k)
  <2>1. granted[k] = 0 BY DEF HeadlessInit
  <2>2. Least(Streak(audit, k), MaxRetries) \in Nat
    BY StreakIsNatural, <1>1, HeadlessAssumption DEF Least, Shapes
  <2> QED BY <2>1, <2>2, OwingCounts DEF BudgetAt
<1> QED BY <1>1, <1>2, <1>3 DEF HeadlessInv

LEMMA ClearReportKeeps == HeadlessInv /\ ClearReport => HeadlessInv'
<1> SUFFICES ASSUME HeadlessInv, ClearReport PROVE HeadlessInv' OBVIOUS
<1>1. Shapes' BY DEF HeadlessInv, Shapes, ClearReport
<1>2. ASSUME NEW c \in Calls PROVE Carried(c)'
  BY DEF HeadlessInv, Carried, ClearReport
<1>3. ASSUME NEW k \in Keys PROVE BudgetAt(k)'
  BY <1>1, BudgetStarts DEF ClearReport
<1> QED BY <1>1, <1>2, <1>3 DEF HeadlessInv

LEMMA BeginKeeps ==
  ASSUME NEW c \in Calls, HeadlessInv, Begin(c)
  PROVE  HeadlessInv'
<1>1. PICK k \in W.commands : cmd' = [cmd EXCEPT ![c] = k] BY DEF Begin
<1>2. k \in Commands BY HeadlessAssumption DEF W, Workload, HeadlessInv, Shapes
<1>3. Shapes' BY <1>1, <1>2 DEF HeadlessInv, Shapes, Begin, Step
<1>4. /\ hpc[c] = "idle" /\ hpc'[c] = "running" /\ \A d \in Calls \ {c} : hpc'[d] = hpc[d] /\ cmd'[d] = cmd[d]
      /\ sr' = sr /\ seen' = seen /\ audit' = audit /\ granted' = granted
  BY <1>1 DEF Begin, Step, HeadlessInv, Shapes
<1>5. ASSUME NEW d \in Calls PROVE Carried(d)'
  BY <1>4 DEF HeadlessInv, Carried
<1>6. ASSUME NEW j \in Keys PROVE BudgetAt(j)'
  <2>1. Owing(j)' \subseteq Owing(j) BY <1>4 DEF Owing, InfoOf
  <2>2. Streak(audit', j) >= Streak(audit, j) BY <1>4, StreakIsNatural DEF HeadlessInv, Shapes
  <2> QED BY <1>3, <1>4, <2>1, <2>2, BudgetKeeps DEF HeadlessInv
<1> QED BY <1>3, <1>5, <1>6 DEF HeadlessInv

LEMMA RunnerFailsKeeps ==
  ASSUME NEW c \in Calls, HeadlessInv, RunnerFails(c)
  PROVE  HeadlessInv'
<1>3. Shapes' BY DEF HeadlessInv, Shapes, RunnerFails, Step
<1>4. /\ hpc[c] = "running" /\ hpc'[c] = "idle" /\ \A d \in Calls \ {c} : hpc'[d] = hpc[d] /\ cmd'[d] = cmd[d]
      /\ sr' = sr /\ seen' = seen /\ audit' = audit /\ granted' = granted
  BY DEF RunnerFails, Step, HeadlessInv, Shapes
<1>5. ASSUME NEW d \in Calls PROVE Carried(d)'
  BY <1>4 DEF HeadlessInv, Carried
<1>6. ASSUME NEW j \in Keys PROVE BudgetAt(j)'
  <2>1. Owing(j)' \subseteq Owing(j) BY <1>4 DEF Owing, InfoOf
  <2>2. Streak(audit', j) >= Streak(audit, j) BY <1>4, StreakIsNatural DEF HeadlessInv, Shapes
  <2> QED BY <1>3, <1>4, <2>1, <2>2, BudgetKeeps DEF HeadlessInv
<1> QED BY <1>3, <1>5, <1>6 DEF HeadlessInv

\* The judgement: a record, and what may be owed for it.
LEMMA JudgeKeeps ==
  ASSUME NEW c \in Calls, HeadlessInv, Judge(c)
  PROVE  HeadlessInv'
<1> DEFINE key == InfoOf(c).key
<1>1. hpc[c] = "running" BY DEF Judge
<1>2. Shapes BY DEF HeadlessInv
<1>3. /\ cmd[c] \in Commands /\ Info[cmd[c]] = InfoOf(c) /\ key \in Keys \union {NoKey}
      /\ InfoOf(c).lookup \in Keys
  BY <1>1, <1>2, CommandTypes
<1>4. PICK e \in EvidenceOf[cmd[c]] :
        LET log == IF Recorded(e) = {} THEN audit ELSE audit \o Entry(key, TRUE \in Recorded(e))
            verdict == BuildSkillResult(e, Spent(log, InfoOf(c)))
        IN  /\ Step(c, "running", IF Nudgeable(verdict) THEN "nudge" ELSE "guard")
            /\ seen' = [seen EXCEPT ![c] = e]
            /\ audit' = log
            /\ sr' = [sr EXCEPT ![c] = verdict]
            /\ granted' = (IF Recorded(e) = {FALSE} THEN Broken(key, FALSE, granted) ELSE granted)
            /\ UNCHANGED <<workload, cmd>>
  BY DEF Judge
<1>5. e \in Evidence BY <1>3, HeadlessAssumption
<1>6. PICK spent \in BOOLEAN : spent = Spent(audit', InfoOf(c))
  BY DEF Spent
<1> DEFINE v == BuildSkillResult(e, spent)
<1>7. /\ hpc' = [hpc EXCEPT ![c] = IF Nudgeable(v) THEN "nudge" ELSE "guard"]
      /\ seen' = [seen EXCEPT ![c] = e] /\ sr' = [sr EXCEPT ![c] = v]
      /\ audit' = IF Recorded(e) = {} THEN audit ELSE audit \o Entry(key, TRUE \in Recorded(e))
      /\ granted' = (IF Recorded(e) = {FALSE} THEN Broken(key, FALSE, granted) ELSE granted)
      /\ workload' = workload /\ cmd' = cmd
  BY <1>4, <1>6 DEF Step
<1>8. WellFormed(v) /\ Kept(e, v) /\ (Nudgeable(v) => ~Judged(e).success)
  BY <1>5, BuildKept
<1>9. v.retry /\ v.reason \notin Unguarded => ~spent /\ Recorded(e) = {TRUE}
  BY <1>5, StallFacts, GateFacts
<1> HIDE DEF v
<1>10. Recorded(e) \in {{}, {TRUE}, {FALSE}} BY <1>5, RecordedShape
<1>11. /\ Recorded(e) = {} \/ key = NoKey => audit' = audit
       /\ Recorded(e) = {TRUE} /\ key # NoKey => audit' = audit \o <<[key |-> key, retry |-> TRUE]>>
       /\ Recorded(e) = {FALSE} /\ key # NoKey => audit' = audit \o <<[key |-> key, retry |-> FALSE]>>
  <2>1. CASE Recorded(e) = {} BY <2>1, <1>7
  <2>2. CASE Recorded(e) = {TRUE}
    <3>1. (TRUE \in Recorded(e)) = TRUE BY <2>2
    <3>2. audit' = audit \o Entry(key, TRUE) BY <2>2, <3>1, <1>7
    <3>3. audit \in Seq(Record) BY <1>2 DEF Shapes
    <3>4. audit \o <<>> = audit BY <3>3
    <3>5. /\ key = NoKey => audit' = audit
          /\ key # NoKey => audit' = audit \o <<[key |-> key, retry |-> TRUE]>>
      BY <3>2, <3>4 DEF Entry
    <3>6. {TRUE} # {} /\ {TRUE} # {FALSE} BY Zenon
    <3> QED BY <3>5, <3>6, <2>2
  <2>3. CASE Recorded(e) = {FALSE}
    <3>1. (TRUE \in Recorded(e)) = FALSE BY <2>3
    <3>2. audit' = audit \o Entry(key, FALSE) BY <2>3, <3>1, <1>7
    <3>3. audit \in Seq(Record) BY <1>2 DEF Shapes
    <3>4. audit \o <<>> = audit BY <3>3
    <3>5. /\ key = NoKey => audit' = audit
          /\ key # NoKey => audit' = audit \o <<[key |-> key, retry |-> FALSE]>>
      BY <3>2, <3>4 DEF Entry
    <3>6. {FALSE} # {} /\ {FALSE} # {TRUE} BY Zenon
    <3> QED BY <3>5, <3>6, <2>3
  <2> QED BY <2>1, <2>2, <2>3, <1>10
<1>12. /\ Recorded(e) = {FALSE} /\ key # NoKey => granted' = [granted EXCEPT ![key] = 0]
       /\ ~(Recorded(e) = {FALSE} /\ key # NoKey) => granted' = granted
  BY <1>7 DEF Broken
<1>13. [key |-> key, retry |-> TRUE] \in Record /\ [key |-> key, retry |-> FALSE] \in Record
  BY <1>3 DEF Record
<1>14. Shapes'
  <2>1. audit' \in Seq(Record) BY <1>2, <1>10, <1>11, <1>13, StreakGrows DEF Shapes
  <2>2. granted' \in [Keys -> Nat]
    <3>1. granted \in [Keys -> Nat] BY <1>2 DEF Shapes
    <3>2. [granted EXCEPT ![key] = 0] \in [Keys -> Nat] BY <3>1
    <3> QED BY <3>1, <3>2, <1>12
  <2> QED BY <2>1, <2>2, <1>1, <1>2, <1>7 DEF Shapes
<1>15. /\ hpc'[c] \in {"nudge", "guard"} /\ (hpc'[c] = "nudge" => Nudgeable(v)) /\ seen'[c] = e /\ sr'[c] = v
       /\ \A d \in Calls \ {c} : hpc'[d] = hpc[d] /\ seen'[d] = seen[d] /\ sr'[d] = sr[d]
  BY <1>2, <1>7 DEF Shapes
<1>16. ASSUME NEW d \in Calls PROVE Carried(d)'
  <2>1. CASE d = c BY <2>1, <1>5, <1>8, <1>15 DEF Carried
  <2>2. CASE d # c BY <2>2, <1>15 DEF Carried, HeadlessInv
  <2> QED BY <2>1, <2>2
<1>17. ASSUME NEW k \in Keys PROVE BudgetAt(k)'
  <2>1. BudgetAt(k) /\ Streak(audit, k) \in Nat /\ Streak(audit', k) \in Nat /\ granted[k] \in Nat
    BY <1>2, <1>14, StreakIsNatural DEF HeadlessInv, Shapes
  <2>2. Owing(k)' \subseteq Owing(k) \union {c}
    BY <1>7, <1>15 DEF Owing, InfoOf
  <2>3. c \in Owing(k)' => /\ key = k /\ ~spent /\ Recorded(e) = {TRUE}
    BY <1>7, <1>9, <1>15 DEF Owing, InfoOf
  <2>4. c \notin Owing(k) BY <1>1 DEF Owing
  <2>5. k # NoKey BY HeadlessAssumption
  <2>6. CASE key = k /\ Recorded(e) = {FALSE}
    <3>1. granted'[k] = 0 BY <2>5, <2>6, <1>2, <1>12 DEF Shapes
    <3> QED BY <3>1, <1>14, BudgetStarts
  <2>7. CASE ~(key = k /\ Recorded(e) # {})
    <3>1. c \notin Owing(k)' BY <2>3, <2>7
    <3>2. granted'[k] = granted[k] BY <2>7, <1>2, <1>12 DEF Shapes
    <3>3. Streak(audit', k) = Streak(audit, k)
      <4>1. CASE Recorded(e) = {} \/ key = NoKey BY <4>1, <1>11
      <4>2. CASE Recorded(e) # {} /\ key # NoKey
        <5>1. PICK x \in Record : x.key = key /\ audit' = audit \o <<x>>
          BY <4>2, <1>10, <1>11, <1>13
        <5>2. x.key # k BY <5>1, <4>2, <2>7
        <5> QED BY <5>1, <5>2, <1>2, StreakGrows DEF Shapes
      <4> QED BY <4>1, <4>2
    <3> QED BY <2>1, <2>2, <3>1, <3>2, <3>3, <1>2, <1>14, BudgetKeeps
  <2>8. CASE key = k /\ Recorded(e) = {TRUE}
    <3>1. audit' = audit \o <<[key |-> key, retry |-> TRUE]>> /\ granted' = granted
      BY <2>5, <2>8, <1>11, <1>12
    <3>2. Streak(audit', k) = Streak(audit, k) + 1
      BY <3>1, <2>8, <1>2, <1>13, StreakGrows DEF Shapes
    <3>3. CASE c \notin Owing(k)'
      <4>1. Owing(k)' \subseteq Owing(k) BY <2>2, <3>3
      <4>2. Streak(audit', k) >= Streak(audit, k) BY <3>2, <2>1
      <4>3. granted'[k] = granted[k] BY <3>1
      <4> QED BY <4>1, <4>2, <4>3, <2>1, <1>2, <1>14, BudgetKeeps
    <3>4. CASE c \in Owing(k)'
      <4> SUFFICES ASSUME Filed(k)
                   PROVE  granted'[k] + Cardinality(Owing(k)') <= Least(Streak(audit', k), MaxRetries) + Cardinality(Calls)
        BY DEF BudgetAt, Filed
      <4>1. InfoOf(c).lookup = k BY <1>3, <2>8 DEF Filed
      <4>2. ~(Streak(audit', k) > MaxRetries)
        BY <4>1, <3>4, <2>3, <2>5, <2>8, <1>6 DEF Spent
      <4>3. Cardinality(Owing(k)') <= Cardinality(Owing(k)) + 1
        <5>1. IsFiniteSet(Owing(k) \union {c}) /\ Cardinality(Owing(k) \union {c}) = Cardinality(Owing(k)) + 1
          BY <2>4, OwingCounts, FS_AddElement
        <5> QED BY <5>1, <2>2, FS_Subset
      <4>4. granted[k] + Cardinality(Owing(k)) <= Least(Streak(audit, k), MaxRetries) + Cardinality(Calls)
        BY <2>1 DEF BudgetAt
      <4>5. /\ Least(Streak(audit', k), MaxRetries) = Streak(audit, k) + 1
            /\ Least(Streak(audit, k), MaxRetries) = Streak(audit, k)
        BY <4>2, <3>2, <2>1, HeadlessAssumption DEF Least
      <4> QED BY <3>1, <4>3, <4>4, <4>5, <2>1, OwingCounts, OwingCountsNext
    <3> QED BY <3>3, <3>4
  <2> QED BY <2>6, <2>7, <2>8, <1>10
<1> QED BY <1>14, <1>16, <1>17 DEF HeadlessInv

LEMMA NudgeKeeps ==
  ASSUME NEW c \in Calls, HeadlessInv, Nudge(c)
  PROVE  HeadlessInv'
<1> DEFINE n == Verdict(TRUE, "success", NoRetry)
<1>1. Shapes /\ hpc[c] = "nudge" /\ Carried(c) BY DEF HeadlessInv, Nudge, Step
<1>2. /\ hpc' = [hpc EXCEPT ![c] = "guard"]
      /\ audit' = audit /\ cmd' = cmd /\ seen' = seen /\ granted' = granted /\ workload' = workload
      /\ sr' = [sr EXCEPT ![c] = sr[c]] \/ sr' = [sr EXCEPT ![c] = n]
  BY DEF Nudge, Step
<1>3. Shapes' BY <1>1, <1>2 DEF Shapes
<1>4. /\ hpc'[c] = "guard" /\ sr'[c] \in {sr[c], n}
      /\ \A d \in Calls \ {c} : hpc'[d] = hpc[d] /\ sr'[d] = sr[d]
  BY <1>1, <1>2 DEF Shapes
<1>5. WellFormed(n) /\ ~n.retry /\ Kept(seen[c], n)
  BY <1>1, NudgedKept DEF Carried
<1> HIDE DEF n
<1>6. ASSUME NEW d \in Calls PROVE Carried(d)'
  <2>1. CASE d = c BY <2>1, <1>1, <1>2, <1>4, <1>5 DEF Carried
  <2>2. CASE d # c BY <2>2, <1>2, <1>4 DEF Carried, HeadlessInv
  <2> QED BY <2>1, <2>2
<1>7. ASSUME NEW k \in Keys PROVE BudgetAt(k)'
  <2>1. Owing(k)' \subseteq Owing(k) BY <1>1, <1>2, <1>4, <1>5 DEF Owing, InfoOf
  <2>2. Streak(audit', k) >= Streak(audit, k) BY <1>1, <1>2, StreakIsNatural DEF Shapes
  <2> QED BY <1>1, <1>2, <1>3, <2>1, <2>2, BudgetKeeps DEF HeadlessInv
<1> QED BY <1>3, <1>6, <1>7 DEF HeadlessInv

LEMMA CloneCleanKeeps ==
  ASSUME NEW c \in Calls, HeadlessInv, CloneClean(c)
  PROVE  HeadlessInv'
<1>1. Shapes /\ hpc[c] = "guard" BY DEF HeadlessInv, CloneClean, Leave, Step
<1>2. /\ hpc' = [hpc EXCEPT ![c] = "reply"] /\ seen' = [seen EXCEPT ![c] = Unseen]
      /\ audit' = audit /\ cmd' = cmd /\ sr' = sr /\ granted' = granted /\ workload' = workload
  BY DEF CloneClean, Leave, Step
<1>3. Shapes' BY <1>1, <1>2 DEF Shapes
<1>4. /\ hpc'[c] = "reply"
      /\ \A d \in Calls \ {c} : hpc'[d] = hpc[d] /\ seen'[d] = seen[d]
  BY <1>1, <1>2 DEF Shapes
<1>5. ASSUME NEW d \in Calls PROVE Carried(d)'
  <2>1. CASE d = c BY <2>1, <1>2, <1>4 DEF Carried, HeadlessInv
  <2>2. CASE d # c BY <2>2, <1>2, <1>4 DEF Carried, HeadlessInv
  <2> QED BY <2>1, <2>2
<1>6. ASSUME NEW k \in Keys PROVE BudgetAt(k)'
  <2>1. Owing(k)' \subseteq Owing(k) BY <1>1, <1>2, <1>4 DEF Owing, InfoOf
  <2>2. Streak(audit', k) >= Streak(audit, k) BY <1>1, <1>2, StreakIsNatural DEF Shapes
  <2> QED BY <1>1, <1>2, <1>3, <2>1, <2>2, BudgetKeeps DEF HeadlessInv
<1> QED BY <1>3, <1>5, <1>6 DEF HeadlessInv

LEMMA CloneRevertedKeeps ==
  ASSUME NEW c \in Calls, HeadlessInv, CloneReverted(c)
  PROVE  HeadlessInv'
<1> DEFINE key == InfoOf(c).key
           x == [key |-> key, retry |-> sr[c].retry]
<1>1. Shapes /\ hpc[c] = "guard" /\ WellFormed(sr[c])
  BY DEF HeadlessInv, CloneReverted, Leave, Step, Carried
<1>2. /\ hpc' = [hpc EXCEPT ![c] = "reply"] /\ seen' = [seen EXCEPT ![c] = Unseen]
      /\ audit' = audit \o <<x>> /\ cmd' = cmd /\ sr' = sr /\ workload' = workload
      /\ granted' = Broken(key, sr[c].retry, granted)
  BY DEF CloneReverted, Leave, Step
<1>3. x \in Record /\ x.key = key /\ x.retry = sr[c].retry /\ sr[c].retry \in BOOLEAN
  BY <1>1, CommandTypes DEF Record, WellFormed
<1> HIDE DEF x
<1>4. /\ key # NoKey /\ ~sr[c].retry => granted' = [granted EXCEPT ![key] = 0]
      /\ ~(key # NoKey /\ ~sr[c].retry) => granted' = granted
  BY <1>2 DEF Broken
<1>5. Shapes'
  <2>1. granted \in [Keys -> Nat] BY <1>1 DEF Shapes
  <2>2. [granted EXCEPT ![key] = 0] \in [Keys -> Nat] BY <2>1
  <2>3. granted' \in [Keys -> Nat] BY <2>1, <2>2, <1>4
  <2>4. audit' \in Seq(Record) BY <1>1, <1>2, <1>3, StreakGrows DEF Shapes
  <2> QED BY <2>3, <2>4, <1>1, <1>2 DEF Shapes
<1>6. /\ hpc'[c] = "reply"
      /\ \A d \in Calls \ {c} : hpc'[d] = hpc[d] /\ seen'[d] = seen[d]
  BY <1>1, <1>2 DEF Shapes
<1>7. ASSUME NEW d \in Calls PROVE Carried(d)'
  <2>1. CASE d = c BY <2>1, <1>2, <1>6 DEF Carried, HeadlessInv
  <2>2. CASE d # c BY <2>2, <1>2, <1>6 DEF Carried, HeadlessInv
  <2> QED BY <2>1, <2>2
<1>8. ASSUME NEW k \in Keys PROVE BudgetAt(k)'
  <2>1. Owing(k)' \subseteq Owing(k) BY <1>1, <1>2, <1>6 DEF Owing, InfoOf
  <2>2. k # NoKey BY HeadlessAssumption
  <2>3. CASE key = k /\ ~sr[c].retry
    <3>1. granted'[k] = 0 BY <2>2, <2>3, <1>1, <1>4 DEF Shapes
    <3> QED BY <3>1, <1>5, BudgetStarts
  <2>4. CASE ~(key = k /\ ~sr[c].retry)
    <3>1. granted'[k] = granted[k] BY <2>4, <1>1, <1>4 DEF Shapes
    <3>2. Streak(audit', k) >= Streak(audit, k)
      <4>1. Streak(audit, k) \in Nat BY <1>1, StreakIsNatural DEF Shapes
      <4>2. Streak(audit', k) = Streak(audit, k) \/ Streak(audit', k) = Streak(audit, k) + 1
        BY <1>1, <1>2, <1>3, <2>4, StreakGrows DEF Shapes
      <4> QED BY <4>1, <4>2
    <3> QED BY <3>1, <3>2, <2>1, <1>1, <1>5, BudgetKeeps DEF HeadlessInv
  <2> QED BY <2>3, <2>4
<1> QED BY <1>5, <1>7, <1>8 DEF HeadlessInv

LEMMA PendingWellFormed == WellFormed(Pending)
  BY DEF Pending, WellFormed, Verdict, NoRetry

LEMMA ReplySuccessKeeps ==
  ASSUME NEW c \in Calls, HeadlessInv, ReplySuccess(c)
  PROVE  HeadlessInv'
<1> DEFINE key == IF InfoOf(c).key = NoKey THEN NoKey ELSE InfoOf(c).sentinel
           x == [key |-> key, retry |-> FALSE]
<1>1. Shapes /\ hpc[c] = "reply"
  BY DEF HeadlessInv, ReplySuccess, Step
<1>2. /\ hpc' = [hpc EXCEPT ![c] = "idle"] /\ seen' = seen
      /\ audit' = audit \o Entry(key, FALSE) /\ workload' = workload
      /\ cmd' = [cmd EXCEPT ![c] = Nothing] /\ sr' = [sr EXCEPT ![c] = Pending]
      /\ granted' = Broken(key, FALSE, granted)
  BY DEF ReplySuccess, Step
<1>3. key \in Keys \union {NoKey} /\ x \in Record /\ x.key = key /\ ~x.retry
  BY <1>1, CommandTypes DEF Record
<1>4. /\ key = NoKey => audit' = audit /\ granted' = granted
      /\ key # NoKey => audit' = audit \o <<x>> /\ granted' = [granted EXCEPT ![key] = 0]
  BY <1>1, <1>2 DEF Broken, Entry, Shapes
<1> HIDE DEF key, x
<1>5. Shapes'
  <2>1. granted \in [Keys -> Nat] BY <1>1 DEF Shapes
  <2>2. [granted EXCEPT ![key] = 0] \in [Keys -> Nat] BY <2>1
  <2>3. granted' \in [Keys -> Nat] BY <2>1, <2>2, <1>4
  <2>4. audit' \in Seq(Record)
    <3>1. audit \in Seq(Record) BY <1>1 DEF Shapes
    <3>2. audit \o <<x>> \in Seq(Record) BY <3>1, <1>3, StreakGrows
    <3> QED BY <3>1, <3>2, <1>4
  <2> QED BY <2>3, <2>4, <1>1, <1>2 DEF Shapes
<1>6. /\ hpc'[c] = "idle" /\ sr'[c] = Pending
      /\ \A d \in Calls \ {c} : hpc'[d] = hpc[d] /\ sr'[d] = sr[d] /\ cmd'[d] = cmd[d]
  BY <1>1, <1>2 DEF Shapes
<1>7. ASSUME NEW d \in Calls PROVE Carried(d)'
  <2>1. CASE d = c BY <2>1, <1>6, PendingWellFormed DEF Carried
  <2>2. CASE d # c BY <2>2, <1>2, <1>6 DEF Carried, HeadlessInv
  <2> QED BY <2>1, <2>2
<1>8. ASSUME NEW k \in Keys PROVE BudgetAt(k)'
  <2>1. Owing(k)' \subseteq Owing(k) BY <1>1, <1>2, <1>6 DEF Owing, InfoOf
  <2>2. k # NoKey BY HeadlessAssumption
  <2>3. CASE key = k
    <3>1. granted'[k] = 0 BY <2>2, <2>3, <1>1, <1>4 DEF Shapes
    <3> QED BY <3>1, <1>5, BudgetStarts
  <2>4. CASE key # k
    <3>1. granted'[k] = granted[k] BY <2>4, <1>1, <1>4 DEF Shapes
    <3>2. Streak(audit', k) >= Streak(audit, k)
      <4>1. Streak(audit, k) \in Nat BY <1>1, StreakIsNatural DEF Shapes
      <4>2. Streak(audit', k) = Streak(audit, k)
        <5>1. audit \in Seq(Record) BY <1>1 DEF Shapes
        <5>2. Streak(audit \o <<x>>, k) = Streak(audit, k) BY <5>1, <1>3, <2>4, StreakGrows
        <5> QED BY <5>2, <1>4
      <4> QED BY <4>1, <4>2
    <3> QED BY <3>1, <3>2, <2>1, <1>1, <1>5, BudgetKeeps DEF HeadlessInv
  <2> QED BY <2>3, <2>4
<1> QED BY <1>5, <1>7, <1>8 DEF HeadlessInv

LEMMA ReplyFailureKeeps ==
  ASSUME NEW c \in Calls, HeadlessInv, ReplyFailure(c)
  PROVE  HeadlessInv'
<1> DEFINE key == InfoOf(c).key
           guarded == sr[c].retry /\ sr[c].reason \notin Unguarded /\ key # NoKey
<1>1. Shapes /\ hpc[c] = "reply"
  BY DEF HeadlessInv, ReplyFailure, Step
<1>2. /\ hpc' = [hpc EXCEPT ![c] = "idle"] /\ seen' = seen /\ audit' = audit /\ workload' = workload
      /\ cmd' = [cmd EXCEPT ![c] = Nothing] /\ sr' = [sr EXCEPT ![c] = Pending]
      /\ granted' = IF guarded THEN [granted EXCEPT ![key] = @ + 1] ELSE granted
  BY DEF ReplyFailure, Step
<1>3. key \in Keys \union {NoKey} BY <1>1, CommandTypes
<1>4. granted \in [Keys -> Nat] BY <1>1 DEF Shapes
<1>5. /\ guarded => key \in Keys /\ granted'[key] = granted[key] + 1
      /\ \A k \in Keys : ~(guarded /\ k = key) => granted'[k] = granted[k]
      /\ granted' \in [Keys -> Nat]
  BY <1>2, <1>3, <1>4
<1>6. Shapes' BY <1>1, <1>2, <1>5 DEF Shapes
<1>7. /\ hpc'[c] = "idle" /\ sr'[c] = Pending
      /\ \A d \in Calls \ {c} : hpc'[d] = hpc[d] /\ sr'[d] = sr[d] /\ cmd'[d] = cmd[d]
  BY <1>1, <1>2 DEF Shapes
<1>8. ASSUME NEW d \in Calls PROVE Carried(d)'
  <2>1. CASE d = c BY <2>1, <1>7, PendingWellFormed DEF Carried
  <2>2. CASE d # c BY <2>2, <1>2, <1>7 DEF Carried, HeadlessInv
  <2> QED BY <2>1, <2>2
<1>9. ASSUME NEW k \in Keys PROVE BudgetAt(k)'
  <2>1. Owing(k)' \subseteq Owing(k) \ {c} BY <1>1, <1>2, <1>7 DEF Owing, InfoOf
  <2>2. CASE guarded /\ k = key
    <3>1. c \in Owing(k) BY <2>2, <1>1 DEF Owing
    <3>2. /\ IsFiniteSet(Owing(k) \ {c})
          /\ Cardinality(Owing(k) \ {c}) = Cardinality(Owing(k)) - 1
      BY <3>1, OwingCounts, FS_RemoveElement
    <3>3. Cardinality(Owing(k)') <= Cardinality(Owing(k)) - 1
      BY <2>1, <3>2, FS_Subset
    <3>4. granted'[k] = granted[k] + 1 /\ granted[k] \in Nat BY <2>2, <1>4, <1>5
    <3>5. BudgetAt(k) BY DEF HeadlessInv
    <3>6. Least(Streak(audit, k), MaxRetries) \in Nat
      BY <1>1, StreakIsNatural, HeadlessAssumption DEF Least, Shapes
    <3> QED BY <1>2, <3>3, <3>4, <3>5, <3>6, OwingCounts, OwingCountsNext DEF BudgetAt, Filed
  <2>3. CASE ~(guarded /\ k = key)
    <3>1. granted'[k] = granted[k] BY <2>3, <1>5
    <3>2. Streak(audit', k) >= Streak(audit, k) BY <1>1, <1>2, StreakIsNatural DEF Shapes
    <3> QED BY <3>1, <3>2, <2>1, <1>1, <1>6, BudgetKeeps DEF HeadlessInv
  <2> QED BY <2>2, <2>3
<1> QED BY <1>6, <1>8, <1>9 DEF HeadlessInv

LEMMA HeadlessStepKeeps == HeadlessInv /\ [HeadlessNext]_headVars => HeadlessInv'
<1> SUFFICES ASSUME HeadlessInv, [HeadlessNext]_headVars PROVE HeadlessInv' OBVIOUS
<1>1. CASE ClearReport BY <1>1, ClearReportKeeps
<1>2. ASSUME NEW c \in Calls, Handle(c) PROVE HeadlessInv'
  BY <1>2, BeginKeeps, RunnerFailsKeeps, JudgeKeeps, NudgeKeeps, CloneCleanKeeps,
     CloneRevertedKeeps, ReplySuccessKeeps, ReplyFailureKeeps DEF Handle
<1>3. CASE UNCHANGED headVars
  <2>1. Shapes' BY <1>3 DEF headVars, HeadlessInv, Shapes
  <2>2. ASSUME NEW c \in Calls PROVE Carried(c)' BY <1>3 DEF headVars, HeadlessInv, Carried
  <2>3. ASSUME NEW k \in Keys PROVE BudgetAt(k)'
    <3>1. Owing(k)' = Owing(k) /\ audit' = audit /\ granted' = granted
      BY <1>3 DEF headVars, Owing, InfoOf
    <3>2. BudgetAt(k) BY DEF HeadlessInv
    <3> QED BY <3>1, <3>2 DEF BudgetAt, Filed
  <2> QED BY <2>1, <2>2, <2>3 DEF HeadlessInv
<1> QED BY <1>1, <1>2, <1>3 DEF HeadlessNext

\* Calls that interleave keep the invariant.
LEMMA HeadlessInductive == HeadlessSpec => []HeadlessInv
BY HeadlessInitInv, HeadlessStepKeeps, PTL DEF HeadlessSpec

\* run_skill's answer, for any evidence, commands and budget: a success keeps the
\* skill's contract, has something to show and asks for no retry, through every
\* gate of _build_skill_result, the nudge and the clone guard.
THEOREM SuccessesAreSound == HeadlessSpec => []SuccessIsSound
<1>1. HeadlessInv => SuccessIsSound
  <2> SUFFICES ASSUME HeadlessInv PROVE SuccessIsSound OBVIOUS
  <2>1. HeadlessTypeOK
    <3>1. \A i \in DOMAIN audit : audit[i] \in [key : Keys \union {NoKey}, retry : BOOLEAN]
      <4>1. audit \in Seq(Record) BY DEF HeadlessInv, Shapes
      <4>2. \A i \in DOMAIN audit : audit[i] \in Record BY <4>1
      <4> QED BY <4>2 DEF Record
    <3>2. ASSUME NEW c \in Calls
          PROVE  {sr[c].success, sr[c].retry} \subseteq BOOLEAN
                 /\ sr[c].retry = (sr[c].reason \notin {"none", "budget_exhausted"})
      BY DEF HeadlessInv, Carried, WellFormed
    <3> QED BY <3>1, <3>2 DEF HeadlessTypeOK, HeadlessInv, Shapes
  <2>2. OneVerdict BY DEF OneVerdict, HeadlessInv, Carried, WellFormed
  <2>3. ContractKept BY DEF ContractKept, HeadlessInv, Carried, Kept, Before
  <2>4. NoEmptySuccess BY DEF NoEmptySuccess, HeadlessInv, Carried, Kept, Before
  <2> QED BY <2>1, <2>2, <2>3, <2>4 DEF SuccessIsSound
<1> QED BY <1>1, HeadlessInductive, PTL

\* Work a channel confirmed, or that something else than the runner killed, is
\* answered with a success or a retry as long as the budget lasts: the dead-end
\* guard of compute_outcome and the override after it leave no gap.
THEOREM NothingIsAbandoned == HeadlessSpec => []NothingAbandoned
<1>1. HeadlessInv => NothingAbandoned
  BY DEF HeadlessInv, Carried, Kept, Before, Answered, NothingAbandoned, NoDeadEnd, KilledIsResumed
<1> QED BY <1>1, HeadlessInductive, PTL

\* _apply_budget_guard, for any number of concurrent calls: the guarded retries
\* granted in a row to a command, and those about to be, stay within the budget,
\* plus one for each call that was in flight when the streak was last broken.
THEOREM BudgetIsBound == HeadlessSpec => []BudgetBounds
<1>1. HeadlessInv => BudgetBounds
  <2> SUFFICES ASSUME HeadlessInv, NEW k \in Keys, Filed(k)
               PROVE  granted[k] <= MaxRetries + Cardinality(Calls)
    BY DEF BudgetBounds, Filed
  <2>1. BudgetAt(k) /\ granted[k] \in Nat BY DEF HeadlessInv, Shapes
  <2>2. Streak(audit, k) \in Nat BY StreakIsNatural DEF HeadlessInv, Shapes
  <2>3. Least(Streak(audit, k), MaxRetries) <= MaxRetries /\ Least(Streak(audit, k), MaxRetries) \in Nat
        /\ MaxRetries \in Nat
    BY <2>2, HeadlessAssumption DEF Least
  <2> QED BY <2>1, <2>3, OwingCounts DEF BudgetAt
<1> QED BY <1>1, HeadlessInductive, PTL
=============================================================================
