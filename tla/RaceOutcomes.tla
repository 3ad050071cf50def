---------------------------- MODULE RaceOutcomes ----------------------------
(***************************************************************************)
(* What a managed run of a subprocess can report: the interface between    *)
(* the race (execution/process) and the adjudication of its session        *)
(* (execution/headless).                                                   *)
(***************************************************************************)

Terminations == {"NATURAL_EXIT", "IDLE_STALL", "STALE", "COMPLETED", "TIMED_OUT"}
Channels == {"CHANNEL_A", "CHANNEL_B", "UNMONITORED", "DIR_MISSING"}
Kills == {"NATURAL_EXIT", "KILL_AFTER_COMPLETION", "INFRA_KILL"}

\* The results that reach the adjudication: who ended the child decides which
\* terminations, channels and kill reasons go together.
RaceResults ==
  {r \in [termination : Terminations, channel : Channels, kill : Kills] :
     CASE r.termination = "NATURAL_EXIT" -> r.kill = "NATURAL_EXIT"
       [] r.termination = "COMPLETED" ->
            /\ r.channel \in {"CHANNEL_A", "CHANNEL_B"}
            /\ r.kill \in {"NATURAL_EXIT", "KILL_AFTER_COMPLETION"}
       [] r.termination = "STALE" ->
            r.kill = "INFRA_KILL" /\ r.channel # "CHANNEL_B"
       [] OTHER -> r.kill = "INFRA_KILL"}

\* The sign of the return code: a child may end by itself while it is killed.
ReturnCodes == {"zero", "positive", "negative"}

=============================================================================
