--------------------------- MODULE SessionVerdict ---------------------------
(***************************************************************************)
(* How a finished headless session is adjudicated: from the parsed stdout, *)
(* the result of the race and what the skill's contract expects to success, *)
(* a retry with its reason, or failure (execution/session and              *)
(* execution/headless/_headless_result.py).                                *)
(*                                                                         *)
(* Text is abstracted to what it contains: substance, the completion       *)
(* marker, the tokens that satisfy every expected output pattern.  A       *)
(* marker in the assistant messages stands alone in one of them.           *)
(***************************************************************************)
EXTENDS RaceOutcomes

Marks == {"text", "marker", "tokens"}

\* Tokens are substance; a marker alone is not.
Texts == {t \in SUBSET Marks : "tokens" \in t => "text" \in t}

Subtypes == {"success", "error_max_turns", "error_during_execution",
             "context_exhaustion", "interrupted", "unknown", "empty_output",
             "unparseable", "timeout", "idle_stall"}
FailureSubtypes == {"unknown", "empty_output", "unparseable", "timeout", "idle_stall"}

\* flat: a flat record announced the exhaustion of the context; limit: where its
\* marker is; thinking: a turn of thinking only; tool: it called Write or Edit.
Session == [subtype : Subtypes, isError : BOOLEAN, text : Texts, msgs : Texts,
            flat : BOOLEAN, limit : {"nowhere", "errors", "result"},
            thinking : BOOLEAN, tool : BOOLEAN]

\* What parse_session_result can return.
Parsed(s) ==
  /\ s.limit = "result" => "text" \in s.text
  /\ s.subtype = "empty_output" =>
       /\ s.isError /\ s.text = {} /\ s.msgs = {}
       /\ ~s.flat /\ s.limit = "nowhere" /\ ~s.thinking /\ ~s.tool
  /\ s.subtype \in {"unparseable", "context_exhaustion"} =>
       /\ s.isError /\ s.text = s.msgs \union {"text"}
       /\ s.flat = (s.subtype = "context_exhaustion") /\ s.limit # "errors"

\* The evidence about one session: its parse, the race, the return code, an API
\* error on stderr, new files in the watched directories, a path outside cwd in
\* its output, and the contract: kinds of patterns, whether it must write.
Evidence ==
  [session : {s \in Session : Parsed(s)}, race : RaceResults,
   rc : ReturnCodes, api : BOOLEAN, files : BOOLEAN, strays : BOOLEAN,
   patterns : {"none", "path", "plain"}, mustWrite : BOOLEAN]

ContextExhausted(s) ==
  \/ s.flat
  \/ s.isError /\ s.limit = "errors"
  \/ s.isError /\ s.limit = "result" /\ s.subtype \in {"success", "error_max_turns"}

NeedsResume(s) == s.subtype = "error_max_turns" \/ ContextExhausted(s)

SessionComplete(s) == ~s.isError /\ s.subtype \notin FailureSubtypes

PatternsHold(patterns, text) == patterns = "none" \/ "tokens" \in text

\* Mutant: the marker alone is enough.
ContentByMarker(s, patterns) ==
  /\ ~s.isError /\ s.subtype \notin FailureSubtypes
  /\ "marker" \in s.text

ContentOK(s, patterns) ==
  /\ SessionComplete(s)
  /\ "marker" \in s.text /\ s.text # {"marker"}
  /\ PatternsHold(patterns, s.text)

ContentState(s, patterns) ==
  CASE s.isError -> "SESSION_ERROR"
    [] ~s.isError /\ "marker" \notin s.text -> "ABSENT"
    [] ~s.isError /\ "marker" \in s.text /\ ~PatternsHold(patterns, s.text)
         -> "CONTRACT_VIOLATION"
    [] OTHER -> "COMPLETE"

KillAnomaly(s) ==
  \/ s.subtype \in {"unparseable", "empty_output", "interrupted"}
  \/ s.subtype = "success" /\ s.text = {}

ComputeSuccess(s, termination, channel, rc, patterns) ==
  IF channel = "CHANNEL_B" /\ (patterns = "none" \/ SessionComplete(s))
  THEN PatternsHold(patterns, s.text)
  ELSE /\ termination \in {"COMPLETED", "NATURAL_EXIT"}
       /\ rc # "zero" => /\ s.subtype = "success" /\ s.text # {}
                         /\ termination = "NATURAL_EXIT" => "marker" \in s.text
       /\ ContentOK(s, patterns)

Retry(reason) == [needed |-> TRUE, reason |-> reason]
NoRetry == [needed |-> FALSE, reason |-> "none"]

ComputeRetry(s, termination, channel, rc) ==
  CASE NeedsResume(s) -> Retry("resume")
    [] /\ ~NeedsResume(s) /\ termination = "NATURAL_EXIT"
       /\ channel \notin {"CHANNEL_A", "CHANNEL_B"}
       /\ rc = "zero" /\ KillAnomaly(s)
         -> Retry(IF s.thinking THEN "thinking_stall" ELSE "empty_output")
    [] /\ ~NeedsResume(s) /\ termination = "NATURAL_EXIT"
       /\ channel \notin {"CHANNEL_A", "CHANNEL_B"}
       /\ rc = "zero" /\ ~KillAnomaly(s)
       /\ s.subtype = "success" /\ "marker" \notin s.text
         -> Retry("early_stop")
    [] /\ ~NeedsResume(s) /\ termination = "COMPLETED"
       /\ channel # "CHANNEL_B" /\ KillAnomaly(s)
         -> Retry("resume")
    [] OTHER -> NoRetry

\* Mutant: without the dead-end guard.
OutcomeWithoutDeadEnd(s, e) ==
  LET retry == ComputeRetry(s, e.race.termination, e.race.channel, e.rc)
  IN  [success |-> ~retry.needed /\ ComputeSuccess(s, e.race.termination,
                                      e.race.channel, e.rc, e.patterns),
       retry   |-> retry]

\* A retry signal demotes success; what a channel confirmed but stdout does not
\* hold is a drain race, to be retried.
Outcome(s, e) ==
  LET success == ComputeSuccess(s, e.race.termination, e.race.channel, e.rc, e.patterns)
      retry   == ComputeRetry(s, e.race.termination, e.race.channel, e.rc)
      deadEnd == /\ ~success /\ ~retry.needed
                 /\ e.race.channel \in {"CHANNEL_A", "CHANNEL_B"}
                 /\ ContentState(s, e.patterns) = "ABSENT"
  IN  [success |-> success /\ ~retry.needed,
       retry   |-> IF deadEnd THEN Retry("drain_race") ELSE retry]

----------------------------------------------------------------------------
(* Recovery of what stdout lost, before the outcome is computed.            *)

\* The messages replace the result if the marker stands alone beside substance.
Recoverable(s) == {"text", "marker"} \subseteq s.msgs

FromMarker(s) == IF Recoverable(s) THEN [s EXCEPT !.text = s.msgs] ELSE s

\* Channel B saw the marker, or its directory came late.
DrainRaceRecovered(s, e) ==
  IF /\ e.race.channel \in {"CHANNEL_B", "DIR_MISSING"}
     /\ s.subtype \in {"unparseable", "empty_output"} /\ Recoverable(s)
  THEN [FromMarker(s) EXCEPT !.subtype = "success", !.isError = FALSE]
  ELSE s

TokensRecovered(s, e) ==
  IF PatternsHold(e.patterns, s.text) THEN s
  ELSE IF e.race.channel # "UNMONITORED" /\ "tokens" \in s.msgs
  THEN [s EXCEPT !.text = @ \union s.msgs]
  ELSE IF e.race.channel = "UNMONITORED" /\ e.patterns = "path" /\ s.tool
  THEN [s EXCEPT !.text = @ \union {"text", "tokens"}]
  ELSE s

\* A timed-out run has no successful session, whatever its stdout says.
Adjudged(e) ==
  LET s == IF e.race.termination # "TIMED_OUT" THEN e.session
           ELSE IF e.session.subtype \in {"success", "empty_output"}
           THEN [e.session EXCEPT !.subtype = "timeout", !.isError = TRUE]
           ELSE e.session
      r == DrainRaceRecovered(s, e)
  IN  IF SessionComplete(r) THEN TokensRecovered(FromMarker(r), e) ELSE r

----------------------------------------------------------------------------
(* _build_skill_result.                                                     *)

ReturnCode(e) == IF e.race.termination = "TIMED_OUT" THEN "negative" ELSE e.rc

Wrote(e) == e.session.tool \/ e.files

InfraExit(s, e) ==
  IF ContextExhausted(s) THEN "CONTEXT_EXHAUSTED"
  ELSE IF e.api THEN "API_ERROR"
  ELSE IF e.rc = "negative" THEN "PROCESS_KILLED"
  ELSE "COMPLETED"

NormalSubtype(s, success) ==
  IF s.subtype = "success" /\ ~success
  THEN IF s.text = {} THEN "empty_result"
       ELSE IF ContextExhausted(s) THEN "context_exhausted"
       ELSE IF "marker" \notin s.text THEN "missing_completion_marker"
       ELSE "adjudicated_failure"
  ELSE IF s.subtype \in FailureSubtypes /\ success THEN "success"
  ELSE s.subtype

\* API errors and kills by others are worth a resumption.
Overridden(s, e, outcome) ==
  IF /\ ~outcome.success
     /\ \/ InfraExit(s, e) = "API_ERROR"
        \/ /\ ~outcome.retry.needed /\ InfraExit(s, e) = "PROCESS_KILLED"
           /\ e.race.kill = "NATURAL_EXIT"
  THEN [outcome EXCEPT !.retry = Retry("resume")]
  ELSE outcome

Verdict(success, subtype, retry) ==
  [success |-> success, subtype |-> subtype,
   retry |-> retry.needed, reason |-> retry.reason]

Stalled(e) == e.race.termination \in {"STALE", "IDLE_STALL"}

\* A stalled session is saved by a valid result on stdout: no pattern is checked.
StallRecovered(e) ==
  /\ e.session.subtype = "success" /\ e.session.text # {} /\ ~e.session.isError
  /\ ComputeSuccess(e.session, "COMPLETED", e.race.channel, e.rc, "none")

Judged(e) ==
  LET s == Adjudged(e)
      outcome == Overridden(s, e, Outcome(s, [e EXCEPT !.rc = ReturnCode(e)]))
  IN  Verdict(outcome.success, NormalSubtype(s, outcome.success), outcome.retry)

\* An artifact without its token is retriable, and recorded so.
OwesToken(e, v) ==
  ~v.success /\ ~v.retry /\ v.subtype = "adjudicated_failure" /\ Wrote(e)

\* The audit record this session leaves, as a set of at most one: is it retriable?
Recorded(e) ==
  IF Stalled(e) THEN IF StallRecovered(e) THEN {} ELSE {TRUE}
  ELSE LET v == Judged(e)
       IN  IF v.success THEN {} ELSE {v.retry \/ OwesToken(e, v)}

\* The gates a verdict passes on the way out, in the code's order.
Contaminated(e, v) ==
  IF e.strays THEN Verdict(FALSE, "path_contamination", Retry("path_contamination"))
  ELSE v

ContractGate(e, v) ==
  IF OwesToken(e, v) THEN Verdict(FALSE, v.subtype, Retry("contract_recovery")) ELSE v

ZeroWriteGate(e, v) ==
  IF v.success /\ ~Wrote(e) /\ e.mustWrite
  THEN Verdict(FALSE, "zero_writes", Retry("zero_writes"))
  ELSE v

NoFlushGate(e, v) ==
  IF v.retry /\ v.reason = "empty_output" /\ Wrote(e)
  THEN Verdict(FALSE, "completed_no_flush", Retry("completed_no_flush"))
  ELSE v

\* _apply_budget_guard: spent is whether the budget of consecutive retries is.
BudgetGuard(spent, v) ==
  IF v.retry /\ spent
  THEN [v EXCEPT !.retry = FALSE, !.reason = "budget_exhausted"] ELSE v

StallVerdict(e) ==
  IF StallRecovered(e)
  THEN Verdict(TRUE, IF e.race.termination = "STALE" THEN "recovered_from_stale"
                     ELSE "recovered_from_idle_stall", NoRetry)
  ELSE IF e.race.termination = "STALE" THEN Verdict(FALSE, "stale", Retry("stale"))
       ELSE Verdict(FALSE, "idle_stall", Retry("idle_stall"))

BuildSkillResult(e, spent) ==
  IF Stalled(e) THEN BudgetGuard(spent, StallVerdict(e))
  ELSE LET guarded  == BudgetGuard(spent, Contaminated(e, Judged(e)))
           contract == BudgetGuard(spent, ContractGate(e, guarded))
           written  == ZeroWriteGate(e, contract)
       IN  BudgetGuard(spent /\ NoFlushGate(e, written) # written,
                       NoFlushGate(e, written))

=============================================================================
