----------------------------- MODULE MCExecution -----------------------------
(***************************************************************************)
(* The execution of a session, in two parts played one at a time: the race *)
(* that ends the child process, and the verdict on what the session left,  *)
(* for every outcome of the race (RaceOutcomes).                           *)
(***************************************************************************)
EXTENDS ProcessRace, HeadlessSession

VARIABLE part

executionVars == <<part, raceVars, headVars>>

\* The part that is not played has one initial state.
ExecutionInit ==
  /\ part \in {"race", "verdict"} /\ RaceInit /\ HeadlessInit
  /\ part = "race" \/ (logFile = "none" /\ call = CHOOSE c \in RaceCalls : TRUE)
  /\ part = "verdict" \/ workload = CHOOSE w \in DOMAIN Workloads : TRUE

ExecutionNext ==
  /\ \/ part = "race" /\ RaceNext /\ UNCHANGED headVars
     \/ part = "verdict" /\ HeadlessNext /\ UNCHANGED raceVars
  /\ UNCHANGED part

Played(steps) == part = "race" /\ steps /\ UNCHANGED <<part, headVars>>

\* The fairness of RaceFairSpec.
ExecutionSpec ==
  /\ ExecutionInit /\ [][ExecutionNext]_executionVars
  /\ WF_raceVars(Played(Watchers))
  /\ WF_raceVars(Played(Main))
  /\ WF_raceVars(Played(Tick))

\* Every run ends, whatever the child does: by its exit, a signal or the
\* deadline, which extensions cannot push for ever.
EveryRunReturns == <>(part = "race" => Over)

----------------------------------------------------------------------------
\* Each optional watcher on its own beside the mandatory ones.
MCCalls == {[monitored |-> TRUE,  extended |-> TRUE,  idle |-> 0],
            [monitored |-> TRUE,  extended |-> FALSE, idle |-> 1],
            [monitored |-> FALSE, extended |-> TRUE,  idle |-> 1]}

Plain(subtype, isError, text, msgs) ==
  [subtype |-> subtype, isError |-> isError, text |-> text, msgs |-> msgs,
   flat |-> FALSE, limit |-> "nowhere", thinking |-> FALSE, tool |-> FALSE]

\* Sessions that reported a result, with every text but fewer messages, and the
\* subtypes the verdict tells apart; then the flags one at a time.
Full == {"text", "marker", "tokens"}
Answered(subtypes, messages) ==
  {Plain(subtype, isError, text, msgs) :
     subtype \in subtypes, isError \in BOOLEAN, text \in Texts, msgs \in messages}
Reported ==
  Answered({"success"}, {{}, {"marker"}, {"text", "tokens"}, Full})
    \union Answered({"error_max_turns", "interrupted", "unknown"}, {Full})
Fallback ==
  {Plain("empty_output", TRUE, {}, {})}
    \union {Plain("unparseable", TRUE, msgs \union {"text"}, msgs) : msgs \in Texts}
    \union {[Plain("context_exhaustion", TRUE, msgs \union {"text"}, msgs)
               EXCEPT !.flat = TRUE] : msgs \in Texts}
Flagged ==
  LET s == Answered({"success"}, {{}, Full})
  IN  {[x EXCEPT !.flat = TRUE] : x \in s}
        \union {[x EXCEPT !.limit = "errors"] : x \in s}
        \union {[x EXCEPT !.thinking = TRUE] : x \in s}
        \union {[x EXCEPT !.tool = TRUE] : x \in s \union (Fallback \ {Plain("empty_output", TRUE, {}, {})})}
MCSessions == Reported \union Fallback \union Flagged

Found(sessions, patterns, mustWrite, written, api, strays) ==
  [session : sessions, race : RaceResults, rc : ReturnCodes, api : api,
   files : written, strays : strays, patterns : patterns, mustWrite : mustWrite]

\* Every session with every race; API errors, strays and files on part of them.
AllEvidence ==
  Found(MCSessions, {"none", "path"}, {TRUE}, {FALSE}, {FALSE}, {FALSE})
    \union Found(Fallback \union Answered({"success"}, {{}, Full}), {"plain"},
                  {TRUE}, {FALSE}, {FALSE}, {FALSE})
    \union Found(Flagged, {"path"}, BOOLEAN, {TRUE}, BOOLEAN, BOOLEAN)

\* What one small skill can leave: each kind of verdict once.
One(session, race, rc, patterns) ==
  [session |-> session, race |-> race, rc |-> rc, api |-> FALSE, files |-> FALSE,
   strays |-> FALSE, patterns |-> patterns, mustWrite |-> FALSE]
Ended(t, ch, k) == [termination |-> t, channel |-> ch, kill |-> k]
Natural == Ended("NATURAL_EXIT", "UNMONITORED", "NATURAL_EXIT")
SomeEvidence ==
  {One(Plain("success", FALSE, Full, {}), Natural, "zero", "path"),
   One(Plain("success", FALSE, {"text"}, {}), Natural, "zero", "path"),
   One([Plain("success", FALSE, {"text", "marker"}, {}) EXCEPT !.tool = TRUE],
       Ended("COMPLETED", "CHANNEL_A", "KILL_AFTER_COMPLETION"), "negative", "path"),
   One(Plain("empty_output", TRUE, {}, {}), Ended("STALE", "UNMONITORED", "INFRA_KILL"),
       "negative", "path"),
   One(Plain("error_during_execution", TRUE, {"text"}, {}), Natural, "positive", "path")}

MCEvidenceOf ==
  [k \in {"alone", "canonical", "bare", "readonly"} |->
     IF k = "alone" THEN AllEvidence ELSE SomeEvidence]

Named(key, lookup, sentinel, guard) ==
  [key |-> key, lookup |-> lookup, sentinel |-> sentinel, guard |-> guard]

MCInfo ==
  [k \in {"alone", "canonical", "bare", "readonly"} |->
     CASE k = "alone"     -> Named("x", "x", "x", "off")
       [] k = "canonical" -> Named("k", "k", "k", "worktree")
       [] k = "bare"      -> Named("k", "k", "b", "off")
       [] OTHER           -> Named(NoKey, "k", "k", "readonly")]

MCWorkloads ==
  [w \in {"verdicts", "shared", "unaudited"} |->
     CASE w = "verdicts" -> [calls |-> {"c1"}, commands |-> {"alone"}, records |-> 1]
       [] w = "shared" -> [calls |-> {"c1", "c2"}, commands |-> {"canonical", "bare"},
                           records |-> 3]
       [] OTHER -> [calls |-> {"c1"}, commands |-> {"canonical", "readonly"}, records |-> 3]]
=============================================================================
