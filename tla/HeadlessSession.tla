--------------------------- MODULE HeadlessSession ---------------------------
(***************************************************************************)
(* run_skill calls of one server: each spawns a headless session, and when *)
(* it ends adjudicates it (SessionVerdict), may nudge it once, reverts a   *)
(* contaminated clone, and answers.  The calls share the audit log, from   *)
(* whose tail the retry budget is computed.                                *)
(***************************************************************************)
EXTENDS SessionVerdict, Integers, FiniteSets, Sequences

CONSTANTS Calls,       \* concurrent handlers
          Commands,    \* skill commands
          Keys,        \* names under which the audit log files a command
          Info,        \* [Commands -> CommandInfo]
          EvidenceOf,  \* [Commands -> SUBSET Evidence], what their sessions leave
          Workloads,   \* [Workload names -> Workload], one is played
          MaxRetries   \* max_consecutive_retries

\* A failure is filed under key, looked up under lookup, a success under
\* sentinel: resolution and truncation may make them differ.  An empty command
\* (key none) is not audited.  guard: the clone guard it runs under.
NoKey == "none"
CommandInfo ==
  [key : Keys \union {NoKey}, lookup : Keys, sentinel : Keys,
   guard : {"off", "worktree", "readonly"}]

\* Bound: records is the length up to which the audit log is explored.
Workload == [calls : SUBSET Calls, commands : SUBSET Commands, records : Nat]

ASSUME HeadlessAssumption ==
  /\ MaxRetries \in Nat
  /\ IsFiniteSet(Calls)
  /\ NoKey \notin Keys
  /\ Info \in [Commands -> CommandInfo]
  /\ EvidenceOf \in [Commands -> SUBSET Evidence]
  /\ \A w \in DOMAIN Workloads : Workloads[w] \in Workload

VARIABLES workload,
          audit,    \* DefaultAuditLog._records
          hpc,      \* where each call is
          cmd,      \* its command
          seen,     \* the evidence of its session
          sr,       \* its SkillResult
          granted   \* history: retries answered since the streak was broken

headVars == <<workload, audit, hpc, cmd, seen, sr, granted>>

Nothing == "nothing"
Unseen == [unseen |-> TRUE]
Pending == Verdict(FALSE, "pending", NoRetry)
W == Workloads[workload]

HeadlessInit ==
  /\ workload \in DOMAIN Workloads
  /\ audit = <<>>
  /\ hpc = [c \in Calls |-> "idle"]
  /\ cmd = [c \in Calls |-> Nothing]
  /\ seen = [c \in Calls |-> Unseen]
  /\ sr = [c \in Calls |-> Pending]
  /\ granted = [k \in Keys |-> 0]

Step(c, from, to) == hpc[c] = from /\ hpc' = [hpc EXCEPT ![c] = to]
InfoOf(c) == Info[cmd[c]]

----------------------------------------------------------------------------
(* The audit log.                                                           *)

Entry(key, retry) ==
  IF key = NoKey THEN <<>> ELSE <<[key |-> key, retry |-> retry]>>

Broken(key, retry, count) ==
  IF key # NoKey /\ ~retry THEN [count EXCEPT ![key] = 0] ELSE count

\* consecutive_failures: retriable records at the tail of this command's.
Streak(log, key) ==
  Cardinality({i \in DOMAIN log :
    /\ log[i].key = key
    /\ \A j \in i..Len(log) : log[j].key = key => log[j].retry})

\* Mutant: the guard looks at the record before last.
SpentLate(log, info) ==
  info.key # NoKey /\ Streak(log, info.lookup) > MaxRetries + 2

Spent(log, info) == info.key # NoKey /\ Streak(log, info.lookup) > MaxRetries

ClearReport ==
  /\ audit # <<>>
  /\ audit' = <<>>
  /\ granted' = [k \in Keys |-> 0]
  /\ UNCHANGED <<workload, hpc, cmd, seen, sr>>

----------------------------------------------------------------------------
(* One call.                                                                *)

Begin(c) ==
  /\ c \in W.calls /\ Len(audit) < W.records
  /\ Step(c, "idle", "running")
  /\ \E k \in W.commands : cmd' = [cmd EXCEPT ![c] = k]
  /\ UNCHANGED <<workload, audit, seen, sr, granted>>

\* The runner raises or is cancelled: nothing is recorded, nothing retried.
RunnerFails(c) ==
  /\ Step(c, "running", "idle")
  /\ cmd' = [cmd EXCEPT ![c] = Nothing]
  /\ UNCHANGED <<workload, audit, seen, sr, granted>>

Nudgeable(v) == v.retry /\ v.reason \in {"contract_recovery", "early_stop"}

\* Count, build, record and guard, with no await in between.
Judge(c) ==
  /\ hpc[c] = "running"
  /\ \E e \in EvidenceOf[cmd[c]] :
    LET key == InfoOf(c).key
        retriable == Recorded(e)
        log == IF retriable = {} THEN audit
               ELSE audit \o Entry(key, TRUE \in retriable)
        verdict == BuildSkillResult(e, Spent(log, InfoOf(c)))
    IN  /\ Step(c, "running", IF Nudgeable(verdict) THEN "nudge" ELSE "guard")
        /\ seen' = [seen EXCEPT ![c] = e]
        /\ audit' = log
        /\ sr' = [sr EXCEPT ![c] = verdict]
        /\ granted' = (IF retriable = {FALSE} THEN Broken(key, FALSE, granted)
                       ELSE granted)
        /\ UNCHANGED <<workload, cmd>>

\* An early stop wants the marker; a missing token needs a path to hint at.
NudgeWorks(v, e, answer) ==
  IF v.reason = "early_stop" THEN "marker" \in answer
  ELSE /\ e.patterns = "path" /\ e.session.tool /\ "tokens" \notin e.session.text
       /\ PatternsHold(e.patterns, Adjudged(e).text \union answer)

\* A session without an id is not nudged: that is the empty answer.
Nudge(c) ==
  /\ Step(c, "nudge", "guard")
  /\ \E answer \in Texts :
       sr' = [sr EXCEPT ![c] =
                IF NudgeWorks(@, seen[c], answer) THEN Verdict(TRUE, "success", NoRetry)
                ELSE @]
  /\ UNCHANGED <<workload, audit, cmd, seen, granted>>

\* The clone guard: skipped on a success that may write, and on a worktree.
Suspect(c) ==
  /\ InfoOf(c).guard # "off"
  /\ sr[c].success => InfoOf(c).guard = "readonly"

Leave(c) ==
  /\ Step(c, "guard", "reply")
  /\ seen' = [seen EXCEPT ![c] = Unseen]

CloneClean(c) ==
  /\ Leave(c)
  /\ UNCHANGED <<workload, audit, cmd, sr, granted>>

CloneReverted(c) ==
  /\ Leave(c)
  /\ Suspect(c)
  /\ audit' = audit \o <<[key |-> InfoOf(c).key, retry |-> sr[c].retry]>>
  /\ granted' = Broken(InfoOf(c).key, sr[c].retry, granted)
  /\ UNCHANGED <<workload, cmd, sr>>

ReplySuccess(c) ==
  /\ sr[c].success
  /\ Step(c, "reply", "idle")
  /\ LET key == IF InfoOf(c).key = NoKey THEN NoKey ELSE InfoOf(c).sentinel
     IN  /\ audit' = audit \o Entry(key, FALSE)
         /\ granted' = Broken(key, FALSE, granted)
  /\ cmd' = [cmd EXCEPT ![c] = Nothing]
  /\ sr' = [sr EXCEPT ![c] = Pending]
  /\ UNCHANGED <<workload, seen>>

\* Retries that no audit record stands behind.
Unguarded == {"zero_writes", "path_contamination"}

ReplyFailure(c) ==
  /\ ~sr[c].success
  /\ Step(c, "reply", "idle")
  /\ granted' =
       IF sr[c].retry /\ sr[c].reason \notin Unguarded /\ InfoOf(c).key # NoKey
       THEN [granted EXCEPT ![InfoOf(c).key] = @ + 1] ELSE granted
  /\ cmd' = [cmd EXCEPT ![c] = Nothing]
  /\ sr' = [sr EXCEPT ![c] = Pending]
  /\ UNCHANGED <<workload, audit, seen>>

Handle(c) ==
  \/ Begin(c) \/ RunnerFails(c) \/ Judge(c) \/ Nudge(c)
  \/ CloneClean(c) \/ CloneReverted(c)
  \/ ReplySuccess(c) \/ ReplyFailure(c)

HeadlessNext == ClearReport \/ \E c \in Calls : Handle(c)

HeadlessSpec == HeadlessInit /\ [][HeadlessNext]_headVars

----------------------------------------------------------------------------
(* Properties.                                                              *)

\* The variables keep their types; an answer names a reason exactly when it asks
\* for a retry, or says that the budget is spent.
HeadlessTypeOK ==
  /\ workload \in DOMAIN Workloads
  /\ \A i \in DOMAIN audit :
       audit[i] \in [key : Keys \union {NoKey}, retry : BOOLEAN]
  /\ hpc \in [Calls -> {"idle", "running", "nudge", "guard", "reply"}]
  /\ \A c \in Calls :
       /\ hpc[c] # "idle" => cmd[c] \in Commands
       /\ {sr[c].success, sr[c].retry} \subseteq BOOLEAN
       /\ sr[c].retry = (sr[c].reason \notin {"none", "budget_exhausted"})
  /\ granted \in [Keys -> Nat]

\* The session of a call was judged, and nudged if that was called for.
Before(c) == hpc[c] = "guard"

\* An answer never says both that the session succeeded and that it must be
\* retried, whatever the gates between parse and answer did.
OneVerdict == \A c \in Calls : ~(sr[c].success /\ sr[c].retry)

\* A success that neither a stall's recovery nor a nudge produced keeps the
\* skill's contract: the tokens are in the result, in the messages, or stand for
\* a file written in a session nobody watched; and what had to be written was.
ContractKept ==
  \A c \in Calls : Before(c) /\ sr[c].success /\ ~Stalled(seen[c]) =>
    LET e == seen[c]
    IN  Judged(e).success =>
          /\ \/ PatternsHold(e.patterns, e.session.text \union e.session.msgs)
             \/ e.race.channel = "UNMONITORED" /\ e.patterns = "path" /\ e.session.tool
          /\ e.mustWrite => Wrote(e)

\* Without the word of Channel B no session succeeds that left only its marker,
\* or no marker at all: recovery needs substance beside it.
NoEmptySuccess ==
  \A c \in Calls : Before(c) /\ sr[c].success /\ Judged(seen[c]).success =>
    LET e == seen[c]
        left == e.session.text \union e.session.msgs
    IN  e.race.channel = "CHANNEL_B"
          \/ /\ "marker" \in left
             /\ "text" \in left \/ e.session.tool

\* A completion that a channel confirmed, of a session that reports no error but
\* whose stdout lacks the marker, is never a dead end: it succeeds, or is to be
\* retried, or its budget is spent.
NoDeadEnd ==
  \A c \in Calls : Before(c) =>
    LET e == seen[c]
    IN  /\ e.race.channel \in {"CHANNEL_A", "CHANNEL_B"} /\ ~Stalled(e)
        /\ ~e.session.isError /\ e.race.termination # "TIMED_OUT"
        /\ "marker" \notin e.session.text \union e.session.msgs
        => sr[c].success \/ sr[c].retry \/ sr[c].reason = "budget_exhausted"

\* A session that something else than the runner killed is resumed as long as
\* the budget lasts, unless it had finished its work.
KilledIsResumed ==
  \A c \in Calls : Before(c) =>
    LET e == seen[c]
    IN  e.race.kill = "NATURAL_EXIT" /\ e.rc = "negative"
        => sr[c].success \/ sr[c].retry \/ sr[c].reason = "budget_exhausted"

\* However calls of one command interleave, with clone reverts and successes
\* between them, the guarded retries they are granted in a row stay within the
\* budget, give or take the calls already in flight when a streak was broken.
BudgetBounds ==
  \A k \in Keys :
    (\A i \in Commands : Info[i].key = k => Info[i].lookup = k)
    => granted[k] <= MaxRetries + Cardinality(Calls)

\* A success is a success: the contracts hold, there is something to show for it,
\* and nothing asks for a retry.
SuccessIsSound == HeadlessTypeOK /\ OneVerdict /\ ContractKept /\ NoEmptySuccess

\* Work that a channel confirmed, or that something else cut short, is never
\* answered with neither a success nor a retry.
NothingAbandoned == NoDeadEnd /\ KilledIsResumed
=============================================================================
