----------------------------- MODULE SessionLogs -----------------------------
(***************************************************************************)
(* The session logs every server of a user shares: a directory per         *)
(* session, an index with a line per run, the fence a clear leaves, and    *)
(* the trace files of sessions nobody finished.  A server flushes a        *)
(* session without yielding, so its own flushes do not overlap; those of   *)
(* two servers do.                                                         *)
(*                                                                         *)
(* Process ids are not reused and the machine is not booted again: a trace *)
(* is known by its run.  Everything happens within the replay's 24 hours.  *)
(***************************************************************************)
EXTENDS Naturals, Sequences, FiniteSets

CONSTANTS
  LogServers,  \* one server per project
  CampaignsOf, \* the campaigns of each server's project
  MaxSessions, \* linux_tracing.max_sessions
  MaxLogged,   \* bound: how many runs are started
  MaxDowns     \* bound: how many crashes

ASSUME LogsAssumption ==
  /\ CampaignsOf \in [LogServers -> SUBSET STRING]
  /\ {MaxSessions, MaxLogged, MaxDowns} \subseteq Nat /\ MaxSessions > 0

VARIABLES
  logTime,     \* orders starts and clears
  index,       \* sessions.jsonl
  logDirs,     \* sessions/, by time of change
  fence,       \* .telemetry_cleared_at
  campaigning, \* the campaigns that are not over
  logServer,   \* each server: down, recovering or up, and the flush it is in
  memory,      \* each server's audit log
  logged,      \* the runs, in order of their start
  traces,      \* the runs that have trace and enrollment files
  downs,
  clearedRuns, \* history: what each server has cleared
  mixed,       \* history: runs beside others of their server, or across a clear
  torn,        \* history: sessions some flush was beside another's, or cut off
  evicted      \* history: sessions of unfinished campaigns that were deleted

logVars == <<logTime, index, logDirs, fence, campaigning, logServer, memory, logged,
             traces, downs, clearedRuns, mixed, torn, evicted>>
histories == <<clearedRuns, mixed, torn, evicted>>

none == "none"
NoRecord == [run |-> 0, failed |-> FALSE]
DirNames == {logDirs[i].name : i \in DOMAIN logDirs}
NoFlush == [pc |-> "no", run |-> 0, keep |-> {}, name |-> 0]

LogsInit ==
  /\ logTime = 1 /\ index = <<>> /\ logDirs = <<>> /\ fence = 0 /\ downs = 0
  /\ campaigning = UNION {CampaignsOf[s] : s \in LogServers}
  /\ logServer = [s \in LogServers |-> [pc |-> "up", flush |-> NoFlush, todo |-> {}]]
  /\ memory = [s \in LogServers |-> <<>>]
  /\ logged = <<>> /\ traces = {}
  /\ clearedRuns = [s \in LogServers |-> {}] /\ mixed = {} /\ torn = {} /\ evicted = {}

\* The one way to go through some positions in their order, and what it meets in a sequence.
InOrder(positions) ==
  {f \in [1..Cardinality(positions) -> positions] :
     /\ \A i, j \in DOMAIN f : i < j => f[i] < f[j]
     /\ \A p \in positions : \E i \in DOMAIN f : f[i] = p}

Along(f, seq) == [i \in DOMAIN f |-> seq[f[i]]]

Serving(s) == logServer[s].pc = "up" /\ logServer[s].flush.pc = "no"
RunningOn(s) == {r \in DOMAIN logged : logged[r].pc = "running" /\ logged[r].server = s}

----------------------------------------------------------------------------
(* Runs                                                                    *)

\* A new session, or one of the project's sessions resumed.  Only steps of a recipe keep an audit record.
StartRun(s) ==
  /\ Serving(s) /\ Len(logged) < MaxLogged
  /\ \E campaign \in CampaignsOf[s] \union {none}, step \in BOOLEAN,
        name \in {Len(logged) + 1} \union {logged[r].name : r \in {q \in DOMAIN logged : logged[q].pc = "done" /\ logged[q].server = s}} :
       logged' = Append(logged, [pc |-> "running", server |-> s, name |-> name, campaign |-> campaign, step |-> step,
                                 at |-> logTime, base |-> Len(memory[s])])
  /\ logTime' = logTime + 1 /\ traces' = traces \union {Len(logged) + 1}
  /\ mixed' = IF RunningOn(s) = {} THEN mixed ELSE mixed \union RunningOn(s) \union {Len(logged) + 1}
  /\ UNCHANGED <<index, logDirs, fence, campaigning, logServer, memory, downs, clearedRuns, torn, evicted>>

\* The first record the log has got since the run started, whoever wrote it.
AuditRecord(r, mem) == IF logged[r].base < Len(mem) THEN mem[logged[r].base + 1] ELSE NoRecord

\* Written again, a directory is the youngest.  A record stays when the new run leaves none.
Write(name, campaign, record) ==
  LET others == {i \in DOMAIN logDirs : logDirs[i].name # name}
      before == {logDirs[i] : i \in DOMAIN logDirs \ others}
      kept == IF before = {} THEN [name |-> name, campaign |-> none, audit |-> NoRecord]
              ELSE CHOOSE d \in before : TRUE
      written == [name |-> name, campaign |-> IF campaign = none THEN kept.campaign ELSE campaign,
                  audit |-> IF record.run = 0 THEN kept.audit ELSE record]
  IN  \E f \in InOrder(others) : logDirs' = Append(Along(f, logDirs), written)

Others(s) == {t \in LogServers \ {s} : logServer[t].flush.pc # "no"}
Flushing(s, pc, r, name) == [logServer EXCEPT ![s].flush = [pc |-> pc, run |-> r, keep |-> {}, name |-> name]]

\* The tracing stops, a failure is put on the audit log, and the files and the line are written; the
\* write of some file may fail, which ends the flush.
EndRun(s, r, failed) ==
  LET mem == IF failed THEN Append(memory[s], [run |-> r, failed |-> TRUE]) ELSE memory[s]
      record == IF logged[r].step THEN AuditRecord(r, mem) ELSE NoRecord
  IN  /\ Serving(s) /\ r \in RunningOn(s)
      /\ traces' = traces \ {r} /\ memory' = [memory EXCEPT ![s] = mem]
      /\ Write(logged[r].name, logged[r].campaign, record)
      /\ logged' = [logged EXCEPT ![r].pc = IF failed THEN "failed" ELSE "ok"]
      /\ \/ index' = Append(index, [dir |-> logged[r].name, at |-> logged[r].at])
            /\ logServer' = Flushing(s, "scan", r, logged[r].name)
            /\ torn' = IF Others(s) = {} THEN torn ELSE torn \union {logged[r].name}
         \/ /\ UNCHANGED index /\ torn' = torn \union {logged[r].name}
            /\ logServer' = Flushing(s, "end", r, logged[r].name)
      /\ UNCHANGED <<logTime, fence, campaigning, downs, clearedRuns, mixed, evicted>>

\* Mutant: what survives is what is young.
KeepYoungest(protected, excess) == {i \in DOMAIN logDirs : i > excess}

\* The oldest go, but none of a protected campaign's.
Surviving(protected, excess) == {i \in DOMAIN logDirs : i > excess \/ logDirs[i].campaign \in protected}

\* Who recovers knows no project, and protects nothing.
Protected(s) == IF logServer[s].pc = "up" THEN CampaignsOf[s] \intersect campaigning ELSE {}

_enforce_retention(s) ==
  LET surviving == Surviving(Protected(s), Len(logDirs) - MaxSessions)
      gone == {logDirs[i].campaign : i \in DOMAIN logDirs \ surviving}
  IN  /\ logServer[s].flush.pc = "scan"
      /\ \/ Len(logDirs) <= MaxSessions
            /\ logServer' = [logServer EXCEPT ![s].flush.pc = "end"] /\ UNCHANGED <<logDirs, evicted>>
         \/ /\ Len(logDirs) > MaxSessions
            /\ \E f \in InOrder(surviving) : logDirs' = Along(f, logDirs)
            /\ logServer' = [logServer EXCEPT ![s].flush.pc = "rewrite",
                                              ![s].flush.keep = {logDirs[i].name : i \in surviving}]
            /\ evicted' = evicted \union {<<c, s, logServer[s].pc>> : c \in gone \intersect campaigning}
      /\ UNCHANGED <<logTime, index, fence, campaigning, memory, logged, traces, downs, clearedRuns, mixed, torn>>

\* Lines other servers have added since the scan go as well.
RewriteIndex(s) ==
  /\ logServer[s].flush.pc = "rewrite"
  /\ \E f \in InOrder({i \in DOMAIN index : index[i].dir \in logServer[s].flush.keep}) : index' = Along(f, index)
  /\ logServer' = [logServer EXCEPT ![s].flush.pc = "end"]
  /\ UNCHANGED <<logTime, logDirs, fence, campaigning, memory, logged, traces, downs, histories>>

\* run_skill puts a success on the audit log; a recovery removes the trace it has flushed.
FlushEnds(s) ==
  LET r == logServer[s].flush.run
  IN  /\ logServer[s].flush.pc = "end" /\ logServer' = [logServer EXCEPT ![s].flush = NoFlush]
      /\ IF logServer[s].pc = "up"
           THEN /\ memory' = IF logged[r].pc = "ok" THEN [memory EXCEPT ![s] = Append(@, [run |-> r, failed |-> FALSE])] ELSE memory
                /\ logged' = [logged EXCEPT ![r].pc = "done"] /\ UNCHANGED traces
           ELSE traces' = traces \ {r} /\ UNCHANGED <<memory, logged>>
      /\ UNCHANGED <<logTime, index, logDirs, fence, campaigning, downs, histories>>

\* Any report with clear=True: the fence is one for all servers and all logs.
ClearReport(s) ==
  /\ Serving(s) /\ memory[s] # <<>>
  /\ fence' = logTime /\ logTime' = logTime + 1 /\ memory' = [memory EXCEPT ![s] = <<>>]
  /\ clearedRuns' = [clearedRuns EXCEPT ![s] = @ \union {memory[s][i].run : i \in DOMAIN memory[s]}]
  /\ mixed' = mixed \union RunningOn(s)
  /\ UNCHANGED <<index, logDirs, campaigning, logServer, logged, traces, downs, torn, evicted>>

CampaignEnds ==
  /\ \E c \in campaigning : campaigning' = campaigning \ {c}
  /\ UNCHANGED <<logTime, index, logDirs, fence, logServer, memory, logged, traces, downs, histories>>

----------------------------------------------------------------------------
(* Crashes and starts                                                      *)

\* The sessions' processes may run on; nobody will flush them.
Crash(s) ==
  /\ logServer[s].pc # "down" /\ downs < MaxDowns /\ downs' = downs + 1
  /\ logServer' = [logServer EXCEPT ![s] = [pc |-> "down", flush |-> NoFlush, todo |-> {}]]
  /\ memory' = [memory EXCEPT ![s] = <<>>]
  /\ logged' = [r \in DOMAIN logged |-> IF logged[r].server = s /\ logged[r].pc = "running" THEN [logged[r] EXCEPT !.pc = "orphan"]
                                        ELSE IF logged[r].server = s /\ logged[r].pc \in {"ok", "failed"} THEN [logged[r] EXCEPT !.pc = "done"]
                                        ELSE logged[r]]
  /\ torn' = IF logServer[s].flush.pc \in {"no", "end"} THEN torn ELSE torn \union DirNames
  /\ UNCHANGED <<logTime, index, logDirs, fence, campaigning, traces, clearedRuns, mixed, evicted>>

OrphanEnds ==
  /\ \E r \in DOMAIN logged : logged[r].pc = "orphan" /\ logged' = [logged EXCEPT ![r].pc = "dead"]
  /\ UNCHANGED <<logTime, index, logDirs, fence, campaigning, logServer, memory, traces, downs, histories>>

\* The traces the recovery will look at.
Start(s) ==
  /\ logServer[s].pc = "down"
  /\ logServer' = [logServer EXCEPT ![s].pc = "recovering", ![s].todo = traces]
  /\ UNCHANGED <<logTime, index, logDirs, fence, campaigning, memory, logged, traces, downs, histories>>

\* A trace that is gone, or whose process runs, is left alone; one of a dead process is flushed
\* as a session of its own, dated by its last snapshot.
recover_crashed_sessions(s) ==
  /\ logServer[s].pc = "recovering" /\ logServer[s].flush.pc = "no"
  /\ \E r \in logServer[s].todo :
       LET rest == [logServer EXCEPT ![s].todo = @ \ {r}]
       IN  IF r \in traces /\ logged[r].pc = "dead"
             THEN /\ Write(MaxLogged + r, none, NoRecord)
                  /\ index' = Append(index, [dir |-> MaxLogged + r, at |-> logged[r].at])
                  /\ logServer' = [rest EXCEPT ![s].flush = [pc |-> "scan", run |-> r, keep |-> {}, name |-> MaxLogged + r]]
                  /\ torn' = IF Others(s) = {} THEN torn ELSE torn \union {MaxLogged + r}
             ELSE logServer' = rest /\ UNCHANGED <<logDirs, index, torn>>
  /\ UNCHANGED <<logTime, fence, campaigning, memory, logged, traces, downs, clearedRuns, mixed, evicted>>

\* _iter_session_log_entries: the lines, unless before the fence, whose directory has an audit log.
SessionOf(line) == logDirs[CHOOSE i \in DOMAIN logDirs : logDirs[i].name = line.dir]
Entries(since) ==
  {i \in DOMAIN index : index[i].at >= since /\ index[i].dir \in DirNames /\ SessionOf(index[i]).audit.run # 0}

Replay(s, entries) ==
  \E f \in InOrder(entries) :
     memory' = [memory EXCEPT ![s] = [i \in DOMAIN f |-> SessionOf(index[f[i]]).audit]]

\* Mutant: the fence is not looked at.
ReplayAll(s) == Replay(s, Entries(0))

load_from_log_dir(s) == Replay(s, Entries(fence))

deferred_initialize(s) ==
  /\ logServer[s].pc = "recovering" /\ logServer[s].flush.pc = "no" /\ logServer[s].todo = {}
  /\ logServer' = [logServer EXCEPT ![s].pc = "up"] /\ load_from_log_dir(s)
  /\ UNCHANGED <<logTime, index, logDirs, fence, campaigning, logged, traces, downs, histories>>

LogsNext ==
  \/ \E s \in LogServers :
       \/ StartRun(s) \/ \E r \in DOMAIN logged, failed \in BOOLEAN : EndRun(s, r, failed)
       \/ _enforce_retention(s) \/ RewriteIndex(s) \/ FlushEnds(s) \/ ClearReport(s)
       \/ Crash(s) \/ Start(s) \/ recover_crashed_sessions(s) \/ deferred_initialize(s)
  \/ CampaignEnds \/ OrphanEnds

LogsSpec == LogsInit /\ [][LogsNext]_logVars

----------------------------------------------------------------------------

Resumed(name) == \E q, r \in DOMAIN logged : q # r /\ logged[q].name = name /\ logged[r].name = name

\* A session of a campaign under way is deleted by another project's servers or by a
\* recovery, never by a flush of the servers that run the campaign.
CampaignKept == \A e \in evicted : e[1] \in CampaignsOf[e[2]] => e[3] = "recovering"

\* While no server is in a flush, a session's directory has its line in the index,
\* unless its flush was cut off or ran beside another server's.
Listed ==
  (\A s \in LogServers : logServer[s].flush.pc = "no") =>
    \A n \in DirNames \ torn : \E i \in DOMAIN index : index[i].dir = n

\* A server counts a failure twice only when its session was resumed, or when it was
\* taken for the record of a run beside its own.
CountedOnce ==
  \A s \in LogServers : \A i, j \in DOMAIN memory[s] :
    i # j /\ memory[s][i] = memory[s][j] => memory[s][i].run \in mixed \/ Resumed(logged[memory[s][i].run].name)

\* What a server has cleared does not come back when it is started again, unless the
\* session was resumed, or the record was also put into another run's directory.
ClearedStays ==
  \A s \in LogServers : \A i \in DOMAIN memory[s] :
    memory[s][i].run \in clearedRuns[s] => memory[s][i].run \in mixed \/ Resumed(logged[memory[s][i].run].name)

LogsSafe == CampaignKept /\ Listed /\ CountedOnce /\ ClearedStays
=============================================================================
