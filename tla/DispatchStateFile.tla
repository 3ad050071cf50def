-------------------------- MODULE DispatchStateFile --------------------------
(***************************************************************************)
(* One dispatch state file (fleet/state.py, state_recovery.py,             *)
(* state_gates.py) shared by several operating-system processes:           *)
(*   - Servers: MCP servers, whose tools mark dispatches running, append   *)
(*     their outcome, reset a failed dispatch and record gates;            *)
(*   - Clis: `fleet campaign --resume`, running resume_campaign_from_state;*)
(*   - Reapers: `fleet status --reap`, running _reap_stale_dispatches.     *)
(*                                                                         *)
(* Every write replaces the whole file (atomic_write: a temporary file and *)
(* os.replace), so a reader always sees a whole version and each version   *)
(* is a new inode.  What is not atomic is the read-modify-write around it. *)
(* Three disciplines coexist, and the model keeps them apart:              *)
(*   - mark_dispatch_* and append_dispatch_record take no lock;            *)
(*   - reset_failed_dispatch, record_gate_outcome and                      *)
(*     resume_campaign_from_state hold an flock on the .lock file;         *)
(*   - the reaper holds an flock on the state file itself, that is, on the *)
(*     inode it happened to open.                                          *)
(*                                                                         *)
(* A process dies at any step (Crash): the kernel drops its locks, the     *)
(* file keeps its last whole version.                                      *)
(***************************************************************************)
EXTENDS DispatchStates

CONSTANTS
  N,                  \* dispatches the file may name
  Manifest,           \* write_initial_state lists 1..Manifest, the rest is appended
  Servers, Clis, Reapers,
  Unlocked,           \* the servers that also run the operations without a lock
  ContinueOnFailure,  \* of the campaign recipe
  MaxOps              \* bound: operations each process starts

ASSUME CountAssumption == N \in Nat /\ Manifest \in 0..N /\ MaxOps \in Nat
ASSUME ProcsAssumption ==
  /\ Servers \cap Clis = {} /\ Servers \cap Reapers = {} /\ Clis \cap Reapers = {}
  /\ Unlocked \subseteq Servers
ASSUME PolicyAssumption == ContinueOnFailure \in BOOLEAN

Names == 1..N
Procs == Servers \cup Clis \cup Reapers

VARIABLES
  file,     \* the current version: a record per name
  inode,    \* identifies that version
  sidecar,  \* the sidecar on disk: none, ok (empty or parsable), corrupt
  alive,    \* the L2 session a running record points at is alive
  lock,     \* holders of the flock on the .lock file
  fh,       \* the inode each reaper opened, 0 when it has none open
  pc,       \* where each process is
  local,    \* the copy resume and reap iterate over
  buf,      \* the version a process is about to write
  target,   \* the names that write is about
  at,       \* the position the loop over that copy has reached
  ops       \* operations started

shared == <<file, inode, sidecar, alive>>
vars == <<file, inode, sidecar, alive, lock, fh, pc, local, buf, target, at, ops>>

Content == [Names -> DispatchRecord]

RunningRecord(r) == [r EXCEPT !.status = "running", !.sidecar = TRUE]

\* The records a finished dispatch leaves (the DispatchRecord of _run_dispatch).
Outcomes ==
  {Blank("success"), Record("failure", "logic", ""),
   Record("failure", "infra", "abandon"), Record("resumable", "", "retry")}

\* What an earlier process may have left of a manifest dispatch.
LeftBehind ==
  Outcomes \cup {Blank("pending"), RunningRecord(Blank("pending")),
                 RunningRecord(Record("pending", "", "abandon"))}

\* Of a process that holds no copy.
NoCopy == [n \in Names |-> Blank(Absent)]

(***************************************************************************)
(* The processes of the model meet a file written by write_initial_state   *)
(* and used since by processes that are gone; a running record's session   *)
(* may or may not be alive still.                                          *)
(***************************************************************************)
Init ==
  /\ \E left \in [1..Manifest -> LeftBehind] :
       file = [n \in Names |-> IF n <= Manifest THEN left[n] ELSE Blank(Absent)]
  /\ sidecar \in [Names -> {"none", "ok", "corrupt"}]
  /\ alive \in [Names -> BOOLEAN]
  /\ \A n \in Names : file[n].status # "running" => sidecar[n] = "none" /\ ~alive[n]
  /\ inode = 1
  /\ lock = {}
  /\ fh = [p \in Reapers |-> 0]
  /\ pc = [p \in Procs |-> "idle"]
  /\ local = [p \in Procs |-> NoCopy]
  /\ buf = [p \in Procs |-> NoCopy]
  /\ target = [p \in Procs |-> {}]
  /\ at = [p \in Procs |-> 1]
  /\ ops = [p \in Procs |-> 0]

\* p starts an operation.
Starts(p) ==
  /\ pc[p] = "idle"
  /\ ops[p] < MaxOps
  /\ ops' = [ops EXCEPT ![p] = @ + 1]

\* p's operation returns, or p dies: its copies are gone.
Leaves(p, where) ==
  /\ pc' = [pc EXCEPT ![p] = where]
  /\ local' = [local EXCEPT ![p] = NoCopy]
  /\ buf' = [buf EXCEPT ![p] = NoCopy]
  /\ target' = [target EXCEPT ![p] = {}]
  /\ at' = [at EXCEPT ![p] = 1]

\* The flock on the .lock file: exclusive, held until the operation is over.
SharedAcquire(p) == lock' = lock \cup {p}    \* mutant: flock(LOCK_SH)
Acquires(p) == lock = {} /\ lock' = {p}

\* os.replace: a whole new version under a new inode.
Replace(content) == file' = content /\ inode' = inode + 1

\* The read-modify part of a read-modify-write of record n.
Prepare(p, n, record, next) ==
  /\ buf' = [buf EXCEPT ![p] = [file EXCEPT ![n] = record]]
  /\ target' = [target EXCEPT ![p] = {n}]
  /\ pc' = [pc EXCEPT ![p] = next]

-----------------------------------------------------------------------------
(* Operations without a lock, by a server. *)

(***************************************************************************)
(* mark_dispatch_running, called when the L2 session has been spawned: a   *)
(* fresh dispatch id, hence a sidecar path no file exists at.  kill_reason *)
(* keeps whatever the record had.                                          *)
(***************************************************************************)
MarkRunning(p, n) ==
  /\ p \in Unlocked
  /\ Starts(p)
  /\ ~alive[n]
  /\ Valid(file[n].status, "running")
  /\ Prepare(p, n, RunningRecord(file[n]), "write")
  /\ alive' = [alive EXCEPT ![n] = TRUE]
  /\ sidecar' = [sidecar EXCEPT ![n] = "none"]
  /\ UNCHANGED <<file, inode, lock, fh, local, at>>

\* append_dispatch_record: replace the record of that name, or append it.
AppendDispatchRecord(p, n, record) ==
  /\ p \in Unlocked
  /\ Starts(p)
  /\ ~alive[n]
  /\ file[n].status = Absent \/ Valid(file[n].status, record.status)
  /\ Prepare(p, n, record, "write")
  /\ UNCHANGED <<shared, lock, fh, local, at>>

WriteState(p) ==
  /\ pc[p] = "write"
  /\ Replace(buf[p])
  /\ Leaves(p, "idle")
  /\ UNCHANGED <<sidecar, alive, lock, fh, ops>>

-----------------------------------------------------------------------------
(* Operations under the .lock file. *)

\* reset_failed_dispatch.
ResetFailedDispatch(p, n) ==
  /\ p \in Servers
  /\ Acquires(p)
  /\ Starts(p)
  /\ file[n].status = "failure"
  /\ Valid(file[n].status, "pending")
  /\ Prepare(p, n, Cleared(file[n]), "lockedWrite")
  /\ UNCHANGED <<shared, fh, local, at>>

\* Mutant: a gate is recorded whatever its status.
RecordAnyGate(p, n, approved) ==
  /\ p \in Servers
  /\ Acquires(p)
  /\ Starts(p)
  /\ file[n].status # Absent
  /\ Prepare(p, n,
             IF approved THEN Blank("success")
                         ELSE Record("failure", "logic", ""),
             "lockedWrite")
  /\ UNCHANGED <<shared, fh, local, at>>

\* record_gate_outcome: only a pending gate is recorded.
RecordGateOutcome(p, n, approved) ==
  /\ p \in Servers
  /\ Acquires(p)
  /\ Starts(p)
  /\ file[n].status = "pending"
  /\ Prepare(p, n,
             IF approved THEN Blank("success")
                         ELSE Record("failure", "logic", ""),
             "lockedWrite")
  /\ UNCHANGED <<shared, fh, local, at>>

LockedWrite(p) ==
  /\ pc[p] = "lockedWrite"
  /\ Replace(buf[p])
  /\ lock' = lock \ {p}
  /\ Leaves(p, "idle")
  /\ UNCHANGED <<sidecar, alive, fh, ops>>

\* resume_campaign_from_state up to its read_state.
BeginResume(p) ==
  /\ p \in Clis
  /\ Acquires(p)
  /\ Starts(p)
  /\ local' = [local EXCEPT ![p] = file]
  /\ at' = [at EXCEPT ![p] = 1]
  /\ pc' = [pc EXCEPT ![p] = "scan"]
  /\ UNCHANGED <<shared, fh, buf, target>>

-----------------------------------------------------------------------------
(* crash_recover_dispatch, shared by resume and reap. *)

\* is_dispatch_session_alive: the recorded process runs, with the recorded boot and start time.
NeverAlive(n) == FALSE    \* mutant: the probe reports every session dead
SessionAlive(n) == alive[n]

Usable(p) == local[p][at[p]].sidecar /\ sidecar[at[p]] = "ok"

\* _is_abandon_kill_reason of the record resume or reap iterates over.
Abandon(p) == local[p][at[p]].kill = "abandon"

Interrupt(r) == [r EXCEPT !.status = "interrupted"]
Resumable(r) == [r EXCEPT !.status = "resumable", !.sidecar = TRUE]

\* The loop goes on to the next record.
Done(p) == at' = [at EXCEPT ![p] = @ + 1]

(***************************************************************************)
(* A usable sidecar and no abandon reason: mark_dispatch_resumable re-reads*)
(* the file; when it raises, the code falls through to the interrupted     *)
(* branch.                                                                 *)
(***************************************************************************)
TryResumable(p) ==
  /\ pc[p] = "recover"
  /\ Usable(p)
  /\ ~Abandon(p)
  /\ IF Valid(file[at[p]].status, "resumable")
       THEN Prepare(p, at[p], Resumable(file[at[p]]), "recoverWrite")
       ELSE pc' = [pc EXCEPT ![p] = "fallback"] /\ UNCHANGED <<buf, target>>
  /\ UNCHANGED <<shared, lock, fh, local, at, ops>>

\* mark_dispatch_interrupted, as the first choice or as the fallback.
TryInterrupted(p) ==
  /\ \/ pc[p] = "recover" /\ (~Usable(p) \/ Abandon(p))
     \/ pc[p] = "fallback"
  /\ Valid(file[at[p]].status, "interrupted")
  /\ Prepare(p, at[p], Interrupt(file[at[p]]), "recoverWrite")
  /\ UNCHANGED <<shared, lock, fh, local, at, ops>>

\* Mutant: the loop stays at the record both writes raised for.
RecoverFailsAgain(p) ==
  /\ \/ pc[p] = "recover" /\ (~Usable(p) \/ Abandon(p))
     \/ pc[p] = "fallback"
  /\ ~Valid(file[at[p]].status, "interrupted")
  /\ pc' = [pc EXCEPT ![p] = "scan"]
  /\ UNCHANGED <<shared, lock, fh, local, buf, target, at, ops>>

\* Both writes raised: crash_recover_dispatch returns None.
RecoverFails(p) ==
  /\ \/ pc[p] = "recover" /\ (~Usable(p) \/ Abandon(p))
     \/ pc[p] = "fallback"
  /\ ~Valid(file[at[p]].status, "interrupted")
  /\ Done(p)
  /\ pc' = [pc EXCEPT ![p] = "scan"]
  /\ UNCHANGED <<shared, lock, fh, local, buf, target, ops>>

\* The write; resume takes the new status over into its copy.
RecoverWrite(p) ==
  /\ pc[p] = "recoverWrite"
  /\ Replace(buf[p])
  /\ local' = IF p \in Clis
                THEN [local EXCEPT ![p][at[p]].status = buf[p][at[p]].status]
                ELSE local
  /\ Done(p)
  /\ pc' = [pc EXCEPT ![p] = "scan"]
  /\ buf' = [buf EXCEPT ![p] = NoCopy]
  /\ target' = [target EXCEPT ![p] = {}]
  /\ UNCHANGED <<sidecar, alive, lock, fh, ops>>

-----------------------------------------------------------------------------
(* resume_campaign_from_state, after its read. *)

ResumeScan(p) ==
  /\ p \in Clis
  /\ pc[p] = "scan"
  /\ at[p] <= N
  /\ IF local[p][at[p]].status = "running" /\ ~SessionAlive(at[p])
       THEN pc' = [pc EXCEPT ![p] = "recover"] /\ UNCHANGED at
       ELSE Done(p) /\ UNCHANGED pc
  /\ UNCHANGED <<shared, lock, fh, local, buf, target, ops>>

\* Nothing to reset, or called without reset_on_retry: nothing more is written.
ResumeReturns(p) ==
  /\ p \in Clis
  /\ pc[p] = "scan"
  /\ at[p] > N
  /\ lock' = lock \ {p}
  /\ Leaves(p, "idle")
  /\ UNCHANGED <<shared, fh, ops>>

\* Called with reset_on_retry: the caller's copy, failures cleared, becomes the new version.
ResumeResets(p) ==
  /\ p \in Clis
  /\ pc[p] = "scan"
  /\ at[p] > N
  /\ ~ContinueOnFailure
  /\ FailedNames(local[p]) # {}
  /\ buf' = [buf EXCEPT ![p] =
       [n \in Names |-> IF n \in FailedNames(local[p]) THEN Cleared(local[p][n])
                                                       ELSE local[p][n]]]
  /\ target' = [target EXCEPT ![p] = FailedNames(local[p])]
  /\ pc' = [pc EXCEPT ![p] = "lockedWrite"]
  /\ UNCHANGED <<shared, lock, fh, local, at, ops>>

-----------------------------------------------------------------------------
(* _reap_stale_dispatches. *)

ReapOpen(p) ==
  /\ p \in Reapers
  /\ Starts(p)
  /\ fh' = [fh EXCEPT ![p] = inode]
  /\ pc' = [pc EXCEPT ![p] = "flock"]
  /\ UNCHANGED <<shared, lock, local, buf, target, at>>

Holding(q) == pc[q] \in {"scan", "recover", "fallback", "recoverWrite"}

\* flock grants the inode this reaper opened; read_state reads the path.
ReapLock(p) ==
  /\ p \in Reapers
  /\ pc[p] = "flock"
  /\ \A q \in Reapers \ {p} : Holding(q) => fh[q] # fh[p]
  /\ local' = [local EXCEPT ![p] = file]
  /\ at' = [at EXCEPT ![p] = 1]
  /\ pc' = [pc EXCEPT ![p] = "scan"]
  /\ UNCHANGED <<shared, lock, fh, buf, target, ops>>

\* Mutant: the session is not killed before its record is recovered.
ReapScanLive(p) ==
  /\ p \in Reapers
  /\ pc[p] = "scan"
  /\ at[p] <= N
  /\ IF local[p][at[p]].status = "running"
       THEN pc' = [pc EXCEPT ![p] = "recover"] /\ UNCHANGED at
       ELSE Done(p) /\ UNCHANGED pc
  /\ UNCHANGED <<shared, lock, fh, local, buf, target, ops>>

\* A live session with a matching identity is killed; every record is recovered.
ReapScan(p) ==
  /\ p \in Reapers
  /\ pc[p] = "scan"
  /\ at[p] <= N
  /\ IF local[p][at[p]].status = "running"
       THEN /\ alive' = [alive EXCEPT ![at[p]] = FALSE]
            /\ pc' = [pc EXCEPT ![p] = "recover"]
            /\ UNCHANGED at
       ELSE Done(p) /\ UNCHANGED <<alive, pc>>
  /\ UNCHANGED <<file, inode, sidecar, lock, fh, local, buf, target, ops>>

ReapReturns(p) ==
  /\ p \in Reapers
  /\ pc[p] = "scan"
  /\ at[p] > N
  /\ fh' = [fh EXCEPT ![p] = 0]
  /\ Leaves(p, "idle")
  /\ UNCHANGED <<shared, lock, ops>>

-----------------------------------------------------------------------------
(* The environment: L2 sessions write their sidecar and die, processes crash. *)

WriteSidecar(n, content) ==
  /\ alive[n]
  /\ file[n].status = "running"
  /\ sidecar' = [sidecar EXCEPT ![n] = content]
  /\ UNCHANGED <<file, inode, alive, lock, fh, pc, local, buf, target, at, ops>>

SessionDies(n) ==
  /\ alive[n]
  /\ alive' = [alive EXCEPT ![n] = FALSE]
  /\ UNCHANGED <<file, inode, sidecar, lock, fh, pc, local, buf, target, at, ops>>

Crash(p) ==
  /\ pc[p] \notin {"idle", "dead"}
  /\ Leaves(p, "dead")
  /\ lock' = lock \ {p}
  /\ fh' = [q \in Reapers |-> IF q = p THEN 0 ELSE fh[q]]
  /\ UNCHANGED <<shared, ops>>

-----------------------------------------------------------------------------
\* The steps of an operation under way.
Progress(p) ==
  \/ WriteState(p) \/ LockedWrite(p)
  \/ ResumeScan(p) \/ ResumeResets(p) \/ ResumeReturns(p)
  \/ TryResumable(p) \/ TryInterrupted(p) \/ RecoverFails(p) \/ RecoverWrite(p)
  \/ ReapLock(p) \/ ReapScan(p) \/ ReapReturns(p)

Step(p) ==
  \/ \E n \in Names : \/ MarkRunning(p, n)
                      \/ \E record \in Outcomes : AppendDispatchRecord(p, n, record)
                      \/ ResetFailedDispatch(p, n)
                      \/ \E approved \in BOOLEAN : RecordGateOutcome(p, n, approved)
  \/ BeginResume(p) \/ ReapOpen(p)
  \/ Progress(p)

Next ==
  \/ \E p \in Procs : Step(p) \/ Crash(p)
  \/ \E n \in Names : \/ \E content \in {"ok", "corrupt"} : WriteSidecar(n, content)
                      \/ SessionDies(n)

\* A process that has started an operation keeps being scheduled.
Fairness == \A p \in Procs : WF_vars(Progress(p))

Spec == Init /\ [][Next]_vars
FairSpec == Spec /\ Fairness

-----------------------------------------------------------------------------
TypeOK ==
  /\ file \in Content
  /\ inode \in Nat
  /\ sidecar \in [Names -> {"none", "ok", "corrupt"}]
  /\ alive \in [Names -> BOOLEAN]
  /\ lock \in SUBSET Procs
  /\ fh \in [Reapers -> Nat]
  /\ pc \in [Procs -> {"idle", "write", "lockedWrite", "scan", "recover", "fallback",
                       "recoverWrite", "flock", "dead"}]
  /\ local \in [Procs -> Content]
  /\ buf \in [Procs -> Content]
  /\ target \in [Procs -> SUBSET Names]
  /\ at \in [Procs -> 1..(N + 1)]
  /\ ops \in [Procs -> Nat]

Writing(p) == pc[p] \in {"write", "lockedWrite", "recoverWrite"}

(***************************************************************************)
(* No lost update: what a process is about to write differs from the       *)
(* current version only in the records its operation is about, so no write *)
(* undoes what another process wrote since the read.                       *)
(***************************************************************************)
BufferFresh ==
  \A p \in Procs : Writing(p) => \A n \in Names \ target[p] : buf[p][n] = file[n]

(***************************************************************************)
(* Every version of the file follows from the one before by transitions of *)
(* _ALLOWED_TRANSITIONS: validating against the copy that was read amounts *)
(* to validating against the version that is replaced.                     *)
(***************************************************************************)
LegalStep ==
  \A n \in Names : \/ file'[n].status = file[n].status
                   \/ file[n].status = Absent
                   \/ Valid(file[n].status, file'[n].status)

LegalSteps == [][LegalStep]_file

\* A dispatch recorded as succeeded stays so: no write brings it back to life.
SuccessKept ==
  [][\A n \in Names : file[n].status = "success" => file'[n].status = "success"]_file

(***************************************************************************)
(* Recovery keeps progress: a dispatch becomes interrupted (which no       *)
(* transition leaves) only if it was running with nothing to resume from,  *)
(* or with a kill reason that makes resuming futile.                       *)
(***************************************************************************)
ProgressKept ==
  [][\A n \in Names :
       file'[n].status = "interrupted" /\ file[n].status # "interrupted" =>
         /\ file[n].status = "running"
         /\ ~(file[n].sidecar /\ sidecar[n] = "ok") \/ file[n].kill = "abandon"]_file

\* Recovery leaves the record of a live session alone (the reaper kills first).
LiveKept ==
  [][\A n \in Names :
       file[n].status = "running" /\ alive[n] =>
         file'[n].status \notin {"interrupted", "resumable"}]_file

(***************************************************************************)
(* Under the lock discipline (every process takes the .lock file for its   *)
(* whole read-modify-write) the holder's copies are the current version,   *)
(* and what it is about to write is one legal move away.  This is the      *)
(* inductive form of BufferFresh, LegalSteps, ProgressKept and LiveKept.   *)
(***************************************************************************)
LockDiscipline == Reapers = {} /\ Unlocked = {}

Locked(p) == pc[p] \in {"lockedWrite", "scan", "recover", "recoverWrite"}

RecoveryPrepared(p) ==
  /\ target[p] = {at[p]}
  /\ \/ /\ buf[p] = [file EXCEPT ![at[p]] = Resumable(file[at[p]])]
        /\ file[at[p]].sidecar
     \/ /\ buf[p] = [file EXCEPT ![at[p]] = Interrupt(file[at[p]])]
        /\ ~(file[at[p]].sidecar /\ sidecar[at[p]] = "ok") \/ file[at[p]].kill = "abandon"

LockedWritePrepared(p) ==
  /\ \A n \in Names \ target[p] : buf[p][n] = file[n]
  /\ \/ \A n \in target[p] : file[n].status = "failure" /\ buf[p][n].status = "pending"
     \/ \E n \in Names : /\ target[p] = {n}
                         /\ file[n].status = "pending"
                         /\ buf[p][n].status \in {"success", "failure"}

HolderOK(p) ==
  /\ pc[p] \in {"idle", "dead"} \/ Locked(p)
  /\ Locked(p) => lock = {p}
  /\ pc[p] \in {"scan", "recover", "recoverWrite"} => p \in Clis /\ local[p] = file
  /\ pc[p] \in {"recover", "recoverWrite"} =>
       at[p] \in Names /\ file[at[p]].status = "running" /\ ~alive[at[p]]
  /\ pc[p] = "recoverWrite" => RecoveryPrepared(p)
  /\ pc[p] = "lockedWrite" => LockedWritePrepared(p)

LockedInv == \A p \in Procs : HolderOK(p)

\* The statuses a reader of the file sees implement the abstract ledger.
Ledger == INSTANCE DispatchLedger WITH status <- [n \in Names |-> file[n].status]
ImplementsLedger == Ledger!Spec

\* Every operation that is started returns, unless its process dies.
OperationsReturn == \A p \in Procs : pc[p] # "idle" ~> pc[p] \in {"idle", "dead"}

\* A recovery interrupts or suspends a dispatch only with a cause: its session is
\* dead, and what could be resumed is kept.
RecoveryJust ==
  [][\A n \in Names :
       /\ file'[n].status = "interrupted" /\ file[n].status # "interrupted" =>
            /\ file[n].status = "running"
            /\ ~(file[n].sidecar /\ sidecar[n] = "ok") \/ file[n].kill = "abandon"
       /\ file[n].status = "running" /\ alive[n] =>
            file'[n].status \notin {"interrupted", "resumable"}]_file
=============================================================================
