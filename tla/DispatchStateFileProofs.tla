----------------------- MODULE DispatchStateFileProofs -----------------------
(***************************************************************************)
(* Proofs about DispatchStateFile for any number of dispatches and         *)
(* processes.  The type invariant needs no assumption on who runs.  The    *)
(* other theorems assume the lock discipline: no reaper, and no server     *)
(* running the operations that take no lock; that this assumption is       *)
(* needed is what the violation runs show.                                 *)
(***************************************************************************)
EXTENDS MCFleet, TLAPS

-----------------------------------------------------------------------------
(* Records. *)

LEMMA RecordType ==
  ASSUME NEW s \in Statuses \cup {Absent}, NEW reason \in Reasons, NEW kill \in KillReasons
  PROVE  Record(s, reason, kill) \in DispatchRecord
BY DEF Record, DispatchRecord

LEMMA BlankType ==
  ASSUME NEW s \in Statuses \cup {Absent}
  PROVE  Blank(s) \in DispatchRecord
BY RecordType DEF Blank, Reasons, KillReasons

LEMMA RecordTypes ==
  ASSUME NEW r \in DispatchRecord
  PROVE  /\ Cleared(r) \in DispatchRecord
         /\ RunningRecord(r) \in DispatchRecord
         /\ Interrupt(r) \in DispatchRecord
         /\ Resumable(r) \in DispatchRecord
BY DEF Cleared, RunningRecord, Interrupt, Resumable, DispatchRecord, Statuses,
       Reasons

LEMMA OutcomesType == Outcomes \subseteq DispatchRecord
BY RecordType, BlankType DEF Outcomes, Statuses, Reasons, KillReasons

LEMMA LeftBehindType == LeftBehind \subseteq DispatchRecord
<1>1. Blank("pending") \in DispatchRecord
  BY BlankType DEF Statuses
<1>2. Record("pending", "", "abandon") \in DispatchRecord
  BY RecordType DEF Statuses, Reasons, KillReasons
<1> QED BY <1>1, <1>2, RecordTypes, OutcomesType DEF LeftBehind

LEMMA NoCopyType == NoCopy \in Content
BY BlankType DEF NoCopy, Content

LEMMA InitType == Init => TypeOK
<1> SUFFICES ASSUME Init PROVE TypeOK
  OBVIOUS
<1>1. file \in Content
  <2>1. PICK left \in [1..Manifest -> LeftBehind] :
          file = [n \in Names |-> IF n <= Manifest THEN left[n] ELSE Blank(Absent)]
    BY DEF Init
  <2>2. ASSUME NEW n \in Names
        PROVE  (IF n <= Manifest THEN left[n] ELSE Blank(Absent)) \in DispatchRecord
    BY <2>2, CountAssumption, LeftBehindType, BlankType DEF Names
  <2> QED BY <2>1, <2>2 DEF Content
<1> QED BY <1>1, NoCopyType, CountAssumption DEF Init, TypeOK, Names

LEMMA PrepareType ==
  ASSUME TypeOK, NEW p \in Procs, NEW n \in Names, NEW record \in DispatchRecord,
         NEW next, Prepare(p, n, record, next)
  PROVE  buf' \in [Procs -> Content] /\ target' \in [Procs -> SUBSET Names]
BY DEF TypeOK, Prepare, Content

LEMMA LeavesType ==
  ASSUME TypeOK, NEW p \in Procs, NEW where \in {"idle", "dead"}, Leaves(p, where)
  PROVE  /\ local' \in [Procs -> Content]
         /\ buf' \in [Procs -> Content]
         /\ target' \in [Procs -> SUBSET Names]
         /\ at' \in [Procs -> 1..(N + 1)]
         /\ pc' \in [Procs -> {"idle", "write", "lockedWrite", "scan", "recover",
                               "fallback", "recoverWrite", "flock", "dead"}]
BY NoCopyType, CountAssumption DEF TypeOK, Leaves

-----------------------------------------------------------------------------
(* The type invariant is preserved by every action. *)

\* A process in the middle of a recovery is at a record of the list.
LoopOK == \A p \in Procs : pc[p] \in {"recover", "fallback", "recoverWrite"} => at[p] \in Names

LEMMA TypeStep == TypeOK /\ LoopOK /\ [Next]_vars => TypeOK'
<1> SUFFICES ASSUME TypeOK, LoopOK, [Next]_vars PROVE TypeOK'
  OBVIOUS
<1> USE CountAssumption DEF Names
<1>1. ASSUME NEW p \in Procs, NEW n \in Names, MarkRunning(p, n) PROVE TypeOK'
  <2>1. file[n] \in DispatchRecord
    BY DEF TypeOK, Content
  <2>2. buf' \in [Procs -> Content] /\ target' \in [Procs -> SUBSET Names]
    BY <1>1, <2>1, RecordTypes, PrepareType DEF MarkRunning
  <2> QED BY <1>1, <2>2 DEF MarkRunning, Starts, Prepare, TypeOK
<1>2. ASSUME NEW p \in Procs, NEW n \in Names, NEW record \in Outcomes,
             AppendDispatchRecord(p, n, record)
      PROVE  TypeOK'
  <2>1. buf' \in [Procs -> Content] /\ target' \in [Procs -> SUBSET Names]
    BY <1>2, OutcomesType, PrepareType DEF AppendDispatchRecord
  <2> QED BY <1>2, <2>1 DEF AppendDispatchRecord, Starts, Prepare, TypeOK, shared
<1>3. ASSUME NEW p \in Procs, NEW n \in Names, ResetFailedDispatch(p, n) PROVE TypeOK'
  <2>1. file[n] \in DispatchRecord
    BY DEF TypeOK, Content
  <2>2. buf' \in [Procs -> Content] /\ target' \in [Procs -> SUBSET Names]
    BY <1>3, <2>1, RecordTypes, PrepareType DEF ResetFailedDispatch
  <2> QED BY <1>3, <2>2 DEF ResetFailedDispatch, Acquires, Starts, Prepare, TypeOK, shared
<1>4. ASSUME NEW p \in Procs, NEW n \in Names, NEW approved \in BOOLEAN,
             RecordGateOutcome(p, n, approved)
      PROVE  TypeOK'
  <2>1. Blank("success") \in DispatchRecord /\ Record("failure", "logic", "") \in DispatchRecord
    BY BlankType, RecordType DEF Statuses, Reasons, KillReasons
  <2>2. buf' \in [Procs -> Content] /\ target' \in [Procs -> SUBSET Names]
    BY <1>4, <2>1, PrepareType DEF RecordGateOutcome
  <2>3. pc' = [pc EXCEPT ![p] = "lockedWrite"]
    BY <1>4 DEF RecordGateOutcome, Prepare
  <2>4. ops' = [ops EXCEPT ![p] = @ + 1] /\ lock' = {p}
    BY <1>4 DEF RecordGateOutcome, Acquires, Starts
  <2>5. UNCHANGED <<shared, fh, local, at>>
    BY <1>4 DEF RecordGateOutcome
  <2> QED BY <2>2, <2>3, <2>4, <2>5 DEF TypeOK, shared
<1>5. ASSUME NEW p \in Procs, BeginResume(p) PROVE TypeOK'
  BY <1>5 DEF BeginResume, Acquires, Starts, TypeOK, shared
<1>6. ASSUME NEW p \in Procs, ReapOpen(p) PROVE TypeOK'
  BY <1>6 DEF ReapOpen, Starts, TypeOK, shared
<1>7. ASSUME NEW p \in Procs, WriteState(p) PROVE TypeOK'
  BY <1>7, LeavesType DEF WriteState, Replace, TypeOK
<1>8. ASSUME NEW p \in Procs, LockedWrite(p) PROVE TypeOK'
  BY <1>8, LeavesType DEF LockedWrite, Replace, TypeOK
<1>9. ASSUME NEW p \in Procs, ResumeScan(p) PROVE TypeOK'
  <2>1. pc' \in [Procs -> {"idle", "write", "lockedWrite", "scan", "recover",
                           "fallback", "recoverWrite", "flock", "dead"}]
    BY <1>9 DEF ResumeScan, TypeOK
  <2>2. at' \in [Procs -> 1..(N + 1)]
    <3>1. at[p] \in 1..N /\ at[p] + 1 \in 1..(N + 1)
      BY <1>9 DEF ResumeScan, TypeOK
    <3>2. at' = at \/ at' = [at EXCEPT ![p] = at[p] + 1]
      BY <1>9 DEF ResumeScan, Done
    <3> QED BY <3>1, <3>2 DEF TypeOK
  <2> QED BY <1>9, <2>1, <2>2 DEF ResumeScan, TypeOK, shared
<1>10. ASSUME NEW p \in Procs, ResumeResets(p) PROVE TypeOK'
  <2>1. [n \in Names |-> IF n \in FailedNames(local[p]) THEN Cleared(local[p][n])
                                                        ELSE local[p][n]] \in Content
    BY RecordTypes DEF TypeOK, Content
  <2>2. FailedNames(local[p]) \subseteq Names
    BY DEF TypeOK, Content, FailedNames
  <2> QED BY <1>10, <2>1, <2>2 DEF ResumeResets, TypeOK, shared
<1>11. ASSUME NEW p \in Procs, ResumeReturns(p) PROVE TypeOK'
  BY <1>11, LeavesType DEF ResumeReturns, TypeOK, shared
<1>12. ASSUME NEW p \in Procs, TryResumable(p) PROVE TypeOK'
  <2> at[p] \in Names
    BY <1>12 DEF TryResumable, LoopOK
  <2>1. file[at[p]] \in DispatchRecord
    BY <1>12 DEF TypeOK, Content
  <2>2. buf' \in [Procs -> Content] /\ target' \in [Procs -> SUBSET Names]
    BY <1>12, <2>1, RecordTypes, PrepareType DEF TryResumable, TypeOK
  <2> QED BY <1>12, <2>2 DEF TryResumable, Prepare, TypeOK, shared
<1>13. ASSUME NEW p \in Procs, TryInterrupted(p) PROVE TypeOK'
  <2> at[p] \in Names
    BY <1>13 DEF TryInterrupted, LoopOK
  <2>1. file[at[p]] \in DispatchRecord
    BY <1>13 DEF TypeOK, Content
  <2>2. buf' \in [Procs -> Content] /\ target' \in [Procs -> SUBSET Names]
    BY <1>13, <2>1, RecordTypes, PrepareType DEF TryInterrupted, TypeOK
  <2> QED BY <1>13, <2>2 DEF TryInterrupted, Prepare, TypeOK, shared
<1>14. ASSUME NEW p \in Procs, RecoverFails(p) PROVE TypeOK'
  <2> at[p] \in Names
    BY <1>14 DEF RecoverFails, LoopOK
  <2> QED BY <1>14 DEF RecoverFails, Done, TypeOK, shared
<1>15. ASSUME NEW p \in Procs, RecoverWrite(p) PROVE TypeOK'
  <2> at[p] \in Names
    BY <1>15 DEF RecoverWrite, LoopOK
  <2>1. local' \in [Procs -> Content]
    <3> DEFINE status == buf[p][at[p]].status
               updated == [local[p] EXCEPT ![at[p]] = [@ EXCEPT !.status = status]]
    <3>1. status \in Statuses \cup {Absent}
      BY <1>15 DEF TypeOK, Content, DispatchRecord
    <3>2. local[p] \in Content /\ local[p][at[p]] \in DispatchRecord
      BY <1>15 DEF TypeOK, Content
    <3>3. [local[p][at[p]] EXCEPT !.status = status] \in DispatchRecord
      BY <3>1, <3>2 DEF DispatchRecord
    <3>4. updated \in Content
      BY <3>2, <3>3 DEF Content
    <3>5. local' = [local EXCEPT ![p] = updated] \/ local' = local
      BY <1>15 DEF RecoverWrite, TypeOK
    <3> QED BY <3>4, <3>5 DEF TypeOK
  <2> QED BY <1>15, <2>1, NoCopyType DEF RecoverWrite, Replace, Done, TypeOK
<1>16. ASSUME NEW p \in Procs, ReapLock(p) PROVE TypeOK'
  BY <1>16 DEF ReapLock, TypeOK, shared
<1>17. ASSUME NEW p \in Procs, ReapScan(p) PROVE TypeOK'
  <2>1. pc' \in [Procs -> {"idle", "write", "lockedWrite", "scan", "recover",
                           "fallback", "recoverWrite", "flock", "dead"}]
    BY <1>17 DEF ReapScan, TypeOK
  <2>2. at' \in [Procs -> 1..(N + 1)]
    <3>1. at[p] \in 1..N /\ at[p] + 1 \in 1..(N + 1)
      BY <1>17 DEF ReapScan, TypeOK
    <3>2. at' = at \/ at' = [at EXCEPT ![p] = at[p] + 1]
      BY <1>17 DEF ReapScan, Done
    <3> QED BY <3>1, <3>2 DEF TypeOK
  <2>3. alive' \in [Names -> BOOLEAN]
    BY <1>17 DEF ReapScan, TypeOK
  <2> QED BY <1>17, <2>1, <2>2, <2>3 DEF ReapScan, TypeOK
<1>18. ASSUME NEW p \in Procs, ReapReturns(p) PROVE TypeOK'
  BY <1>18, LeavesType DEF ReapReturns, TypeOK, shared
<1>19. ASSUME NEW p \in Procs, Crash(p) PROVE TypeOK'
  BY <1>19, LeavesType DEF Crash, TypeOK, shared
<1>20. ASSUME NEW n \in Names, NEW content \in {"ok", "corrupt"}, WriteSidecar(n, content)
       PROVE  TypeOK'
  BY <1>20 DEF WriteSidecar, TypeOK
<1>21. ASSUME NEW n \in Names, SessionDies(n) PROVE TypeOK'
  BY <1>21 DEF SessionDies, TypeOK
<1>22. CASE UNCHANGED vars
  BY <1>22 DEF vars, TypeOK
<1> QED BY <1>1, <1>2, <1>3, <1>4, <1>5, <1>6, <1>7, <1>8, <1>9, <1>10, <1>11, <1>12,
           <1>13, <1>14, <1>15, <1>16, <1>17, <1>18, <1>19, <1>20, <1>21, <1>22
        DEF Next, Step, Progress

LEMMA LoopStep == TypeOK /\ LoopOK /\ [Next]_vars => LoopOK'
<1> SUFFICES ASSUME TypeOK, LoopOK, [Next]_vars,
                    NEW q \in Procs, pc'[q] \in {"recover", "fallback", "recoverWrite"}
             PROVE  at'[q] \in Names
  BY DEF LoopOK
<1> USE CountAssumption DEF Names
<1>1. CASE pc'[q] = pc[q] /\ at'[q] = at[q]
  BY <1>1 DEF LoopOK
<1>2. ASSUME NEW p \in Procs, ResumeScan(p) \/ ReapScan(p) PROVE at'[q] \in Names
  <2>1. CASE q # p
    BY <1>1, <1>2, <2>1 DEF ResumeScan, ReapScan, Done, TypeOK
  <2>2. CASE q = p
    <3>1. pc'[p] # pc[p] => UNCHANGED at /\ at[p] \in Names
      BY <1>2 DEF ResumeScan, ReapScan, TypeOK
    <3>2. pc[p] = "scan"
      BY <1>2 DEF ResumeScan, ReapScan
    <3> QED BY <2>2, <3>1, <3>2
  <2> QED BY <2>1, <2>2
<1>3. ASSUME NEW p \in Procs, TryResumable(p) \/ TryInterrupted(p) PROVE at'[q] \in Names
  BY <1>3 DEF TryResumable, TryInterrupted, Prepare, TypeOK, LoopOK
<1>4. ASSUME NEW p \in Procs, RecoverFails(p) \/ RecoverWrite(p) PROVE at'[q] \in Names
  BY <1>4 DEF RecoverFails, RecoverWrite, Done, TypeOK, LoopOK
<1>5. ASSUME NEW p \in Procs,
             \/ WriteState(p) \/ LockedWrite(p) \/ ResumeReturns(p) \/ ReapReturns(p) \/ Crash(p)
      PROVE  at'[q] \in Names
  BY <1>5 DEF WriteState, LockedWrite, ResumeReturns, ReapReturns, Crash, Leaves, TypeOK, LoopOK
<1>6. ASSUME NEW p \in Procs, \/ BeginResume(p) \/ ReapOpen(p) \/ ReapLock(p) \/ ResumeResets(p)
      PROVE  at'[q] \in Names
  BY <1>6 DEF BeginResume, ReapOpen, ReapLock, ResumeResets, TypeOK, LoopOK
<1>7. ASSUME NEW p \in Procs, NEW n \in Names,
             \/ MarkRunning(p, n)
             \/ \E record \in Outcomes : AppendDispatchRecord(p, n, record)
             \/ ResetFailedDispatch(p, n)
             \/ \E approved \in BOOLEAN : RecordGateOutcome(p, n, approved)
      PROVE  at'[q] \in Names
  BY <1>7 DEF MarkRunning, AppendDispatchRecord, ResetFailedDispatch, RecordGateOutcome,
              Prepare, TypeOK, LoopOK
<1>8. ASSUME NEW n \in Names,
             (\E content \in {"ok", "corrupt"} : WriteSidecar(n, content)) \/ SessionDies(n)
      PROVE  at'[q] \in Names
  BY <1>8, <1>1 DEF WriteSidecar, SessionDies
<1>9. CASE UNCHANGED vars
  BY <1>9, <1>1 DEF vars
<1> QED BY <1>2, <1>3, <1>4, <1>5, <1>6, <1>7, <1>8, <1>9 DEF Next, Step, Progress

(***************************************************************************)
(* Every reachable state is well typed: in particular no writer, however   *)
(* it races, leaves a record outside DispatchRecord in the file.           *)
(***************************************************************************)
THEOREM TypeCorrect == Spec => []TypeOK
<1>1. Init => TypeOK /\ LoopOK
  BY InitType DEF Init, LoopOK
<1>2. TypeOK /\ LoopOK /\ [Next]_vars => (TypeOK /\ LoopOK)'
  BY TypeStep, LoopStep
<1> QED BY <1>1, <1>2, PTL DEF Spec

-----------------------------------------------------------------------------
(* The lock discipline. *)

\* A process starts a locked operation, or is already inside one.
LEMMA ActorHoldsLock ==
  ASSUME LockDiscipline, TypeOK, LockedInv, NEW p \in Procs, Step(p) \/ Crash(p)
  PROVE  /\ lock = {} \/ lock = {p}
         /\ \A q \in Procs \ {p} : pc'[q] = pc[q]
<1>1. ASSUME NEW n \in Names,
             \/ MarkRunning(p, n)
             \/ \E record \in Outcomes : AppendDispatchRecord(p, n, record)
      PROVE  FALSE
  BY <1>1 DEF LockDiscipline, MarkRunning, AppendDispatchRecord
<1>2. ASSUME NEW n \in Names,
             \/ ResetFailedDispatch(p, n)
             \/ \E approved \in BOOLEAN : RecordGateOutcome(p, n, approved)
      PROVE  lock = {} /\ \A q \in Procs \ {p} : pc'[q] = pc[q]
  BY <1>2 DEF ResetFailedDispatch, RecordGateOutcome, Acquires, Prepare, TypeOK
<1>3. ASSUME BeginResume(p)
      PROVE  lock = {} /\ \A q \in Procs \ {p} : pc'[q] = pc[q]
  BY <1>3 DEF BeginResume, Acquires, TypeOK
<1>4. ASSUME ReapOpen(p) \/ ReapLock(p) \/ ReapScan(p) \/ ReapReturns(p) PROVE FALSE
  BY <1>4 DEF LockDiscipline, ReapOpen, ReapLock, ReapScan, ReapReturns
<1>5. ASSUME \/ WriteState(p) \/ LockedWrite(p) \/ ResumeScan(p) \/ ResumeResets(p)
             \/ ResumeReturns(p) \/ TryResumable(p) \/ TryInterrupted(p)
             \/ RecoverFails(p) \/ RecoverWrite(p) \/ Crash(p)
      PROVE  pc[p] \notin {"idle", "dead"} /\ \A q \in Procs \ {p} : pc'[q] = pc[q]
  BY <1>5 DEF WriteState, LockedWrite, ResumeScan, ResumeResets, ResumeReturns, TryResumable,
              TryInterrupted, RecoverFails, RecoverWrite, Crash, Leaves, Prepare, TypeOK
<1>6. pc[p] \notin {"idle", "dead"} => lock = {p}
  BY DEF LockedInv, HolderOK
<1> QED BY <1>1, <1>2, <1>3, <1>4, <1>5, <1>6 DEF Step, Progress

LEMMA OthersOutside ==
  ASSUME LockDiscipline, TypeOK, LockedInv, NEW p \in Procs, Step(p) \/ Crash(p),
         NEW q \in Procs, q # p
  PROVE  HolderOK(q)'
<1>1. pc[q] \in {"idle", "dead"}
  BY ActorHoldsLock DEF LockedInv, HolderOK
<1>2. pc'[q] \in {"idle", "dead"}
  BY <1>1, ActorHoldsLock
<1> QED BY <1>2 DEF HolderOK, Locked

\* The actor's own part of the invariant, one step per action it can take.
LEMMA ActorOK ==
  ASSUME LockDiscipline, TypeOK, LockedInv, NEW p \in Procs, Step(p) \/ Crash(p)
  PROVE  HolderOK(p)'
<1> USE CountAssumption DEF Names
<1>0. HolderOK(p)
  BY DEF LockedInv
<1>1. ASSUME NEW n \in Names, ResetFailedDispatch(p, n) PROVE HolderOK(p)'
  <2>1. /\ buf'[p] = [file EXCEPT ![n] = Cleared(file[n])]
        /\ target'[p] = {n}
        /\ pc'[p] = "lockedWrite"
        /\ file' = file /\ lock' = {p} /\ file[n].status = "failure"
    BY <1>1 DEF ResetFailedDispatch, Acquires, Prepare, TypeOK, shared
  <2>2. file \in Content /\ file[n] \in DispatchRecord
    BY DEF TypeOK, Content
  <2>3. buf'[p][n].status = "pending" /\ \A m \in Names \ {n} : buf'[p][m] = file[m]
    <3>1. Cleared(file[n]).status = "pending"
      BY DEF Cleared
    <3> QED BY <2>1, <2>2, <3>1 DEF Content
  <2> QED BY <2>1, <2>3 DEF HolderOK, Locked, LockedWritePrepared
<1>2. ASSUME NEW n \in Names, NEW approved \in BOOLEAN, RecordGateOutcome(p, n, approved)
      PROVE  HolderOK(p)'
  <2> DEFINE record == IF approved THEN Blank("success") ELSE Record("failure", "logic", "")
  <2>1. Prepare(p, n, record, "lockedWrite")
    BY <1>2 DEF RecordGateOutcome, Acquires
  <2>2. file' = file /\ lock' = {p} /\ file[n].status = "pending"
    BY <1>2 DEF RecordGateOutcome, Acquires, shared
  <2>3. record.status \in {"success", "failure"}
    BY DEF Blank, Record
  <2>4. /\ buf'[p] = [file EXCEPT ![n] = record]
        /\ target'[p] = {n}
        /\ pc'[p] = "lockedWrite"
    <3> HIDE DEF record
    <3> QED BY <2>1 DEF Prepare, TypeOK
  <2>5. buf'[p][n].status \in {"success", "failure"} /\ \A m \in Names \ {n} : buf'[p][m] = file[m]
    <3> HIDE DEF record
    <3> QED BY <2>3, <2>4 DEF TypeOK, Content
  <2> HIDE DEF record
  <2> QED BY <2>2, <2>4, <2>5 DEF HolderOK, Locked, LockedWritePrepared
<1>3. ASSUME BeginResume(p) PROVE HolderOK(p)'
  BY <1>3 DEF BeginResume, Acquires, HolderOK, Locked, TypeOK, shared
<1>4. ASSUME ResumeScan(p) PROVE HolderOK(p)'
  <2>1. /\ lock = {p} /\ p \in Clis /\ local[p] = file
        /\ UNCHANGED <<file, alive, lock, local>>
    BY <1>0, <1>4 DEF ResumeScan, SessionAlive, HolderOK, Locked, shared
  <2>2. CASE local[p][at[p]].status = "running" /\ ~alive[at[p]]
    <3>1. pc'[p] = "recover" /\ at'[p] = at[p] /\ at[p] \in Names
      BY <1>4, <2>2 DEF ResumeScan, SessionAlive, TypeOK
    <3> QED BY <2>1, <2>2, <3>1 DEF HolderOK, Locked
  <2>3. CASE ~(local[p][at[p]].status = "running" /\ ~alive[at[p]])
    <3>1. pc'[p] = "scan"
      BY <1>4, <2>3 DEF ResumeScan, SessionAlive
    <3> QED BY <2>1, <3>1 DEF HolderOK, Locked
  <2> QED BY <2>2, <2>3
<1>5. ASSUME ResumeResets(p) PROVE HolderOK(p)'
  <2>1. lock = {p} /\ local[p] = file
    BY <1>0, <1>5 DEF ResumeResets, HolderOK, Locked
  <2>2. /\ buf'[p] = [n \in Names |-> IF n \in FailedNames(file) THEN Cleared(file[n])
                                                               ELSE file[n]]
        /\ target'[p] = FailedNames(file)
        /\ pc'[p] = "lockedWrite" /\ UNCHANGED <<file, lock>>
    BY <1>5, <2>1 DEF ResumeResets, TypeOK, shared
  <2>3. ASSUME NEW n \in FailedNames(file)
        PROVE  file[n].status = "failure" /\ buf'[p][n].status = "pending"
    <3>1. file[n].status = "failure" /\ n \in Names /\ file[n] \in DispatchRecord
      BY DEF FailedNames, TypeOK, Content
    <3>2. Cleared(file[n]).status = "pending"
      BY <3>1 DEF Cleared, DispatchRecord
    <3> QED BY <2>2, <3>1, <3>2
  <2>4. \A n \in Names \ FailedNames(file) : buf'[p][n] = file[n]
    BY <2>2
  <2> QED BY <2>1, <2>2, <2>3, <2>4 DEF HolderOK, Locked, LockedWritePrepared
<1>6. ASSUME TryResumable(p) PROVE HolderOK(p)'
  <2>1. /\ lock = {p} /\ p \in Clis /\ local[p] = file
        /\ at[p] \in Names /\ file[at[p]].status = "running" /\ ~alive[at[p]]
    BY <1>0, <1>6 DEF TryResumable, HolderOK, Locked
  <2>2. Prepare(p, at[p], Resumable(file[at[p]]), "recoverWrite")
    BY <1>6, <2>1 DEF TryResumable, Valid, AllowedTransitions
  <2>3. UNCHANGED <<file, sidecar, alive, lock, local, at>>
    BY <1>6 DEF TryResumable, shared
  <2>4. /\ buf'[p] = [file EXCEPT ![at[p]] = Resumable(file[at[p]])]
        /\ target'[p] = {at[p]} /\ pc'[p] = "recoverWrite"
    BY <2>2 DEF Prepare, TypeOK
  <2>5. file[at[p]].sidecar
    BY <1>6, <2>1 DEF TryResumable, Usable
  <2> QED BY <2>1, <2>3, <2>4, <2>5 DEF HolderOK, Locked, RecoveryPrepared
<1>7. ASSUME TryInterrupted(p) PROVE HolderOK(p)'
  <2>1. /\ lock = {p} /\ p \in Clis /\ local[p] = file
        /\ at[p] \in Names /\ file[at[p]].status = "running" /\ ~alive[at[p]]
    BY <1>0, <1>7 DEF TryInterrupted, HolderOK, Locked
  <2>2. ~Usable(p) \/ Abandon(p)
    BY <1>0, <1>7 DEF TryInterrupted, HolderOK, Locked
  <2>3. ~(file[at[p]].sidecar /\ sidecar[at[p]] = "ok") \/ file[at[p]].kill = "abandon"
    BY <2>1, <2>2 DEF Usable, Abandon
  <2>4. UNCHANGED <<file, sidecar, alive, lock, local, at>>
    BY <1>7 DEF TryInterrupted, shared
  <2>5. /\ buf'[p] = [file EXCEPT ![at[p]] = Interrupt(file[at[p]])]
        /\ target'[p] = {at[p]} /\ pc'[p] = "recoverWrite"
    BY <1>7 DEF TryInterrupted, Prepare, TypeOK
  <2> QED BY <2>1, <2>3, <2>4, <2>5 DEF HolderOK, Locked, RecoveryPrepared
<1>8. ASSUME RecoverFails(p) PROVE FALSE
  BY <1>0, <1>8 DEF RecoverFails, HolderOK, Locked, Valid, AllowedTransitions
<1>9. ASSUME RecoverWrite(p) PROVE HolderOK(p)'
  <2>1. /\ lock = {p} /\ p \in Clis /\ local[p] = file
        /\ at[p] \in Names /\ RecoveryPrepared(p)
    BY <1>0, <1>9 DEF RecoverWrite, HolderOK, Locked
  <2>2. file' = buf[p] /\ pc'[p] = "scan" /\ lock' = lock
    BY <1>9 DEF RecoverWrite, Replace, TypeOK
  <2>3. local'[p] = [file EXCEPT ![at[p]] = [@ EXCEPT !.status = buf[p][at[p]].status]]
    BY <1>9, <2>1 DEF RecoverWrite, TypeOK
  <2>4. buf[p] = [file EXCEPT ![at[p]] = [@ EXCEPT !.status = buf[p][at[p]].status]]
    <3>1. file \in Content /\ file[at[p]] \in DispatchRecord
      BY <2>1 DEF TypeOK, Content
    <3>2. ASSUME NEW r \in DispatchRecord, r.sidecar
          PROVE  Resumable(r) = [r EXCEPT !.status = "resumable"]
      BY <3>2 DEF Resumable, DispatchRecord
    <3>3. PICK s \in {"resumable", "interrupted"} :
            buf[p] = [file EXCEPT ![at[p]] = [file[at[p]] EXCEPT !.status = s]]
      BY <2>1, <3>1, <3>2 DEF RecoveryPrepared, Interrupt
    <3>4. buf[p][at[p]].status = s
      BY <2>1, <3>1, <3>3 DEF Content, DispatchRecord
    <3> QED BY <3>3, <3>4
  <2> QED BY <2>1, <2>2, <2>3, <2>4 DEF HolderOK, Locked
<1>10. ASSUME LockedWrite(p) \/ ResumeReturns(p) \/ Crash(p) PROVE HolderOK(p)'
  BY <1>10 DEF LockedWrite, ResumeReturns, Crash, Leaves, HolderOK, Locked, TypeOK
<1>11. ASSUME \/ \E n \in Names : \/ MarkRunning(p, n)
                                  \/ \E record \in Outcomes : AppendDispatchRecord(p, n, record)
              \/ ReapOpen(p) \/ ReapLock(p) \/ ReapScan(p) \/ ReapReturns(p)
       PROVE  FALSE
  BY <1>11 DEF LockDiscipline, MarkRunning, AppendDispatchRecord, ReapOpen, ReapLock,
               ReapScan, ReapReturns
<1>12. ASSUME WriteState(p) PROVE FALSE
  BY <1>0, <1>12 DEF WriteState, HolderOK, Locked
<1> QED BY <1>1, <1>2, <1>3, <1>4, <1>5, <1>6, <1>7, <1>8, <1>9, <1>10, <1>11, <1>12
        DEF Step, Progress

LEMMA InitLocked == Init => LockedInv
BY DEF Init, LockedInv, HolderOK, Locked

\* A session never writes to its sidecar once it is dead, which is all recovery reads.
LEMMA LockedStep ==
  ASSUME LockDiscipline, TypeOK, LockedInv, [Next]_vars
  PROVE  LockedInv'
<1>1. ASSUME NEW p \in Procs, Step(p) \/ Crash(p) PROVE LockedInv'
  BY <1>1, ActorOK, OthersOutside DEF LockedInv
<1>2. ASSUME NEW n \in Names, NEW content \in {"ok", "corrupt"}, WriteSidecar(n, content)
      PROVE  LockedInv'
  <2> SUFFICES ASSUME NEW q \in Procs PROVE HolderOK(q)'
    BY DEF LockedInv
  <2>1. HolderOK(q)
    BY DEF LockedInv
  <2>2. /\ UNCHANGED <<file, alive, lock, pc, local, buf, target, at>>
        /\ alive[n] /\ sidecar' = [sidecar EXCEPT ![n] = content]
    BY <1>2 DEF WriteSidecar
  <2>3. pc[q] = "recoverWrite" => sidecar'[at[q]] = sidecar[at[q]]
    BY <2>1, <2>2 DEF HolderOK, TypeOK
  <2>4. pc[q] = "recoverWrite" => RecoveryPrepared(q)'
    BY <2>1, <2>2, <2>3 DEF HolderOK, RecoveryPrepared
  <2>5. pc[q] = "lockedWrite" => LockedWritePrepared(q)'
    BY <2>1, <2>2 DEF HolderOK, LockedWritePrepared
  <2> QED BY <2>1, <2>2, <2>4, <2>5 DEF HolderOK, Locked
<1>3. ASSUME NEW n \in Names, SessionDies(n) PROVE LockedInv'
  <2> SUFFICES ASSUME NEW q \in Procs PROVE HolderOK(q)'
    BY DEF LockedInv
  <2>1. HolderOK(q)
    BY DEF LockedInv
  <2>2. /\ UNCHANGED <<file, sidecar, lock, pc, local, buf, target, at>>
        /\ alive' = [alive EXCEPT ![n] = FALSE]
    BY <1>3 DEF SessionDies
  <2>3. \A m \in Names : ~alive[m] => ~alive'[m]
    BY <2>2 DEF TypeOK
  <2>4. pc[q] = "recoverWrite" => RecoveryPrepared(q)'
    BY <2>1, <2>2 DEF HolderOK, RecoveryPrepared
  <2>5. pc[q] = "lockedWrite" => LockedWritePrepared(q)'
    BY <2>1, <2>2 DEF HolderOK, LockedWritePrepared
  <2> QED BY <2>1, <2>2, <2>3, <2>4, <2>5 DEF HolderOK, Locked
<1>4. CASE UNCHANGED vars
  <2> SUFFICES ASSUME NEW q \in Procs PROVE HolderOK(q)'
    BY DEF LockedInv
  <2>1. HolderOK(q)
    BY DEF LockedInv
  <2>2. pc[q] = "recoverWrite" => RecoveryPrepared(q)'
    BY <1>4, <2>1 DEF HolderOK, RecoveryPrepared, vars
  <2>3. pc[q] = "lockedWrite" => LockedWritePrepared(q)'
    BY <1>4, <2>1 DEF HolderOK, LockedWritePrepared, vars
  <2> QED BY <1>4, <2>1, <2>2, <2>3 DEF HolderOK, Locked, vars
<1> QED BY <1>1, <1>2, <1>3, <1>4 DEF Next

\* What a step does to the file when every process keeps to the lock.
Unwritten == file' = file
Recovered(p) ==
  /\ at[p] \in Names /\ file[at[p]].status = "running" /\ ~alive[at[p]]
  /\ RecoveryPrepared(p)
  /\ file' = buf[p]
Rewritten(p) == LockedWritePrepared(p) /\ file' = buf[p]

LEMMA FileStep ==
  ASSUME LockDiscipline, TypeOK, LockedInv, [Next]_vars
  PROVE  Unwritten \/ \E p \in Procs : Recovered(p) \/ Rewritten(p)
<1>1. ASSUME NEW p \in Procs, RecoverWrite(p) PROVE Recovered(p)
  BY <1>1 DEF RecoverWrite, Replace, LockedInv, HolderOK, Recovered
<1>2. ASSUME NEW p \in Procs, LockedWrite(p) PROVE Rewritten(p)
  BY <1>2 DEF LockedWrite, Replace, LockedInv, HolderOK, Rewritten
<1>3. ASSUME NEW p \in Procs, WriteState(p) PROVE FALSE
  BY <1>3 DEF WriteState, LockedInv, HolderOK, Locked
<1>4. ASSUME NEW p \in Procs,
             \/ \E n \in Names : \/ MarkRunning(p, n)
                                 \/ \E record \in Outcomes : AppendDispatchRecord(p, n, record)
                                 \/ ResetFailedDispatch(p, n)
                                 \/ \E approved \in BOOLEAN : RecordGateOutcome(p, n, approved)
             \/ BeginResume(p) \/ ReapOpen(p) \/ ResumeScan(p) \/ ResumeResets(p)
             \/ ResumeReturns(p) \/ TryResumable(p) \/ TryInterrupted(p) \/ RecoverFails(p)
             \/ ReapLock(p) \/ ReapScan(p) \/ ReapReturns(p) \/ Crash(p)
      PROVE  Unwritten
  BY <1>4 DEF MarkRunning, AppendDispatchRecord, ResetFailedDispatch, RecordGateOutcome,
              BeginResume, ReapOpen, ResumeScan, ResumeResets, ResumeReturns, TryResumable,
              TryInterrupted, RecoverFails, ReapLock, ReapScan, ReapReturns, Crash, shared,
              Unwritten
<1>5. ASSUME NEW n \in Names,
             (\E content \in {"ok", "corrupt"} : WriteSidecar(n, content)) \/ SessionDies(n)
      PROVE  Unwritten
  BY <1>5 DEF WriteSidecar, SessionDies, Unwritten
<1>6. CASE UNCHANGED vars
  BY <1>6 DEF vars, Unwritten
<1> QED BY <1>1, <1>2, <1>3, <1>4, <1>5, <1>6 DEF Next, Step, Progress

\* A recovery changes one record, from running to resumable or interrupted.
LEMMA RecoveredStep ==
  ASSUME TypeOK, NEW p \in Procs, Recovered(p)
  PROVE  /\ \A n \in Names \ {at[p]} : file'[n] = file[n]
         /\ file[at[p]].status = "running"
         /\ \/ file'[at[p]].status = "resumable"
            \/ /\ file'[at[p]].status = "interrupted"
               /\ ~(file[at[p]].sidecar /\ sidecar[at[p]] = "ok") \/ file[at[p]].kill = "abandon"
<1>1. file \in Content /\ at[p] \in Names /\ file[at[p]] \in DispatchRecord
  BY DEF TypeOK, Content, Recovered
<1>2. /\ Resumable(file[at[p]]).status = "resumable"
      /\ Interrupt(file[at[p]]).status = "interrupted"
  BY <1>1 DEF Resumable, Interrupt, DispatchRecord
<1> QED BY <1>1, <1>2 DEF Recovered, RecoveryPrepared, Content

LEMMA InvariantStep ==
  ASSUME LockDiscipline
  PROVE  /\ Init => TypeOK /\ LoopOK /\ LockedInv
         /\ TypeOK /\ LoopOK /\ LockedInv /\ [Next]_vars => (TypeOK /\ LoopOK /\ LockedInv)'
<1>1. Init => LoopOK
  BY DEF Init, LoopOK
<1> QED BY <1>1, InitType, TypeStep, LoopStep, InitLocked, LockedStep

(***************************************************************************)
(* The inductive invariant: under the discipline the holder of the lock    *)
(* works on the current version and its pending write is one legal move    *)
(* away from it.                                                           *)
(***************************************************************************)
THEOREM LockedCorrect == LockDiscipline => (Spec => []LockedInv)
<1> SUFFICES ASSUME LockDiscipline PROVE Spec => []LockedInv
  OBVIOUS
<1> QED BY InvariantStep, PTL DEF Spec

(***************************************************************************)
(* No lost update: a locked read-modify-write never writes over another    *)
(* process's change, however many processes and dispatches there are.      *)
(***************************************************************************)
THEOREM NoLostUpdate == LockDiscipline => (Spec => []BufferFresh)
<1> SUFFICES ASSUME LockDiscipline PROVE Spec => []BufferFresh
  OBVIOUS
<1>1. TypeOK /\ LockedInv => BufferFresh
  <2> SUFFICES ASSUME TypeOK, LockedInv, NEW p \in Procs, Writing(p), NEW n \in Names \ target[p]
               PROVE  buf[p][n] = file[n]
    BY DEF BufferFresh
  <2>1. CASE pc[p] = "lockedWrite"
    BY <2>1 DEF LockedInv, HolderOK, LockedWritePrepared
  <2>2. CASE pc[p] = "recoverWrite"
    BY <2>2 DEF LockedInv, HolderOK, RecoveryPrepared, TypeOK, Content
  <2>3. pc[p] # "write"
    BY DEF LockedInv, HolderOK, Locked
  <2> QED BY <2>1, <2>2, <2>3 DEF Writing
<1> QED BY <1>1, InvariantStep, PTL DEF Spec

(***************************************************************************)
(* Each version of the file follows from the one it replaces by moves of   *)
(* _ALLOWED_TRANSITIONS.                                                   *)
(***************************************************************************)
THEOREM TransitionsLegal == LockDiscipline => (Spec => LegalSteps)
<1> SUFFICES ASSUME LockDiscipline PROVE Spec => LegalSteps
  OBVIOUS
<1>1. TypeOK /\ LockedInv /\ [Next]_vars => [LegalStep]_file
  <2> SUFFICES ASSUME TypeOK, LockedInv, [Next]_vars, NEW n \in Names
               PROVE  \/ file'[n].status = file[n].status
                      \/ Valid(file[n].status, file'[n].status)
    BY DEF LegalStep
  <2>1. CASE Unwritten
    BY <2>1 DEF Unwritten
  <2>2. ASSUME NEW p \in Procs, Recovered(p)
        PROVE  file'[n].status = file[n].status \/ Valid(file[n].status, file'[n].status)
    BY <2>2, RecoveredStep DEF Valid, AllowedTransitions
  <2>3. ASSUME NEW p \in Procs, Rewritten(p)
        PROVE  file'[n].status = file[n].status \/ Valid(file[n].status, file'[n].status)
    BY <2>3 DEF Rewritten, LockedWritePrepared, Valid, AllowedTransitions
  <2> QED BY <2>1, <2>2, <2>3, FileStep
<1> QED BY <1>1, InvariantStep, PTL DEF Spec, LegalSteps

(***************************************************************************)
(* Recovery interrupts only a running dispatch that cannot be resumed.     *)
(***************************************************************************)
THEOREM RecoveryKeepsProgress == LockDiscipline => (Spec => ProgressKept)
<1> SUFFICES ASSUME LockDiscipline PROVE Spec => ProgressKept
  OBVIOUS
<1> DEFINE Kept == \A n \in Names :
             file'[n].status = "interrupted" /\ file[n].status # "interrupted" =>
               /\ file[n].status = "running"
               /\ ~(file[n].sidecar /\ sidecar[n] = "ok") \/ file[n].kill = "abandon"
<1>1. TypeOK /\ LockedInv /\ [Next]_vars => [Kept]_file
  <2> SUFFICES ASSUME TypeOK, LockedInv, [Next]_vars, NEW n \in Names,
                      file'[n].status = "interrupted", file[n].status # "interrupted"
               PROVE  /\ file[n].status = "running"
                      /\ ~(file[n].sidecar /\ sidecar[n] = "ok") \/ file[n].kill = "abandon"
    OBVIOUS
  <2>1. ~Unwritten
    BY DEF Unwritten
  <2>2. ASSUME NEW p \in Procs, Rewritten(p) PROVE FALSE
    BY <2>2 DEF Rewritten, LockedWritePrepared
  <2>3. PICK p \in Procs : Recovered(p)
    BY <2>1, <2>2, FileStep
  <2> QED BY <2>3, RecoveredStep
<1> QED BY <1>1, InvariantStep, PTL DEF Spec, ProgressKept

(***************************************************************************)
(* Recovery never touches the record of a session that is alive: it stays  *)
(* dead between the liveness probe and the write.                          *)
(***************************************************************************)
THEOREM LiveUntouched == LockDiscipline => (Spec => LiveKept)
<1> SUFFICES ASSUME LockDiscipline PROVE Spec => LiveKept
  OBVIOUS
<1> DEFINE Kept == \A n \in Names :
             file[n].status = "running" /\ alive[n] =>
               file'[n].status \notin {"interrupted", "resumable"}
<1>1. TypeOK /\ LockedInv /\ [Next]_vars => [Kept]_file
  <2> SUFFICES ASSUME TypeOK, LockedInv, [Next]_vars, NEW n \in Names,
                      file[n].status = "running", alive[n]
               PROVE  file'[n].status \notin {"interrupted", "resumable"}
    OBVIOUS
  <2>1. CASE Unwritten
    BY <2>1 DEF Unwritten
  <2>2. ASSUME NEW p \in Procs, Rewritten(p) PROVE file'[n] = file[n]
    BY <2>2 DEF Rewritten, LockedWritePrepared
  <2>3. ASSUME NEW p \in Procs, Recovered(p) PROVE file'[n] = file[n]
    BY <2>3, RecoveredStep DEF Recovered
  <2> QED BY <2>1, <2>2, <2>3, FileStep
<1> QED BY <1>1, InvariantStep, PTL DEF Spec, LiveKept

\* So a recovery has a cause, whatever the processes and the crashes.
THEOREM RecoveryIsJust == LockDiscipline => (Spec => RecoveryJust)
<1> SUFFICES ASSUME LockDiscipline PROVE Spec => RecoveryJust
  OBVIOUS
<1> DEFINE Keeping == \A n \in Names :
             file'[n].status = "interrupted" /\ file[n].status # "interrupted" =>
               /\ file[n].status = "running"
               /\ ~(file[n].sidecar /\ sidecar[n] = "ok") \/ file[n].kill = "abandon"
           Sparing == \A n \in Names :
             file[n].status = "running" /\ alive[n] =>
               file'[n].status \notin {"interrupted", "resumable"}
           Just == \A n \in Names :
             /\ file'[n].status = "interrupted" /\ file[n].status # "interrupted" =>
                  /\ file[n].status = "running"
                  /\ ~(file[n].sidecar /\ sidecar[n] = "ok") \/ file[n].kill = "abandon"
             /\ file[n].status = "running" /\ alive[n] =>
                  file'[n].status \notin {"interrupted", "resumable"}
<1>1. [Keeping]_file /\ [Sparing]_file => [Just]_file
  OBVIOUS
<1> QED BY <1>1, RecoveryKeepsProgress, LiveUntouched, PTL
        DEF ProgressKept, LiveKept, RecoveryJust

-----------------------------------------------------------------------------
(* The refinement. *)

Ledgered == [n \in Names |-> file[n].status]

LEMMA LedgerStatuses == Ledger!Statuses = Statuses /\ Ledger!Absent = Absent
BY DEF Statuses, Absent, Ledger!Statuses, Ledger!Absent

LEMMA LedgerInit ==
  ASSUME TypeOK
  PROVE  Ledger!Init
<1>1. Ledgered \in [Names -> Statuses \cup {Absent}]
  BY DEF Ledgered, TypeOK, Content, DispatchRecord
<1> QED BY <1>1, LedgerStatuses DEF Ledgered, Ledger!Init

\* One record changes by a move of the table.
LEMMA LedgerMoves ==
  ASSUME NEW n \in Names, NEW s \in Statuses, Valid(file[n].status, s),
         \A m \in Names : file'[m].status = IF m = n THEN s ELSE file[m].status
  PROVE  Ledger!Next
<1>1. Ledger!Valid(file[n].status, s)
  BY DEF Valid, AllowedTransitions, Ledger!Valid, Ledger!AllowedTransitions
<1>2. [m \in Names |-> file'[m].status] = [[m \in Names |-> file[m].status] EXCEPT ![n] = s]
  OBVIOUS
<1>3. Ledger!Valid([m \in Names |-> file[m].status][n], s)
  BY <1>1
<1>4. Ledger!Move(n, s)
  BY <1>2, <1>3 DEF Ledger!Move
<1>5. n \in Names /\ s \in Ledger!Statuses
  BY LedgerStatuses
<1> QED BY <1>4, <1>5, Zenon DEF Ledger!Next

\* A set of failures goes back to pending.
LEMMA LedgerRetries ==
  ASSUME NEW failed \in SUBSET Names,
         \A n \in failed : file[n].status = "failure",
         \A n \in Names : file'[n].status = IF n \in failed THEN "pending" ELSE file[n].status
  PROVE  Ledger!Next
<1>1. Ledger!Retry(failed)
  BY DEF Ledger!Retry
<1> QED BY <1>1, Zenon DEF Ledger!Next

\* A recovery is one move of the ledger.
LEMMA RecoveredMoves ==
  ASSUME TypeOK, NEW p \in Procs, Recovered(p)
  PROVE  Ledger!Next
<1>1. at[p] \in Names
  BY DEF Recovered
<1>2. PICK s \in {"resumable", "interrupted"} : file'[at[p]].status = s
  BY RecoveredStep
<1>3. Valid(file[at[p]].status, s) /\ s \in Statuses
  BY <1>2, RecoveredStep DEF Valid, AllowedTransitions, Statuses
<1>4. \A n \in Names : file'[n].status = IF n = at[p] THEN s ELSE file[n].status
  BY <1>2, RecoveredStep
<1> QED BY <1>1, <1>3, <1>4, LedgerMoves

\* A locked write is a retry of the failures it resets, or one gate's outcome.
LEMMA RewrittenMoves ==
  ASSUME TypeOK, NEW p \in Procs, Rewritten(p)
  PROVE  Ledger!Next
<1>0. LockedWritePrepared(p) /\ file' = buf[p] /\ target[p] \in SUBSET Names
  BY DEF Rewritten, TypeOK
<1>1. CASE \A n \in target[p] : file[n].status = "failure" /\ buf[p][n].status = "pending"
  <2>1. \A n \in Names : file'[n].status = IF n \in target[p] THEN "pending" ELSE file[n].status
    BY <1>0, <1>1 DEF LockedWritePrepared
  <2> QED BY <1>0, <1>1, <2>1, LedgerRetries
<1>2. ASSUME NEW n \in Names, target[p] = {n}, file[n].status = "pending",
             buf[p][n].status \in {"success", "failure"}
      PROVE  Ledger!Next
  <2>1. Valid(file[n].status, buf[p][n].status) /\ buf[p][n].status \in Statuses
    BY <1>2 DEF Valid, AllowedTransitions, Statuses
  <2>2. \A m \in Names : file'[m].status = IF m = n THEN buf[p][n].status ELSE file[m].status
    BY <1>0, <1>2 DEF LockedWritePrepared
  <2> QED BY <1>2, <2>1, <2>2, LedgerMoves
<1> QED BY <1>0, <1>1, <1>2 DEF LockedWritePrepared

(***************************************************************************)
(* The file implements the ledger: whoever reads it, at any time, sees     *)
(* statuses that changed one legal move (or one joint retry) at a time.    *)
(***************************************************************************)
THEOREM FileImplementsLedger == LockDiscipline => (Spec => ImplementsLedger)
<1> SUFFICES ASSUME LockDiscipline PROVE Spec => ImplementsLedger
  OBVIOUS
<1>1. TypeOK => Ledger!Init
  BY LedgerInit
<1>2. TypeOK /\ LockedInv /\ [Next]_vars => [Ledger!Next]_Ledgered
  <2> SUFFICES ASSUME TypeOK, LockedInv, [Next]_vars
               PROVE  Ledger!Next \/ Ledgered' = Ledgered
    OBVIOUS
  <2>1. CASE Unwritten
    BY <2>1 DEF Unwritten, Ledgered
  <2>2. ASSUME NEW p \in Procs, Recovered(p) PROVE Ledger!Next
    BY <2>2, RecoveredMoves
  <2>3. ASSUME NEW p \in Procs, Rewritten(p) PROVE Ledger!Next
    BY <2>3, RewrittenMoves
  <2> QED BY <2>1, <2>2, <2>3, FileStep
<1>3. Ledger!Spec <=> Ledger!Init /\ [][Ledger!Next]_Ledgered
  BY DEF Ledger!Spec, Ledgered
<1> QED BY <1>1, <1>2, <1>3, InvariantStep, PTL DEF Spec, ImplementsLedger

-----------------------------------------------------------------------------
(* Without the lock discipline: the two set-ups of MCFleet. *)

LEMMA FleetInitType == FleetInit => TypeOK /\ LoopOK
<1> SUFFICES ASSUME FleetInit PROVE TypeOK /\ LoopOK
  OBVIOUS
<1>1. file \in Content
  <2>1. PICK left \in [1..Manifest -> LeftBehind \union {Blank(Absent)}] :
          file = [n \in Names |-> IF n <= Manifest THEN left[n] ELSE Blank(Absent)]
    BY DEF FleetInit
  <2>2. Blank(Absent) \in DispatchRecord
    BY BlankType
  <2>3. ASSUME NEW n \in Names
        PROVE  (IF n <= Manifest THEN left[n] ELSE Blank(Absent)) \in DispatchRecord
    <3>1. n <= Manifest => left[n] \in LeftBehind \union {Blank(Absent)}
      BY CountAssumption DEF Names
    <3> QED BY <2>2, <3>1, LeftBehindType
  <2> QED BY <2>1, <2>3 DEF Content
<1>2. /\ pc \in [Procs -> {"idle", "dead"}]
      /\ \A p \in Procs : pc[p] \in {"idle", "dead"}
  BY DEF FleetInit, Running
<1>3. ops \in [Procs -> Nat]
  BY CountAssumption, StartsAssumption DEF FleetInit
<1> QED BY <1>1, <1>2, <1>3, NoCopyType, CountAssumption DEF FleetInit, TypeOK, Names, LoopOK

Dead(P) == \A p \in P : pc[p] = "dead"
Lives(content) == \A n \in Names : alive[n] => content[n].status = "running"
Recovering(p) == pc[p] \in {"recover", "fallback", "recoverWrite"}

(***************************************************************************)
(* Reapers and resuming CLIs race: a session that lives is running in the  *)
(* file and in every copy, however old, so no write of a stale copy can    *)
(* hurt it; and what is being recovered is dead and stays dead.            *)
(***************************************************************************)
RacerOK(p) ==
  /\ Holding(p) => Lives(local[p])
  /\ Writing(p) => Lives(buf[p])
  /\ Recovering(p) => ~alive[at[p]]
RacingInv == Dead(Servers) /\ Lives(file) /\ \A p \in Racers : RacerOK(p)

\* What may replace a version of the file.
Follows(old, new) ==
  \A n \in Names : \/ new[n].status = old[n].status
                   \/ old[n].status = Absent
                   \/ Valid(old[n].status, new[n].status)
Spares(old, new) ==
  \A n \in Names : old[n].status = "running" /\ alive[n] =>
                     new[n].status \notin {"interrupted", "resumable"}

(***************************************************************************)
(* A server has the file to itself: nothing comes between its reading and  *)
(* its writing, with or without the lock.                                  *)
(***************************************************************************)
AloneOK(p) ==
  /\ pc[p] \in {"idle", "write", "lockedWrite", "dead"}
  /\ Writing(p) => Follows(file, buf[p]) /\ Spares(file, buf[p])
AloneInv == Dead(Racers) /\ \A p \in Servers : AloneOK(p)

FleetInv == TypeOK /\ LoopOK /\ (RacingInv \/ AloneInv)

LEMMA FleetInitInv == FleetInit => FleetInv
<1> SUFFICES ASSUME FleetInit PROVE RacingInv \/ AloneInv
  BY FleetInitType DEF FleetInv
<1>1. CASE Running(Racers)
  <2>1. Dead(Servers) /\ \A p \in Racers : pc[p] = "idle"
    BY <1>1, ProcsAssumption DEF Running, Dead, Racers, Procs
  <2>2. Lives(file)
    BY FleetInitType DEF FleetInit, Lives, TypeOK
  <2> QED BY <2>1, <2>2 DEF RacingInv, RacerOK, Holding, Writing, Recovering
<1>2. CASE Running(Servers)
  BY <1>2, ProcsAssumption DEF Running, Dead, Racers, Procs, AloneInv, AloneOK, Writing
<1> QED BY <1>1, <1>2 DEF FleetInit

\* A dead process stays dead, and takes no step.
LEMMA DeadStay ==
  ASSUME TypeOK, NEW p \in Procs, pc[p] = "dead", [Next]_vars
  PROVE  pc'[p] = "dead"
<1>1. ASSUME NEW q \in Procs, Step(q) \/ Crash(q) PROVE pc'[p] = "dead"
  BY <1>1 DEF Step, Crash, Progress, MarkRunning, AppendDispatchRecord, ResetFailedDispatch,
     RecordGateOutcome, BeginResume, ReapOpen, WriteState, LockedWrite, ResumeScan, ResumeResets,
     ResumeReturns, TryResumable, TryInterrupted, RecoverFails, RecoverWrite, ReapLock, ReapScan,
     ReapReturns, Leaves, Prepare, Starts, TypeOK
<1>2. ASSUME NEW n \in Names, (\E content \in {"ok", "corrupt"} : WriteSidecar(n, content)) \/ SessionDies(n)
      PROVE  pc'[p] = "dead"
  BY <1>2 DEF WriteSidecar, SessionDies
<1> QED BY <1>1, <1>2 DEF Next, vars

LEMMA DeadIdle ==
  ASSUME NEW p \in Procs, pc[p] = "dead"
  PROVE  ~Step(p) /\ ~Crash(p)
BY DEF Step, Crash, Progress, MarkRunning, AppendDispatchRecord, ResetFailedDispatch,
     RecordGateOutcome, BeginResume, ReapOpen, WriteState, LockedWrite, ResumeScan, ResumeResets,
     ResumeReturns, TryResumable, TryInterrupted, RecoverFails, RecoverWrite, ReapLock, ReapScan,
     ReapReturns, Starts


\* A server in this set-up does not take part: what is left of a step.
LEMMA RacerSteps ==
  ASSUME TypeOK, Dead(Servers), NEW p \in Procs, Step(p) \/ Crash(p)
  PROVE  /\ p \in Racers
         /\ \/ BeginResume(p) \/ ReapOpen(p) \/ Progress(p) \/ Crash(p)
<1>1. p \notin Servers
  BY DeadIdle DEF Dead
<1>2. p \in Racers
  BY <1>1 DEF Racers, Procs
<1>3. ASSUME NEW n \in Names
      PROVE  /\ ~MarkRunning(p, n) /\ ~ResetFailedDispatch(p, n)
             /\ \A record \in Outcomes : ~AppendDispatchRecord(p, n, record)
             /\ \A approved \in BOOLEAN : ~RecordGateOutcome(p, n, approved)
  BY <1>1, ProcsAssumption DEF MarkRunning, ResetFailedDispatch, AppendDispatchRecord, RecordGateOutcome
<1> QED BY <1>2, <1>3 DEF Step

\* A racer's step changes its own copies only; sessions are killed, not started;
\* and the file is replaced by what it was about to write.
LEMMA RacerFrame ==
  ASSUME TypeOK, LoopOK, NEW p \in Racers, BeginResume(p) \/ ReapOpen(p) \/ Progress(p) \/ Crash(p)
  PROVE  /\ \A n \in Names : alive'[n] => alive[n]
         /\ file' = file \/ (Writing(p) /\ file' = buf[p] /\ alive' = alive)
         /\ \A q \in Procs \ {p} :
              pc'[q] = pc[q] /\ local'[q] = local[q] /\ buf'[q] = buf[q] /\ at'[q] = at[q]
<1> USE DEF TypeOK, shared
<1>p. p \in Procs BY DEF Racers, Procs
<1>1. CASE BeginResume(p) BY <1>1, <1>p DEF BeginResume, Starts
<1>2. CASE ReapOpen(p) BY <1>2, <1>p DEF ReapOpen, Starts
<1>3. CASE Crash(p) BY <1>3, <1>p DEF Crash, Leaves
<1>4. CASE WriteState(p) BY <1>4, <1>p DEF WriteState, Leaves, Replace, Writing
<1>5. CASE LockedWrite(p) BY <1>5, <1>p DEF LockedWrite, Leaves, Replace, Writing
<1>6. CASE ResumeScan(p) BY <1>6, <1>p DEF ResumeScan, Done
<1>7. CASE ResumeResets(p) BY <1>7, <1>p DEF ResumeResets
<1>8. CASE ResumeReturns(p) BY <1>8, <1>p DEF ResumeReturns, Leaves
<1>9. CASE TryResumable(p) BY <1>9, <1>p DEF TryResumable, Prepare
<1>10. CASE TryInterrupted(p) BY <1>10, <1>p DEF TryInterrupted, Prepare
<1>11. CASE RecoverFails(p) BY <1>11, <1>p DEF RecoverFails, Done
<1>12. CASE RecoverWrite(p) BY <1>12, <1>p DEF RecoverWrite, Done, Replace, Writing
<1>13. CASE ReapLock(p) BY <1>13, <1>p DEF ReapLock
<1>14. CASE ReapScan(p) BY <1>14, <1>p DEF ReapScan, Done
<1>15. CASE ReapReturns(p) BY <1>15, <1>p DEF ReapReturns, Leaves
<1> QED
  BY <1>1, <1>2, <1>3, <1>4, <1>5, <1>6, <1>7, <1>8, <1>9, <1>10, <1>11, <1>12, <1>13, <1>14, <1>15
  DEF Progress

LEMMA RacerKeeps ==
  ASSUME TypeOK, LoopOK, RacingInv, NEW p \in Racers,
         BeginResume(p) \/ ReapOpen(p) \/ Progress(p) \/ Crash(p)
  PROVE  RacerOK(p)'
<1>p. p \in Procs BY DEF Racers, Procs
<1>0. RacerOK(p) /\ Lives(file) BY DEF RacingInv
<1>a. \A n \in Names : alive'[n] => alive[n] BY RacerFrame
<1>1. CASE BeginResume(p)
  <2>1. pc'[p] = "scan" /\ local'[p] = file BY <1>1, <1>p DEF BeginResume, TypeOK
  <2> QED BY <2>1, <1>0, <1>a DEF RacerOK, Holding, Writing, Recovering, Lives
<1>2. CASE ReapOpen(p) \/ WriteState(p) \/ LockedWrite(p) \/ ResumeReturns(p) \/ ReapReturns(p) \/ Crash(p)
  <2>1. pc'[p] \in {"idle", "dead", "flock"}
    BY <1>2, <1>p DEF ReapOpen, WriteState, LockedWrite, ResumeReturns, ReapReturns, Crash, Leaves, TypeOK
  <2> QED BY <2>1 DEF RacerOK, Holding, Writing, Recovering
<1>3. CASE ResumeScan(p)
  <2>1. /\ local' = local /\ pc[p] = "scan" /\ alive' = alive
        /\ pc'[p] = "scan" \/ (pc'[p] = "recover" /\ ~alive[at[p]] /\ at' = at)
    BY <1>3, <1>p DEF ResumeScan, TypeOK, shared, SessionAlive
  <2> QED BY <2>1, <1>0 DEF RacerOK, Holding, Writing, Recovering, Lives
<1>4. CASE ResumeResets(p)
  <2>1. /\ pc'[p] = "lockedWrite" /\ pc[p] = "scan" /\ alive' = alive
        /\ \A n \in Names : n \notin FailedNames(local[p]) => buf'[p][n] = local[p][n]
    BY <1>4, <1>p DEF ResumeResets, TypeOK, shared
  <2>2. \A n \in FailedNames(local[p]) : local[p][n].status = "failure"
    BY DEF FailedNames
  <2> QED BY <2>1, <2>2, <1>0 DEF RacerOK, Holding, Writing, Recovering, Lives
<1>5. CASE TryResumable(p) \/ TryInterrupted(p)
  <2>1. /\ local' = local /\ at' = at /\ alive' = alive /\ pc[p] \in {"recover", "fallback"}
        /\ at[p] \in Names
    BY <1>5, <1>p DEF TryResumable, TryInterrupted, shared, LoopOK
  <2>2. ~alive[at[p]] /\ Lives(local[p]) BY <2>1, <1>0 DEF RacerOK, Recovering, Holding
  <2>3. \/ pc'[p] = "fallback"
        \/ /\ pc'[p] = "recoverWrite"
           /\ \A n \in Names \ {at[p]} : buf'[p][n] = file[n]
    BY <1>5, <1>p, <2>1 DEF TryResumable, TryInterrupted, Prepare, TypeOK, Content
  <2> QED BY <2>1, <2>2, <2>3, <1>0 DEF RacerOK, Holding, Writing, Recovering, Lives
<1>6. CASE RecoverFails(p)
  <2>1. local' = local /\ alive' = alive /\ pc[p] \in {"recover", "fallback"} /\ pc'[p] = "scan"
    BY <1>6, <1>p DEF RecoverFails, shared, TypeOK
  <2> QED BY <2>1, <1>0 DEF RacerOK, Holding, Writing, Recovering, Lives
<1>7. CASE RecoverWrite(p)
  <2>1. /\ alive' = alive /\ pc[p] = "recoverWrite" /\ pc'[p] = "scan" /\ at[p] \in Names
        /\ \A n \in Names \ {at[p]} : local'[p][n] = local[p][n]
    BY <1>7, <1>p DEF RecoverWrite, TypeOK, LoopOK, Content
  <2> QED BY <2>1, <1>0 DEF RacerOK, Holding, Writing, Recovering, Lives
<1>8. CASE ReapLock(p)
  <2>1. pc'[p] = "scan" /\ local'[p] = file BY <1>8, <1>p DEF ReapLock, TypeOK
  <2> QED BY <2>1, <1>0, <1>a DEF RacerOK, Holding, Writing, Recovering, Lives
<1>9. CASE ReapScan(p)
  <2>1. /\ local' = local /\ pc[p] = "scan" /\ at[p] \in Names
        /\ pc'[p] = "scan" \/ (pc'[p] = "recover" /\ ~alive'[at[p]] /\ at' = at)
    BY <1>9, <1>p, CountAssumption DEF ReapScan, TypeOK, Names
  <2> QED BY <2>1, <1>0, <1>a DEF RacerOK, Holding, Writing, Recovering, Lives
<1> QED BY <1>1, <1>2, <1>3, <1>4, <1>5, <1>6, <1>7, <1>8, <1>9 DEF Progress

LEMMA RacingKeeps ==
  ASSUME TypeOK, LoopOK, RacingInv, [Next]_vars
  PROVE  RacingInv'
<1>1. Dead(Servers)'
  BY DeadStay DEF Dead, Procs, RacingInv
<1>2. ASSUME NEW p \in Procs, Step(p) \/ Crash(p) PROVE RacingInv'
  <2>1. p \in Racers /\ (BeginResume(p) \/ ReapOpen(p) \/ Progress(p) \/ Crash(p))
    BY <1>2, RacerSteps DEF RacingInv
  <2>2. /\ \A n \in Names : alive'[n] => alive[n]
        /\ file' = file \/ (Writing(p) /\ file' = buf[p])
        /\ \A q \in Procs \ {p} :
             pc'[q] = pc[q] /\ local'[q] = local[q] /\ buf'[q] = buf[q] /\ at'[q] = at[q]
    BY <2>1, RacerFrame
  <2>3. Lives(file)' BY <2>1, <2>2 DEF RacingInv, RacerOK, Lives
  <2>4. ASSUME NEW q \in Racers PROVE RacerOK(q)'
    <3>1. CASE q = p BY <3>1, <2>1, RacerKeeps
    <3>2. CASE q # p
      <4>1. RacerOK(q) /\ q \in Procs /\ LoopOK BY DEF RacingInv, Racers, Procs
      <4>2. pc'[q] = pc[q] /\ local'[q] = local[q] /\ buf'[q] = buf[q] /\ at'[q] = at[q]
        BY <4>1, <2>2, <3>2
      <4> QED BY <4>1, <4>2, <2>2 DEF RacerOK, Holding, Writing, Recovering, Lives, LoopOK
    <3> QED BY <3>1, <3>2
  <2> QED BY <1>1, <2>3, <2>4 DEF RacingInv
<1>3. CASE \/ \E n \in Names, content \in {"ok", "corrupt"} : WriteSidecar(n, content)
           \/ \E n \in Names : SessionDies(n)
           \/ UNCHANGED vars
  <2>1. /\ \A n \in Names : alive'[n] => alive[n]
        /\ file' = file /\ pc' = pc /\ local' = local /\ buf' = buf /\ at' = at
    BY <1>3 DEF WriteSidecar, SessionDies, vars, TypeOK
  <2>2. Lives(file)' BY <2>1 DEF RacingInv, Lives
  <2>3. ASSUME NEW q \in Racers PROVE RacerOK(q)'
    <3>1. RacerOK(q) /\ q \in Procs BY DEF RacingInv, Racers, Procs
    <3> QED BY <3>1, <2>1 DEF RacerOK, Holding, Writing, Recovering, Lives, LoopOK
  <2> QED BY <1>1, <2>2, <2>3 DEF RacingInv
<1> QED BY <1>2, <1>3 DEF Next

\* One server: two of them racing without a lock is what StateFileResumeAppend is about.
OneServer == \A p, q \in Servers : p = q

\* Nobody else runs: what is left of a step.
LEMMA LoneSteps ==
  ASSUME TypeOK, AloneInv, NEW p \in Procs, Step(p) \/ Crash(p)
  PROVE  /\ p \in Servers
         /\ \/ \E n \in Names : MarkRunning(p, n)
            \/ \E n \in Names, record \in Outcomes : AppendDispatchRecord(p, n, record)
            \/ \E n \in Names : ResetFailedDispatch(p, n)
            \/ \E n \in Names, approved \in BOOLEAN : RecordGateOutcome(p, n, approved)
            \/ WriteState(p) \/ LockedWrite(p) \/ Crash(p)
<1>1. p \notin Racers
  BY DeadIdle DEF AloneInv, Dead
<1>2. p \in Servers /\ p \notin Clis /\ p \notin Reapers
  BY <1>1 DEF Racers, Procs
<1>3. pc[p] \in {"idle", "write", "lockedWrite", "dead"}
  BY <1>2 DEF AloneInv, AloneOK
<1>4. ~BeginResume(p) /\ ~ReapOpen(p)
  BY <1>2 DEF BeginResume, ReapOpen
<1>5. Progress(p) => WriteState(p) \/ LockedWrite(p)
  BY <1>2, <1>3 DEF Progress, ResumeScan, ResumeResets, ResumeReturns, TryResumable, TryInterrupted,
     RecoverFails, RecoverWrite, ReapLock, ReapScan, ReapReturns
<1> QED BY <1>2, <1>4, <1>5, Zenon DEF Step

LEMMA LoneKeeps ==
  ASSUME TypeOK, AloneInv, NEW p \in Servers, Step(p) \/ Crash(p)
  PROVE  AloneOK(p)'
<1>p. p \in Procs BY DEF Procs
<1>f. file \in Content BY DEF TypeOK
<1>0. ASSUME NEW n \in Names, NEW record \in DispatchRecord, NEW next \in {"write", "lockedWrite"},
             file' = file, Prepare(p, n, record, next),
             file[n].status = Absent \/ Valid(file[n].status, record.status),
             alive'[n] => record.status \notin {"interrupted", "resumable"},
             \A m \in Names \ {n} : alive'[m] = alive[m]
      PROVE  AloneOK(p)'
  <2>1. pc'[p] = next /\ buf'[p] = [file EXCEPT ![n] = record]
    BY <1>0, <1>p DEF Prepare, TypeOK
  <2>2. \A m \in Names : buf'[p][m] = IF m = n THEN record ELSE file[m]
    BY <2>1, <1>f DEF Content
  <2>3. Follows(file, buf[p])' BY <1>0, <2>2 DEF Follows
  <2>4. Spares(file, buf[p])' BY <1>0, <2>2 DEF Spares
  <2> QED BY <2>1, <2>3, <2>4 DEF AloneOK
<1>1. ASSUME NEW n \in Names, MarkRunning(p, n) PROVE AloneOK(p)'
  <2>0. file[n] \in DispatchRecord BY <1>f DEF Content
  <2>1. RunningRecord(file[n]) \in DispatchRecord /\ RunningRecord(file[n]).status = "running"
    BY <2>0, RecordTypes DEF RunningRecord, DispatchRecord
  <2>2. \A m \in Names \ {n} : alive'[m] = alive[m] BY <1>1 DEF MarkRunning, TypeOK
  <2> QED BY <1>0, <1>1, <2>1, <2>2 DEF MarkRunning
<1>2. ASSUME NEW n \in Names, NEW record \in Outcomes, AppendDispatchRecord(p, n, record)
      PROVE  AloneOK(p)'
  <2>1. record \in DispatchRecord BY OutcomesType
  <2> QED BY <1>0, <1>2, <2>1 DEF AppendDispatchRecord, shared
<1>3. ASSUME NEW n \in Names, ResetFailedDispatch(p, n) PROVE AloneOK(p)'
  <2>1. Cleared(file[n]) \in DispatchRecord /\ Cleared(file[n]).status = "pending"
    BY <1>f, RecordTypes DEF Cleared, Content
  <2> QED BY <1>0, <1>3, <2>1 DEF ResetFailedDispatch, shared
<1>4. ASSUME NEW n \in Names, NEW approved \in BOOLEAN, RecordGateOutcome(p, n, approved)
      PROVE  AloneOK(p)'
  <2> DEFINE record == IF approved THEN Blank("success") ELSE Record("failure", "logic", "")
  <2>1. record \in DispatchRecord /\ record.status \in {"success", "failure"}
    <3>1. Blank("success") \in DispatchRecord /\ Record("failure", "logic", "") \in DispatchRecord
      BY BlankType, RecordType DEF Statuses, Reasons, KillReasons
    <3>2. Blank("success").status = "success" /\ Record("failure", "logic", "").status = "failure"
      BY DEF Blank, Record
    <3> QED BY <3>1, <3>2
  <2>2. Prepare(p, n, record, "lockedWrite") /\ file' = file /\ alive' = alive
    BY <1>4 DEF RecordGateOutcome, shared
  <2>3. Valid(file[n].status, record.status)
    BY <1>4, <2>1 DEF RecordGateOutcome, Valid, AllowedTransitions
  <2> HIDE DEF record
  <2> QED BY <1>0, <2>1, <2>2, <2>3
<1>5. CASE WriteState(p) \/ LockedWrite(p) \/ Crash(p)
  <2>1. pc'[p] \in {"idle", "dead"}
    BY <1>5, <1>p DEF WriteState, LockedWrite, Crash, Leaves, TypeOK
  <2> QED BY <2>1 DEF AloneOK, Writing
<1> QED BY <1>1, <1>2, <1>3, <1>4, <1>5, <1>p, LoneSteps

LEMMA AloneKeeps ==
  ASSUME TypeOK, OneServer, AloneInv, [Next]_vars
  PROVE  AloneInv'
<1>1. Dead(Racers)'
  BY DeadStay DEF Dead, Racers, Procs, AloneInv
<1>2. ASSUME NEW p \in Procs, Step(p) \/ Crash(p) PROVE AloneInv'
  <2>1. p \in Servers BY <1>2, LoneSteps
  <2>2. \A q \in Servers : q = p BY <2>1 DEF OneServer
  <2>3. AloneOK(p)' BY <1>2, <2>1, LoneKeeps
  <2> QED BY <1>1, <2>2, <2>3 DEF AloneInv
<1>3. CASE \/ \E n \in Names, content \in {"ok", "corrupt"} : WriteSidecar(n, content)
           \/ \E n \in Names : SessionDies(n)
           \/ UNCHANGED vars
  <2>1. /\ \A n \in Names : alive'[n] => alive[n]
        /\ file' = file /\ pc' = pc /\ buf' = buf
    BY <1>3 DEF WriteSidecar, SessionDies, vars, TypeOK
  <2> QED BY <1>1, <2>1 DEF AloneInv, AloneOK, Writing, Follows, Spares
<1> QED BY <1>2, <1>3 DEF Next

LEMMA FleetStep == OneServer => (FleetInv /\ [Next]_vars => FleetInv')
BY TypeStep, LoopStep, RacingKeeps, AloneKeeps DEF FleetInv

LEMMA LawfulStep ==
  ASSUME FleetInv, [Next]_vars, file' # file
  PROVE  /\ \A n \in Names : file[n].status = "running" /\ alive[n] =>
              file'[n].status \notin {"interrupted", "resumable"}
         /\ (\A p \in Racers : pc[p] = "dead") => LegalStep
<1>1. PICK p \in Procs : Step(p) \/ Crash(p)
  BY DEF Next, vars, WriteSidecar, SessionDies
<1>2. CASE RacingInv
  <2>1. p \in Racers /\ (BeginResume(p) \/ ReapOpen(p) \/ Progress(p) \/ Crash(p))
    BY <1>1, <1>2, RacerSteps DEF RacingInv, FleetInv
  <2>2. Writing(p) /\ file' = buf[p]
    BY <2>1, RacerFrame DEF FleetInv
  <2>3. Lives(file') BY <1>2, <2>1, <2>2 DEF RacingInv, RacerOK
  <2>4. pc[p] # "dead" BY <2>2 DEF Writing
  <2> QED BY <2>1, <2>3, <2>4 DEF Lives
<1>3. CASE AloneInv
  <2>1. p \in Servers /\ Writing(p) /\ file' = buf[p]
    BY <1>1, <1>3, LoneSteps DEF FleetInv, MarkRunning, AppendDispatchRecord, ResetFailedDispatch,
       RecordGateOutcome, Crash, WriteState, LockedWrite, Replace, Writing, shared
  <2>2. Follows(file, file') /\ Spares(file, file')
    BY <1>3, <2>1 DEF AloneInv, AloneOK
  <2> QED BY <2>2 DEF Follows, Spares, LegalStep
<1> QED BY <1>2, <1>3 DEF FleetInv

(***************************************************************************)
(* Any number of `fleet status --reap` and `fleet campaign --resume`       *)
(* processes, on a file of any size, under their two unrelated locks,      *)
(* never take away the record of an L2 session that lives; and a single    *)
(* MCP server, whose marks and appends take no lock, only ever makes moves *)
(* of _ALLOWED_TRANSITIONS.                                                *)
(***************************************************************************)
THEOREM RacesAreLawful == OneServer => (FleetSpec => RacesLawful)
<1> SUFFICES ASSUME OneServer PROVE FleetSpec => RacesLawful
  OBVIOUS
<1>1. FleetInit => FleetInv
  BY FleetInitInv
<1>2. FleetInv /\ [Next]_vars => FleetInv'
  BY FleetStep
<1>3. FleetInv /\ [Next]_vars =>
        [ /\ \A n \in Names : file[n].status = "running" /\ alive[n] =>
                file'[n].status \notin {"interrupted", "resumable"}
          /\ (\A p \in Racers : pc[p] = "dead") => LegalStep ]_file
  BY LawfulStep
<1> QED BY <1>1, <1>2, <1>3, PTL DEF FleetSpec, RacesLawful
=============================================================================
