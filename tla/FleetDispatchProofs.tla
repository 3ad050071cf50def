------------------------- MODULE FleetDispatchProofs -------------------------
(***************************************************************************)
(* Proofs about FleetDispatch, for any number of dispatches, calls and     *)
(* slots.                                                                  *)
(***************************************************************************)
EXTENDS FleetDispatch, SequenceTheorems, FiniteSetTheorems, TLAPS

-----------------------------------------------------------------------------
(* Records and results. *)

LEMMA RecordFields ==
  ASSUME NEW s, NEW reason
  PROVE  /\ Blank(s).status = s /\ Blank(s).reason = ""
         /\ Record(s, reason, "").status = s /\ Record(s, reason, "").reason = reason
BY DEF Blank, Record

LEMMA CampaignStatuses ==
  ASSUME NEW r \in CampaignRecords
  PROVE  /\ r.status \in {Absent, "pending", "success", "resumable", "failure"}
         /\ r.status = "failure" => r \in {Record("failure", "infra", ""), Record("failure", "logic", "")}
<1>1. ASSUME NEW s \in {Absent, "pending", "success", "resumable"}, r = Blank(s)
      PROVE  r.status = s /\ s # "failure"
  BY <1>1, RecordFields DEF Absent
<1>2. ASSUME NEW reason \in {"infra", "logic"}, r = Record("failure", reason, "")
      PROVE  r.status = "failure" /\ r \in {Record("failure", "infra", ""), Record("failure", "logic", "")}
  BY <1>2, RecordFields
<1>3. \/ \E s \in {Absent, "pending", "success", "resumable"} : r = Blank(s)
      \/ \E reason \in {"infra", "logic"} : r = Record("failure", reason, "")
  BY Zenon DEF CampaignRecords
<1> QED BY <1>1, <1>2, <1>3

LEMMA ClearedFailure ==
  ASSUME NEW r \in CampaignRecords, r.status = "failure"
  PROVE  Cleared(r) = Blank("pending") /\ Cleared(r) \in CampaignRecords
<1>1. r \in {Record("failure", "infra", ""), Record("failure", "logic", "")}
  BY CampaignStatuses
<1>2. ASSUME NEW reason \in {"infra", "logic"}, r = Record("failure", reason, "")
      PROVE  Cleared(r) = Blank("pending")
  BY <1>2 DEF Cleared, Blank, Record
<1>3. Cleared(r) = Blank("pending")
  BY <1>1, <1>2
<1> QED BY <1>3 DEF CampaignRecords

LEMMA ClassifyType ==
  ASSUME NEW x \in ExecutorResults
  PROVE  Classify(x) \in Results
<1>1. x.parsed \in {"success", "failure", "quota", "dirty", "none"}
  BY DEF ExecutorResults
<1>2. CASE x.parsed = "success"
  BY <1>2 DEF Classify, Results
<1>3. CASE x.parsed \in {"failure", "dirty"}
  BY <1>3 DEF Classify, Results
<1>4. CASE x.parsed = "quota"
  BY <1>4 DEF Classify, Results
<1>5. CASE x.parsed = "none"
  BY <1>5 DEF Classify, Results
<1> QED BY <1>1, <1>2, <1>3, <1>4, <1>5

LEMMA VerdictType ==
  ASSUME NEW r \in Results
  PROVE  /\ Verdict(r) \in CampaignRecords
         /\ Verdict(r).status \in {"success", "failure", "resumable"}
         /\ Verdict(r).status = "success" <=> r = "success"
<1>1. CASE r \in {"success", "resumable"}
  <2>1. Verdict(r) = Blank(r)
    BY <1>1 DEF Verdict
  <2>2. Blank(r) \in CampaignRecords
    BY <1>1 DEF CampaignRecords
  <2> QED BY <1>1, <2>1, <2>2, RecordFields
<1>2. CASE r \in {"logic", "infra", "timeout"}
  <2>1. PICK reason \in {"infra", "logic"} : Verdict(r) = Record("failure", reason, "")
    BY <1>2 DEF Verdict
  <2>2. Record("failure", reason, "") \in CampaignRecords
    BY <2>1 DEF CampaignRecords
  <2>3. Record("failure", reason, "").status = "failure"
    BY DEF Record
  <2> QED BY <1>2, <2>1, <2>2, <2>3
<1> QED BY <1>1, <1>2 DEF Results

LEMMA ReopenedType ==
  ASSUME TypeOK, NEW n \in Names
  PROVE  Reopened(n) \in [Names -> CampaignRecords]
<1>1. camp \in [Names -> CampaignRecords] /\ camp[n] \in CampaignRecords
  BY DEF TypeOK
<1>2. CASE ~ContinueOnFailure /\ camp[n].status = "failure"
  BY <1>1, <1>2, ClearedFailure DEF Reopened
<1>3. CASE ~(~ContinueOnFailure /\ camp[n].status = "failure")
  BY <1>1, <1>3 DEF Reopened
<1> QED BY <1>2, <1>3

-----------------------------------------------------------------------------
(* The type invariant. *)

\* A call past its quota check has a dispatch id of its own.
Identified ==
  /\ \A c \in Calls : pc[c] \notin {"idle", "quota"} => id[c] \in 1..Len(files)
  /\ \A c, d \in Calls : c # d /\ id[c] = id[d] => id[c] = 0
  /\ \A c \in Calls : pc[c] \in {"idle", "quota"} => id[c] = 0

Typed == TypeOK /\ Identified /\ SlotsExact

LEMMA NoneInFlight == (\A c \in Calls : pc[c] = "idle") => Cardinality(InFlight) = 0
<1> SUFFICES ASSUME \A c \in Calls : pc[c] = "idle" PROVE Cardinality(InFlight) = 0
  OBVIOUS
<1>1. InFlight = {}
  BY DEF InFlight
<1> QED BY <1>1, FS_EmptySet

LEMMA InitTyped == Init => Typed
<1> SUFFICES ASSUME Init PROVE Typed
  OBVIOUS
<1>1. \A n \in Names : Blank(IF n <= Manifest THEN "pending" ELSE Absent) \in CampaignRecords
  BY DEF CampaignRecords
<1>2. files \in Seq(DispatchFiles) /\ Len(files) = 0
  BY DEF Init
<1>3. TypeOK
  BY <1>1, <1>2, NamesAssumption DEF Init, TypeOK, Names, Results
<1>4. Identified
  BY DEF Init, Identified
<1>5. SlotsExact
  BY NoneInFlight, LimitsAssumption DEF Init, SlotsExact
<1> QED BY <1>3, <1>4, <1>5 DEF Typed

\* A call moves from one await to the next: the slots are the same calls.
LEMMA SameInFlight ==
  ASSUME TypeOK, SlotsExact, NEW c \in Calls, pc[c] # "idle", NEW next, next # "idle",
         pc' = [pc EXCEPT ![c] = next], active' = active
  PROVE  SlotsExact'
<1>1. InFlight' = InFlight
  BY DEF InFlight, TypeOK
<1> QED BY <1>1 DEF SlotsExact

LEMMA OneLessInFlight ==
  ASSUME TypeOK, SlotsExact, NEW c \in Calls, pc[c] # "idle", Returns(c)
  PROVE  SlotsExact' /\ active' \in Nat
<1>1. InFlight' = InFlight \ {c}
  BY DEF InFlight, TypeOK, Returns, Forgets
<1>2. IsFiniteSet(InFlight) /\ c \in InFlight
  BY CallsAssumption, FS_Subset DEF InFlight
<1>3. Cardinality(InFlight') = Cardinality(InFlight) - 1
  BY <1>1, <1>2, FS_RemoveElement
<1>4. Cardinality(InFlight') \in Nat
  BY <1>1, <1>2, FS_RemoveElement, FS_CardinalityType
<1>5. active \in Nat /\ active = Cardinality(InFlight) /\ active <= MaxConcurrent
  BY DEF SlotsExact, TypeOK
<1> QED BY <1>3, <1>4, <1>5, LimitsAssumption DEF SlotsExact, Returns

LEMMA ReturnsTyped ==
  ASSUME Typed, NEW c \in Calls, pc[c] # "idle", Returns(c),
         UNCHANGED <<session, boot, files>>, camp' \in [Names -> CampaignRecords]
  PROVE  Typed'
<1>1. SlotsExact' /\ active' \in Nat
  BY OneLessInFlight DEF Typed
<1>2. /\ pc' = [pc EXCEPT ![c] = "idle"] /\ name' = [name EXCEPT ![c] = 1]
      /\ id' = [id EXCEPT ![c] = 0] /\ out' = [out EXCEPT ![c] = "infra"]
  BY DEF Returns, Forgets
<1>3. 1 \in Names /\ Len(files) \in Nat
  BY NamesAssumption DEF Names, Typed, TypeOK
<1>4. TypeOK'
  BY <1>1, <1>2, <1>3 DEF Typed, TypeOK, Results
<1>5. Identified'
  BY <1>2 DEF Typed, TypeOK, Identified
<1> QED BY <1>1, <1>4, <1>5 DEF Typed

\* Replacing one dispatch file by another well-typed one.
LEMMA FileReplaced ==
  ASSUME TypeOK, NEW i \in 1..Len(files), NEW s \in {"running", "success", "failure", "resumable"}
  PROVE  /\ [files EXCEPT ![i].status = s] \in Seq(DispatchFiles)
         /\ Len([files EXCEPT ![i].status = s]) = Len(files)
         /\ \A j \in 1..Len(files) :
              [files EXCEPT ![i].status = s][j] = IF j = i THEN [files[i] EXCEPT !.status = s]
                                                           ELSE files[j]
<1> DEFINE new == [files[i] EXCEPT !.status = s]
<1>1. files \in Seq(DispatchFiles) /\ files[i] \in DispatchFiles
  BY ElementOfSeq DEF TypeOK
<1>2. new \in DispatchFiles
  BY <1>1 DEF DispatchFiles
<1>3. [files EXCEPT ![i].status = s] = [files EXCEPT ![i] = new]
  OBVIOUS
<1> HIDE DEF new
<1>4. /\ [files EXCEPT ![i] = new] \in Seq(DispatchFiles)
      /\ Len([files EXCEPT ![i] = new]) = Len(files)
      /\ \A j \in 1..Len(files) : [files EXCEPT ![i] = new][j] = IF j = i THEN new ELSE files[j]
  BY <1>1, <1>2, ExceptSeq
<1> QED BY <1>3, <1>4 DEF new

LEMMA FileCaptured ==
  ASSUME TypeOK, NEW i \in 1..Len(files)
  PROVE  /\ [files EXCEPT ![i].captured = TRUE] \in Seq(DispatchFiles)
         /\ Len([files EXCEPT ![i].captured = TRUE]) = Len(files)
         /\ \A j \in 1..Len(files) :
              [files EXCEPT ![i].captured = TRUE][j] = IF j = i THEN [files[i] EXCEPT !.captured = TRUE]
                                                                ELSE files[j]
<1> DEFINE new == [files[i] EXCEPT !.captured = TRUE]
<1>1. files \in Seq(DispatchFiles) /\ files[i] \in DispatchFiles
  BY ElementOfSeq DEF TypeOK
<1>2. new \in DispatchFiles
  BY <1>1 DEF DispatchFiles
<1>3. [files EXCEPT ![i].captured = TRUE] = [files EXCEPT ![i] = new]
  OBVIOUS
<1> HIDE DEF new
<1>4. /\ [files EXCEPT ![i] = new] \in Seq(DispatchFiles)
      /\ Len([files EXCEPT ![i] = new]) = Len(files)
      /\ \A j \in 1..Len(files) : [files EXCEPT ![i] = new][j] = IF j = i THEN new ELSE files[j]
  BY <1>1, <1>2, ExceptSeq
<1> QED BY <1>3, <1>4 DEF new

\* Typed survives a step that moves one call on and leaves the ids and the list alone.
LEMMA MovesTyped ==
  ASSUME Typed, NEW c \in Calls, pc[c] \notin {"idle", "quota"},
         NEW next \in {"running", "recorded", "captured"},
         pc' = [pc EXCEPT ![c] = next],
         UNCHANGED <<session, boot, camp, active, name, id>>,
         files' \in Seq(DispatchFiles), Len(files') = Len(files),
         out' \in [Calls -> Results]
  PROVE  Typed'
<1>1. SlotsExact'
  BY SameInFlight DEF Typed
<1>2. TypeOK'
  BY DEF Typed, TypeOK
<1>3. Identified'
  BY DEF Typed, TypeOK, Identified
<1> QED BY <1>1, <1>2, <1>3 DEF Typed

\* ... and one that leaves the calls alone.
LEMMA CallsTyped ==
  ASSUME Typed, UNCHANGED <<files, active, pc, name, id, out>>,
         session' \in {"up", "down", "closed"}, boot' \in Nat,
         camp' \in [Names -> CampaignRecords]
  PROVE  Typed'
<1>1. InFlight' = InFlight
  BY DEF InFlight
<1> QED BY <1>1 DEF Typed, TypeOK, Identified, SlotsExact

LEMMA TypedStep == Typed /\ [Next]_vars => Typed'
<1> SUFFICES ASSUME Typed, [Next]_vars PROVE Typed'
  OBVIOUS
<1> USE DEF Typed
<1>1. ASSUME NEW c \in Calls, NEW n \in Names, StartCall(c, n) PROVE Typed'
  <2>1. /\ pc[c] = "idle" /\ pc' = [pc EXCEPT ![c] = "quota"]
        /\ name' = [name EXCEPT ![c] = n]
        /\ active' = active + 1 /\ active < MaxConcurrent
        /\ UNCHANGED <<session, boot, files, id, out>>
    BY <1>1 DEF StartCall
  <2>2. camp' \in [Names -> CampaignRecords]
    BY <1>1, ReopenedType DEF StartCall
  <2>3. TypeOK'
    BY <2>1, <2>2 DEF TypeOK
  <2>4. Identified'
    BY <2>1 DEF TypeOK, Identified
  <2>5. InFlight' = InFlight \cup {c} /\ c \notin InFlight
    BY <2>1 DEF InFlight, TypeOK
  <2>6. IsFiniteSet(InFlight)
    BY CallsAssumption, FS_Subset DEF InFlight
  <2>7. Cardinality(InFlight') = Cardinality(InFlight) + 1
    BY <2>5, <2>6, FS_AddElement
  <2>8. SlotsExact'
    BY <2>1, <2>7, LimitsAssumption DEF SlotsExact, TypeOK
  <2> QED BY <2>3, <2>4, <2>8
<1>2. ASSUME NEW n \in Names, RefuseCall(n) PROVE Typed'
  BY <1>2, ReopenedType, CallsTyped DEF RefuseCall, TypeOK
<1>3. ASSUME NEW c \in Calls, QuotaPasses(c) PROVE Typed'
  <2> DEFINE new == [name |-> name[c], status |-> "pending", kitchen |-> boot, captured |-> FALSE]
  <2>1. new \in DispatchFiles
    BY DEF TypeOK, DispatchFiles
  <2>2. /\ pc[c] = "quota" /\ pc' = [pc EXCEPT ![c] = "launched"]
        /\ files' = Append(files, new) /\ id' = [id EXCEPT ![c] = Len(files) + 1]
        /\ UNCHANGED <<session, boot, camp, active, name, out>>
    BY <1>3 DEF QuotaPasses
  <2>3. files' \in Seq(DispatchFiles) /\ Len(files') = Len(files) + 1 /\ Len(files) \in Nat
    <3> HIDE DEF new
    <3> QED BY <2>1, <2>2, AppendProperties DEF TypeOK
  <2>4. TypeOK'
    BY <2>2, <2>3 DEF TypeOK
  <2>5. Identified'
    BY <2>2, <2>3 DEF TypeOK, Identified
  <2>6. SlotsExact'
    BY <2>2, SameInFlight
  <2> QED BY <2>4, <2>5, <2>6
<1>4. ASSUME NEW c \in Calls, Spawn(c) PROVE Typed'
  <2>1. id[c] \in 1..Len(files)
    BY <1>4 DEF Spawn, Identified
  <2>2. files' \in Seq(DispatchFiles) /\ Len(files') = Len(files)
    <3>1. files' = files \/ files' = [files EXCEPT ![id[c]].status = "running"]
      BY <1>4 DEF Spawn
    <3>2. CASE files' = files
      BY <3>2 DEF TypeOK
    <3>3. CASE files' = [files EXCEPT ![id[c]].status = "running"]
      BY <2>1, <3>3, FileReplaced
    <3> QED BY <3>1, <3>2, <3>3
  <2>3. out' \in [Calls -> Results]
    BY <1>4 DEF Spawn, TypeOK
  <2> QED BY <1>4, <2>2, <2>3, MovesTyped DEF Spawn
<1>5. ASSUME NEW c \in Calls, NEW r \in Results, Finish(c, r) PROVE Typed'
  <2>1. id[c] \in 1..Len(files)
    BY <1>5 DEF Finish, Identified
  <2>2. CASE Valid(files[id[c]].status, Verdict(r).status)
    <3>1. Verdict(r).status \in {"success", "failure", "resumable"}
      BY VerdictType
    <3>2. files' = [files EXCEPT ![id[c]].status = Verdict(r).status]
      BY <1>5, <2>2 DEF Finish
    <3>3. files' \in Seq(DispatchFiles) /\ Len(files') = Len(files)
      BY <2>1, <3>1, <3>2, FileReplaced
    <3>4. out' \in [Calls -> Results]
      BY <1>5, <2>2 DEF Finish, TypeOK
    <3>5. /\ pc[c] \notin {"idle", "quota"} /\ pc' = [pc EXCEPT ![c] = "recorded"]
          /\ UNCHANGED <<session, boot, camp, active, name, id>>
      BY <1>5, <2>2 DEF Finish
    <3> QED BY <3>3, <3>4, <3>5, MovesTyped
  <2>3. CASE ~Valid(files[id[c]].status, Verdict(r).status)
    <3>1. pc[c] # "idle" /\ Returns(c) /\ UNCHANGED <<session, boot, camp, files>>
      BY <1>5, <2>3 DEF Finish
    <3> QED BY <3>1, ReturnsTyped DEF TypeOK
  <2> QED BY <2>2, <2>3
<1>6. ASSUME NEW c \in Calls, Raise(c) PROVE Typed'
  BY <1>6, ReturnsTyped DEF Raise, TypeOK
<1>7. ASSUME NEW c \in Calls, WriteCaptures(c) PROVE Typed'
  <2>1. id[c] \in 1..Len(files)
    BY <1>7 DEF WriteCaptures, Identified
  <2>2. files' \in Seq(DispatchFiles) /\ Len(files') = Len(files)
    BY <1>7, <2>1, FileCaptured DEF WriteCaptures, TypeOK
  <2>3. out' \in [Calls -> Results]
    BY <1>7 DEF WriteCaptures, TypeOK
  <2> QED BY <1>7, <2>2, <2>3, MovesTyped DEF WriteCaptures
<1>8. ASSUME NEW c \in Calls, UpdateCampaign(c) PROVE Typed'
  <2>1. pc[c] # "idle" /\ Returns(c) /\ UNCHANGED <<session, boot, files>>
    BY <1>8 DEF UpdateCampaign
  <2>2. Verdict(out[c]) \in CampaignRecords /\ name[c] \in Names
    BY VerdictType DEF TypeOK
  <2>3. camp' \in [Names -> CampaignRecords]
    BY <1>8, <2>2 DEF UpdateCampaign, TypeOK
  <2> QED BY <2>1, <2>3, ReturnsTyped
<1>9. ASSUME NEW n \in Gates, NEW approved \in BOOLEAN, RecordGate(n, approved) PROVE Typed'
  <2> DEFINE record == IF approved THEN Blank("success") ELSE Record("failure", "logic", "")
  <2>1. record \in CampaignRecords
    BY DEF CampaignRecords
  <2>2. camp' = [camp EXCEPT ![n] = record] /\ UNCHANGED <<session, boot, files, active, pc, name, id, out>>
    BY <1>9 DEF RecordGate
  <2>3. camp' \in [Names -> CampaignRecords]
    <3> HIDE DEF record
    <3> QED BY <2>1, <2>2 DEF TypeOK
  <2> QED BY <2>2, <2>3, CallsTyped DEF TypeOK
<1>10. ASSUME EndSession PROVE Typed'
  <2>1. \A c \in Calls : pc'[c] = "idle" /\ id'[c] = 0
    BY <1>10 DEF EndSession
  <2>2. TypeOK'
    BY <1>10, NamesAssumption DEF EndSession, TypeOK, Results, Names
  <2>3. Identified'
    BY <2>1 DEF Identified
  <2>4. InFlight' = {}
    BY <2>1 DEF InFlight
  <2>5. SlotsExact'
    BY <1>10, <2>4, FS_EmptySet, LimitsAssumption DEF EndSession, SlotsExact
  <2> QED BY <2>2, <2>3, <2>5
<1>11. ASSUME Reload \/ Close PROVE Typed'
  <2>1. /\ UNCHANGED <<camp, files, active, pc, name, id, out>>
        /\ session' \in {"up", "down", "closed"} /\ boot' \in Nat
    BY <1>11 DEF Reload, Close, Boots, TypeOK
  <2> QED BY <2>1, CallsTyped DEF TypeOK
<1>12. ASSUME ResumeCampaign PROVE Typed'
  <2>1. /\ UNCHANGED <<files, active, pc, name, id, out>>
        /\ session' \in {"up", "down", "closed"} /\ boot' \in Nat
    BY <1>12 DEF ResumeCampaign, Boots, TypeOK
  <2>2. \A n \in FailedNames(camp) : Cleared(camp[n]) \in CampaignRecords
    BY ClearedFailure DEF FailedNames, TypeOK
  <2>3. camp' \in [Names -> CampaignRecords]
    BY <1>12, <2>2 DEF ResumeCampaign, TypeOK
  <2> QED BY <2>1, <2>3, CallsTyped
<1>13. CASE UNCHANGED vars
  BY <1>13, CallsTyped DEF vars, TypeOK
<1>14. ASSUME NEW c \in Calls, Progress(c) PROVE Typed'
  <2>1. ASSUME NEW x \in ExecutorResults, Finish(c, Classify(x)) PROVE Typed'
    BY <1>5, <2>1, ClassifyType
  <2>2. ASSUME Finish(c, "timeout") PROVE Typed'
    BY <1>5, <2>2 DEF Results
  <2> QED BY <1>3, <1>4, <1>7, <1>8, <1>14, <2>1, <2>2 DEF Progress
<1> QED BY <1>1, <1>2, <1>6, <1>9, <1>10, <1>11, <1>12, <1>13, <1>14 DEF Next

(***************************************************************************)
(* The campaign file only ever holds records no process needs to recover:  *)
(* none is running or interrupted.                                         *)
(***************************************************************************)
THEOREM CampaignTyped == Spec => []TypeOK
<1>1. Typed => TypeOK
  BY DEF Typed
<1> QED BY <1>1, InitTyped, TypedStep, PTL DEF Spec

(***************************************************************************)
(* The concurrency limit is exact: one slot per call under way, whatever   *)
(* calls end in and however often the server restarts.                     *)
(***************************************************************************)
THEOREM SlotsCorrect == Spec => []SlotsExact
<1>1. Typed => SlotsExact
  BY DEF Typed
<1> QED BY <1>1, InitTyped, TypedStep, PTL DEF Spec

-----------------------------------------------------------------------------
(* The campaign file changes by legal moves. *)

Written(n) ==    \* one record, by a move of the table or its first outcome
  /\ \A m \in Names \ {n} : camp'[m] = camp[m]
  /\ camp'[n].status \in Statuses
  /\ camp[n].status = Absent \/ Valid(camp[n].status, camp'[n].status)

Retried(failed) ==
  /\ \A n \in failed : camp[n].status = "failure" /\ camp'[n] = Blank("pending")
  /\ \A n \in Names \ failed : camp'[n] = camp[n]

LEMMA ReopenedRetries ==
  ASSUME TypeOK, NEW n \in Names, camp' = Reopened(n)
  PROVE  \E failed \in SUBSET Names : Retried(failed)
<1>1. CASE ~ContinueOnFailure /\ camp[n].status = "failure"
  <2>1. camp' = [camp EXCEPT ![n] = Blank("pending")]
    BY <1>1, ClearedFailure DEF Reopened, TypeOK
  <2>2. Retried({n})
    BY <1>1, <2>1 DEF Retried, TypeOK
  <2>3. {n} \in SUBSET Names
    OBVIOUS
  <2> QED BY <2>2, <2>3
<1>2. CASE ~(~ContinueOnFailure /\ camp[n].status = "failure")
  <2>1. Retried({})
    BY <1>2 DEF Reopened, Retried
  <2> QED BY <2>1
<1> QED BY <1>1, <1>2

LEMMA UpdateWrites ==
  ASSUME TypeOK, NEW c \in Calls, UpdateCampaign(c)
  PROVE  camp' = camp \/ (Written(name[c]) /\ camp'[name[c]] = Verdict(out[c]))
<1>1. CASE Accepts(camp[name[c]], out[c])
  <2>1. name[c] \in Names /\ out[c] \in Results
    BY DEF TypeOK
  <2>2. camp' = [camp EXCEPT ![name[c]] = Verdict(out[c])]
    BY <1>1 DEF UpdateCampaign
  <2>3. Verdict(out[c]).status \in {"success", "failure", "resumable"}
    BY <2>1, VerdictType
  <2>4. camp'[name[c]] = Verdict(out[c]) /\ \A m \in Names \ {name[c]} : camp'[m] = camp[m]
    BY <2>1, <2>2 DEF TypeOK
  <2> QED BY <1>1, <2>3, <2>4 DEF Written, Accepts, Statuses
<1>2. CASE ~Accepts(camp[name[c]], out[c])
  BY <1>2 DEF UpdateCampaign
<1> QED BY <1>1, <1>2

LEMMA GateWrites ==
  ASSUME TypeOK, NEW n \in Names, NEW approved \in BOOLEAN, RecordGate(n, approved)
  PROVE  Written(n)
<1> DEFINE record == IF approved THEN Blank("success") ELSE Record("failure", "logic", "")
<1>1. record.status \in {"success", "failure"}
  BY DEF Blank, Record
<1>2. camp' = [camp EXCEPT ![n] = record] /\ camp[n].status = "pending"
  BY DEF RecordGate
<1> HIDE DEF record
<1>3. camp'[n] = record /\ \A m \in Names \ {n} : camp'[m] = camp[m]
  BY <1>2 DEF TypeOK
<1>4. Valid("pending", record.status)
  BY <1>1 DEF Valid, AllowedTransitions
<1> QED BY <1>1, <1>2, <1>3, <1>4 DEF Written, Statuses

LEMMA ResumeRetries ==
  ASSUME TypeOK, ResumeCampaign
  PROVE  \E failed \in SUBSET Names : Retried(failed)
<1> DEFINE failed == IF ContinueOnFailure THEN {} ELSE FailedNames(camp)
<1>1. failed \in SUBSET Names
  BY DEF FailedNames, TypeOK
<1>2. \A n \in failed : camp[n].status = "failure" /\ camp[n] \in CampaignRecords
  BY <1>1 DEF FailedNames, TypeOK
<1>3. \A n \in Names : camp'[n] = IF n \in failed THEN Cleared(camp[n]) ELSE camp[n]
  BY DEF ResumeCampaign
<1> HIDE DEF failed
<1>4. Retried(failed)
  BY <1>1, <1>2, <1>3, ClearedFailure DEF Retried
<1> QED BY <1>1, <1>4

LEMMA CampaignStep ==
  ASSUME TypeOK, [Next]_vars
  PROVE  \/ camp' = camp
         \/ \E n \in Names : Written(n)
         \/ \E failed \in SUBSET Names : Retried(failed)
<1>1. ASSUME NEW c \in Calls, NEW n \in Names, StartCall(c, n)
      PROVE  \E failed \in SUBSET Names : Retried(failed)
  BY <1>1, ReopenedRetries DEF StartCall
<1>2. ASSUME NEW n \in Names, RefuseCall(n)
      PROVE  \E failed \in SUBSET Names : Retried(failed)
  BY <1>2, ReopenedRetries DEF RefuseCall
<1>3. ASSUME NEW c \in Calls, UpdateCampaign(c)
      PROVE  camp' = camp \/ \E n \in Names : Written(n)
  BY <1>3, UpdateWrites DEF TypeOK
<1>4. ASSUME NEW n \in Gates, NEW approved \in BOOLEAN, RecordGate(n, approved)
      PROVE  \E m \in Names : Written(m)
  BY <1>4, GateWrites, NamesAssumption DEF Names
<1>5. ASSUME NEW c \in Calls,
             \/ QuotaPasses(c) \/ Spawn(c) \/ WriteCaptures(c) \/ Raise(c)
             \/ \E x \in ExecutorResults : Finish(c, Classify(x))
             \/ Finish(c, "timeout")
      PROVE  camp' = camp
  BY <1>5 DEF QuotaPasses, Spawn, WriteCaptures, Raise, Finish
<1>6. ASSUME EndSession \/ Reload \/ Close \/ UNCHANGED vars PROVE camp' = camp
  BY <1>6 DEF EndSession, Reload, Close, vars
<1> QED BY <1>1, <1>2, <1>3, <1>4, <1>5, <1>6, ResumeRetries DEF Next, Progress

(***************************************************************************)
(* No call, failure, crash or resume takes a success back, even though     *)
(* nothing stops the orchestrator from dispatching a done name again.      *)
(***************************************************************************)
THEOREM CompletedStays == Spec => CompletedKept
<1> DEFINE Kept == \A n \in Names : camp[n].status = "success" => camp'[n].status = "success"
<1>1. TypeOK /\ [Next]_vars => [Kept]_camp
  <2> SUFFICES ASSUME TypeOK, [Next]_vars, NEW n \in Names, camp[n].status = "success"
               PROVE  camp'[n].status = "success"
    OBVIOUS
  <2>1. ASSUME NEW m \in Names, Written(m) PROVE camp'[n].status = "success"
    BY <2>1 DEF Written, Valid, AllowedTransitions, Absent
  <2>2. ASSUME NEW failed \in SUBSET Names, Retried(failed) PROVE camp'[n].status = "success"
    BY <2>2 DEF Retried
  <2> QED BY <2>1, <2>2, CampaignStep
<1> QED BY <1>1, InitTyped, TypedStep, PTL DEF Spec, Typed, CompletedKept

-----------------------------------------------------------------------------
(* A success is recorded. *)

Orderly == ~ContinueOnFailure /\ ~Overlap

\* While a call is under way nobody else can make its dispatch a failure.
Attended ==
  /\ \A c \in InFlight : name[c] \notin Gates /\ camp[name[c]].status # "failure"
  /\ \A c, d \in InFlight : c # d => name[c] # name[d]

\* The calls under way stay the same or become fewer, and no other record fails.
LEMMA AttendedKept ==
  ASSUME Attended, TypeOK, InFlight' \subseteq InFlight,
         \A c \in InFlight' : name'[c] = name[c],
         \A c \in InFlight' : camp'[name[c]].status = "failure" => camp[name[c]].status = "failure"
  PROVE  Attended'
BY DEF Attended

LEMMA AttendedStep ==
  ASSUME Orderly, Typed, Attended, [Next]_vars
  PROVE  Attended'
<1> USE DEF Typed
<1>0. \A r : Blank("pending").status # "failure"
  BY RecordFields
<1>1. ASSUME NEW c \in Calls, NEW n \in Names \ Gates, StartCall(c, n) PROVE Attended'
  <2>1. InFlight' = InFlight \cup {c} /\ c \notin InFlight
    BY <1>1 DEF StartCall, InFlight, TypeOK
  <2>2. name' = [name EXCEPT ![c] = n] /\ \A d \in InFlight : name[d] # n
    BY <1>1 DEF StartCall, Orderly
  <2>3. PICK failed \in SUBSET Names : Retried(failed)
    BY <1>1, ReopenedRetries DEF StartCall
  <2>4. \A m \in Names : camp'[m].status = "failure" => camp[m].status = "failure"
    BY <2>3, <1>0 DEF Retried
  <2>5. camp'[n].status # "failure"
    <3>1. camp' = Reopened(n)
      BY <1>1 DEF StartCall
    <3>2. CASE camp[n].status = "failure"
      BY <3>1, <3>2, <1>0, ClearedFailure DEF Reopened, Orderly, TypeOK
    <3>3. CASE camp[n].status # "failure"
      BY <2>4, <3>3
    <3> QED BY <3>2, <3>3
  <2>6. \A d \in InFlight : name'[d] = name[d] /\ name[d] \in Names
    BY <2>1, <2>2 DEF TypeOK, InFlight
  <2>7. name'[c] = n
    BY <2>2 DEF TypeOK
  <2> QED BY <2>1, <2>2, <2>4, <2>5, <2>6, <2>7 DEF Attended
<1>2. ASSUME NEW n \in Names, RefuseCall(n) PROVE Attended'
  <2>1. PICK failed \in SUBSET Names : Retried(failed)
    BY <1>2, ReopenedRetries DEF RefuseCall
  <2>2. \A m \in Names : camp'[m].status = "failure" => camp[m].status = "failure"
    BY <2>1, <1>0 DEF Retried
  <2>3. InFlight' = InFlight /\ name' = name /\ \A c \in InFlight : name[c] \in Names
    BY <1>2 DEF RefuseCall, InFlight, TypeOK
  <2> QED BY <2>2, <2>3, AttendedKept
<1>3. ASSUME NEW c \in Calls,
             \/ QuotaPasses(c) \/ Spawn(c) \/ WriteCaptures(c) \/ Raise(c)
             \/ \E r \in Results : Finish(c, r)
      PROVE  Attended'
  <2>1. pc[c] # "idle" /\ camp' = camp
    BY <1>3 DEF QuotaPasses, Spawn, WriteCaptures, Raise, Finish
  <2>2. \/ \E next : pc' = [pc EXCEPT ![c] = next] /\ name' = name
        \/ pc' = [pc EXCEPT ![c] = "idle"] /\ name' = [name EXCEPT ![c] = 1]
    BY <1>3 DEF QuotaPasses, Spawn, WriteCaptures, Raise, Finish, Returns, Forgets
  <2>3. InFlight' \subseteq InFlight /\ \A d \in InFlight' : name'[d] = name[d]
    BY <2>1, <2>2 DEF InFlight, TypeOK
  <2> QED BY <2>1, <2>3, AttendedKept
<1>4. ASSUME NEW c \in Calls, UpdateCampaign(c) PROVE Attended'
  <2>1. pc[c] # "idle" /\ pc' = [pc EXCEPT ![c] = "idle"] /\ name' = [name EXCEPT ![c] = 1]
    BY <1>4 DEF UpdateCampaign, Returns, Forgets
  <2>2. InFlight' = InFlight \ {c} /\ c \in InFlight /\ \A d \in InFlight' : name'[d] = name[d]
    BY <2>1 DEF InFlight, TypeOK
  <2>3. \A m \in Names \ {name[c]} : camp'[m] = camp[m]
    BY <1>4, UpdateWrites DEF Written
  <2>4. \A d \in InFlight' : name[d] \in Names \ {name[c]}
    BY <2>2 DEF Attended, InFlight, TypeOK
  <2> QED BY <2>2, <2>3, <2>4, AttendedKept
<1>5. ASSUME NEW n \in Gates, NEW approved \in BOOLEAN, RecordGate(n, approved) PROVE Attended'
  <2>1. \A m \in Names \ {n} : camp'[m] = camp[m]
    BY <1>5, GateWrites, NamesAssumption DEF Written, Names
  <2>2. InFlight' = InFlight /\ name' = name
    BY <1>5 DEF RecordGate, InFlight
  <2>3. \A c \in InFlight : name[c] \in Names \ {n}
    BY DEF Attended, InFlight, TypeOK
  <2> QED BY <2>1, <2>2, <2>3, AttendedKept
<1>6. ASSUME EndSession PROVE Attended'
  BY <1>6 DEF EndSession, InFlight, Attended
<1>7. ASSUME Reload \/ Close \/ UNCHANGED vars PROVE Attended'
  <2>1. InFlight' = InFlight /\ name' = name /\ camp' = camp
    BY <1>7 DEF Reload, Close, vars, InFlight
  <2> QED BY <2>1, AttendedKept
<1>8. ASSUME ResumeCampaign PROVE Attended'
  <2>1. PICK failed \in SUBSET Names : Retried(failed)
    BY <1>8, ResumeRetries
  <2>2. \A m \in Names : camp'[m].status = "failure" => camp[m].status = "failure"
    BY <2>1, <1>0 DEF Retried
  <2>3. InFlight' = InFlight /\ name' = name /\ \A c \in InFlight : name[c] \in Names
    BY <1>8 DEF ResumeCampaign, InFlight, TypeOK
  <2> QED BY <2>2, <2>3, AttendedKept
<1>9. \A x \in ExecutorResults : Classify(x) \in Results
  BY ClassifyType
<1>10. "timeout" \in Results
  BY DEF Results
<1> QED BY <1>1, <1>2, <1>3, <1>4, <1>5, <1>6, <1>7, <1>8, <1>9, <1>10 DEF Next, Progress

\* Where a captured call returns and the server is still up, it ran its campaign update.
LEMMA CapturedReturns ==
  ASSUME Typed, [Next]_vars, NEW c \in Calls,
         pc[c] = "captured", pc'[c] = "idle", session' = "up"
  PROVE  UpdateCampaign(c)
<1>0. pc \in [Calls -> {"idle", "quota", "launched", "running", "recorded", "captured"}]
  BY DEF Typed, TypeOK
<1>1. ASSUME NEW d \in Calls, NEW n \in Names, StartCall(d, n) PROVE FALSE
  BY <1>1, <1>0 DEF StartCall, Serving
<1>2. ASSUME NEW n \in Names, RefuseCall(n) PROVE FALSE
  BY <1>2 DEF RefuseCall, Serving
<1>3. ASSUME NEW d \in Calls, QuotaPasses(d) \/ Spawn(d) \/ Raise(d) PROVE FALSE
  BY <1>3 DEF QuotaPasses, Spawn, Raise, Serving
<1>4. ASSUME NEW d \in Calls, NEW r, Finish(d, r) PROVE FALSE
  BY <1>4 DEF Finish, Serving
<1>5. ASSUME NEW d \in Calls, WriteCaptures(d) PROVE FALSE
  BY <1>5, <1>0 DEF WriteCaptures
<1>6. ASSUME NEW d \in Calls, UpdateCampaign(d) PROVE d = c
  BY <1>6, <1>0 DEF UpdateCampaign, Returns, Forgets
<1>7. ASSUME NEW n \in Gates, NEW approved \in BOOLEAN, RecordGate(n, approved) PROVE FALSE
  BY <1>7 DEF RecordGate, Serving
<1>8. ASSUME EndSession PROVE FALSE
  BY <1>8 DEF EndSession
<1>9. ASSUME Reload \/ Close \/ ResumeCampaign \/ UNCHANGED vars PROVE FALSE
  BY <1>9 DEF Reload, Close, ResumeCampaign, vars
<1> QED
  BY <1>1, <1>2, <1>3, <1>4, <1>5, <1>6, <1>7, <1>8, <1>9 DEF Next, Progress

LEMMA SuccessAccepted ==
  ASSUME TypeOK, Attended, NEW c \in Calls, pc[c] = "captured", out[c] = "success", UpdateCampaign(c)
  PROVE  camp'[name[c]].status = "success"
<1>1. name[c] \in Names /\ camp[name[c]] \in CampaignRecords
  BY DEF TypeOK
<1>2. camp[name[c]].status # "failure"
  BY DEF Attended, InFlight
<1>3. camp[name[c]].status \in {Absent, "pending", "success", "resumable"}
  BY <1>1, <1>2, CampaignStatuses
<1>4. Verdict("success").status = "success"
  BY VerdictType DEF Results
<1>5. CASE Accepts(camp[name[c]], out[c])
  BY <1>1, <1>4, <1>5 DEF UpdateCampaign, TypeOK
<1>6. CASE ~Accepts(camp[name[c]], out[c])
  <2>1. camp[name[c]].status = "success"
    BY <1>3, <1>4, <1>6 DEF Accepts, Valid, AllowedTransitions
  <2> QED BY <1>6, <2>1 DEF UpdateCampaign
<1> QED BY <1>5, <1>6

(***************************************************************************)
(* In a campaign that stops on failure, whose orchestrator has one call    *)
(* per name under way, a call that succeeded leaves its dispatch recorded  *)
(* as succeeded, however often it had failed before.                       *)
(***************************************************************************)
THEOREM SuccessRecorded == Orderly => (Spec => SuccessReported)
<1> SUFFICES ASSUME Orderly PROVE Spec => SuccessReported
  OBVIOUS
<1>1. Init => Attended
  BY DEF Init, Attended, InFlight
<1>2. Typed /\ Attended /\ [Next]_vars => Attended'
  BY AttendedStep
<1>3. Typed /\ Attended /\ [Next]_vars => [ResultKept("success")]_vars
  <2> SUFFICES ASSUME Typed, Attended, [Next]_vars, NEW c \in Calls,
                      pc[c] = "captured", pc'[c] = "idle", session' = "up", out[c] = "success"
               PROVE  camp'[name[c]].status = Verdict("success").status
    BY DEF ResultKept
  <2>1. UpdateCampaign(c)
    BY CapturedReturns
  <2>2. Verdict("success").status = "success"
    BY VerdictType DEF Results
  <2> QED BY <2>1, <2>2, SuccessAccepted DEF Typed
<1> QED BY <1>1, <1>2, <1>3, InitTyped, TypedStep, PTL DEF Spec, SuccessReported

-----------------------------------------------------------------------------
(* The campaign file is a ledger. *)

Ledgered == [n \in Names |-> camp[n].status]

LEMMA LedgerStatuses == Ledger!Statuses = Statuses /\ Ledger!Absent = Absent
BY DEF Statuses, Absent, Ledger!Statuses, Ledger!Absent

LEMMA LedgerInit ==
  ASSUME TypeOK
  PROVE  Ledger!Init
<1>1. \A n \in Names : camp[n].status \in Statuses \cup {Absent}
  BY CampaignStatuses DEF TypeOK, Statuses
<1>2. Ledgered \in [Names -> Statuses \cup {Absent}]
  BY <1>1 DEF Ledgered
<1> QED BY <1>2, LedgerStatuses DEF Ledgered, Ledger!Init

\* One record changes: a dispatch is enlisted, or makes a move of the table.
LEMMA LedgerMoves ==
  ASSUME NEW n \in Names, NEW s \in Statuses,
         camp[n].status = Absent \/ Valid(camp[n].status, s),
         \A m \in Names : camp'[m].status = IF m = n THEN s ELSE camp[m].status
  PROVE  Ledger!Next
<1>1. [m \in Names |-> camp'[m].status] = [[m \in Names |-> camp[m].status] EXCEPT ![n] = s]
  OBVIOUS
<1>2. [m \in Names |-> camp[m].status][n] = camp[n].status /\ s \in Ledger!Statuses
  BY LedgerStatuses
<1>3. CASE camp[n].status = Absent
  <2>1. Ledger!Enlist(n, s)
    BY <1>1, <1>2, <1>3, LedgerStatuses DEF Ledger!Enlist
  <2> QED BY <1>2, <2>1, Zenon DEF Ledger!Next
<1>4. CASE Valid(camp[n].status, s)
  <2>1. Ledger!Valid(camp[n].status, s)
    BY <1>4 DEF Valid, AllowedTransitions, Ledger!Valid, Ledger!AllowedTransitions
  <2>2. Ledger!Move(n, s)
    BY <1>1, <1>2, <2>1 DEF Ledger!Move
  <2> QED BY <1>2, <2>2, Zenon DEF Ledger!Next
<1> QED BY <1>3, <1>4

LEMMA WrittenMoves ==
  ASSUME NEW n \in Names, Written(n)
  PROVE  Ledger!Next
<1>1. PICK s \in Statuses : camp'[n].status = s
  BY DEF Written
<1>2. camp[n].status = Absent \/ Valid(camp[n].status, s)
  BY <1>1 DEF Written
<1>3. \A m \in Names : camp'[m].status = IF m = n THEN s ELSE camp[m].status
  BY <1>1 DEF Written
<1> QED BY <1>2, <1>3, LedgerMoves

LEMMA RetriedMoves ==
  ASSUME NEW failed \in SUBSET Names, Retried(failed)
  PROVE  Ledger!Next
<1>1. \A n \in failed : [m \in Names |-> camp[m].status][n] = "failure"
  BY DEF Retried
<1>2. \A n \in Names : camp'[n].status = IF n \in failed THEN "pending"
                                         ELSE [m \in Names |-> camp[m].status][n]
  BY RecordFields DEF Retried
<1>3. Ledger!Retry(failed)
  BY <1>1, <1>2 DEF Ledger!Retry
<1> QED BY <1>3, Zenon DEF Ledger!Next

(***************************************************************************)
(* The campaign file implements the ledger, with every reset, halt, crash  *)
(* and resume of the CLI and with the server's calls overlapping.          *)
(***************************************************************************)
THEOREM CampaignImplementsLedger == Spec => ImplementsLedger
<1>1. Typed => Ledger!Init
  BY LedgerInit DEF Typed
<1>2. Typed /\ [Next]_vars => [Ledger!Next]_Ledgered
  <2> SUFFICES ASSUME Typed, [Next]_vars
               PROVE  Ledger!Next \/ Ledgered' = Ledgered
    OBVIOUS
  <2>1. CASE camp' = camp
    BY <2>1 DEF Ledgered
  <2>2. CASE \E n \in Names : Written(n)
    BY <2>2, WrittenMoves
  <2>3. CASE \E failed \in SUBSET Names : Retried(failed)
    BY <2>3, RetriedMoves
  <2> QED BY <2>1, <2>2, <2>3, CampaignStep DEF Typed
<1>3. Ledger!Spec <=> Ledger!Init /\ [][Ledger!Next]_Ledgered
  BY DEF Ledger!Spec, Ledgered
<1> QED BY <1>1, <1>2, <1>3, InitTyped, TypedStep, PTL DEF Spec, ImplementsLedger

-----------------------------------------------------------------------------
(* A success in the campaign file is backed by the per-dispatch files. *)

\* What a call knows of the file that is its own.
Owned(c) ==
  pc[c] \notin {"idle", "quota"} =>
    /\ files[id[c]].name = name[c]
    /\ files[id[c]].kitchen = boot
    /\ pc[c] = "launched" => files[id[c]].status = "pending"
    /\ pc[c] = "running" => files[id[c]].status \in {"pending", "running"}
    /\ pc[c] \in {"recorded", "captured"} /\ out[c] = "success" => files[id[c]].status = "success"
    /\ pc[c] = "captured" /\ out[c] = "success" /\ name[c] \in Capturing => files[id[c]].captured

Backed == SuccessBacked /\ CapturesBeforeSuccess

\* Only a running session has calls under way.
Attached == session # "up" => \A c \in Calls : pc[c] = "idle"

FilesInv == Attached /\ Backed /\ \A c \in Calls : Owned(c)

\* No file loses its name, its success or its captures.
FilesGrow ==
  \A i \in DOMAIN files :
    /\ i \in DOMAIN files'
    /\ files'[i].name = files[i].name
    /\ files[i].status = "success" => files'[i].status = "success"
    /\ files[i].captured => files'[i].captured

LEMMA BackedGrows ==
  ASSUME Backed, FilesGrow,
         \A n \in Names \ Gates : camp'[n].status = "success" => camp[n].status = "success"
  PROVE  Backed'
<1>1. \A n \in Capturing \ Gates : n \in Names \ Gates
  BY NamesAssumption DEF Names
<1>2. SuccessBacked'
  BY DEF Backed, SuccessBacked, FilesGrow
<1>3. CapturesBeforeSuccess'
  BY <1>1 DEF Backed, CapturesBeforeSuccess, FilesGrow
<1> QED BY <1>2, <1>3 DEF Backed

\* A call's own file is no other call's.
LEMMA OthersOwned ==
  ASSUME Typed, FilesInv, NEW c \in Calls, NEW d \in Calls, d # c,
         pc'[d] = pc[d], name'[d] = name[d], id'[d] = id[d], out'[d] = out[d], boot' = boot,
         \A i \in DOMAIN files : i # id[c] => files'[i] = files[i]
  PROVE  Owned(d)'
<1>1. CASE pc[d] \in {"idle", "quota"}
  BY <1>1 DEF Owned
<1>2. CASE pc[d] \notin {"idle", "quota"}
  <2>1. id[d] \in DOMAIN files /\ id[d] # id[c]
    BY <1>2, LenProperties DEF Typed, TypeOK, Identified
  <2>2. files'[id'[d]] = files[id[d]]
    BY <2>1
  <2> QED BY <1>2, <2>2 DEF FilesInv, Owned
<1> QED BY <1>1, <1>2

\* A call moves on and may change its own file.
LEMMA OwnFileStep ==
  ASSUME Typed, FilesInv, NEW c \in Calls, pc[c] \notin {"idle", "quota"}, session = "up",
         NEW next, pc' = [pc EXCEPT ![c] = next],
         UNCHANGED <<session, boot, camp, name, id>>,
         \A d \in Calls \ {c} : out'[d] = out[d],
         DOMAIN files' = DOMAIN files,
         \A i \in DOMAIN files : i # id[c] => files'[i] = files[i],
         files'[id[c]].name = files[id[c]].name,
         files[id[c]].status = "success" => files'[id[c]].status = "success",
         files[id[c]].captured => files'[id[c]].captured,
         Owned(c)'
  PROVE  FilesInv'
<1>1. FilesGrow
  BY DEF FilesGrow
<1>2. Backed'
  BY <1>1, BackedGrows DEF FilesInv
<1>3. Attached'
  BY DEF Attached
<1>4. \A d \in Calls \ {c} : Owned(d)'
  BY OthersOwned DEF Typed, TypeOK
<1> QED BY <1>2, <1>3, <1>4 DEF FilesInv

\* A call returns without a word to the campaign file.
LEMMA QuietReturn ==
  ASSUME Typed, FilesInv, NEW c \in Calls, Returns(c), session = "up",
         UNCHANGED <<session, boot, camp, files>>
  PROVE  FilesInv'
<1>1. /\ pc' = [pc EXCEPT ![c] = "idle"] /\ name' = [name EXCEPT ![c] = 1]
      /\ id' = [id EXCEPT ![c] = 0] /\ out' = [out EXCEPT ![c] = "infra"]
  BY DEF Returns, Forgets
<1>2. Owned(c)'
  BY <1>1 DEF Owned, Typed, TypeOK
<1>3. \A d \in Calls \ {c} : Owned(d)'
  BY <1>1, OthersOwned DEF Typed, TypeOK
<1>4. FilesGrow
  BY DEF FilesGrow
<1>5. Backed'
  BY <1>4, BackedGrows DEF FilesInv
<1> QED BY <1>2, <1>3, <1>5 DEF FilesInv, Attached

\* Nobody's file or call changes, and no record outside the gates becomes a success.
LEMMA CallsOwned ==
  ASSUME FilesInv, UNCHANGED <<boot, files, pc, name, id, out>>, session' = session,
         \A n \in Names \ Gates : camp'[n].status = "success" => camp[n].status = "success"
  PROVE  FilesInv'
<1>1. FilesGrow
  BY DEF FilesGrow
<1>2. Backed'
  BY <1>1, BackedGrows DEF FilesInv
<1> QED BY <1>2 DEF FilesInv, Attached, Owned

\* ... while no session runs, so that a new one may start.
LEMMA IdleOwned ==
  ASSUME FilesInv, session # "up", UNCHANGED <<files, pc>>,
         \A n \in Names \ Gates : camp'[n].status = "success" => camp[n].status = "success"
  PROVE  FilesInv'
<1>1. FilesGrow
  BY DEF FilesGrow
<1>2. Backed'
  BY <1>1, BackedGrows DEF FilesInv
<1> QED BY <1>2 DEF FilesInv, Attached, Owned

LEMMA RetriedSuccess ==
  ASSUME NEW failed \in SUBSET Names, Retried(failed), NEW n \in Names, camp'[n].status = "success"
  PROVE  camp[n].status = "success"
<1>1. Blank("pending").status # "success"
  BY RecordFields
<1> QED BY <1>1 DEF Retried

LEMMA StartOwned ==
  ASSUME Typed, FilesInv, NEW c \in Calls, NEW n \in Names, StartCall(c, n)
  PROVE  FilesInv'
<1>1. /\ pc[c] = "idle" /\ pc' = [pc EXCEPT ![c] = "quota"] /\ session = "up"
      /\ name' = [name EXCEPT ![c] = n] /\ UNCHANGED <<session, boot, files, id, out>>
  BY DEF StartCall, Serving
<1>2. \A m \in Names : camp'[m].status = "success" => camp[m].status = "success"
  BY ReopenedRetries, RetriedSuccess DEF StartCall, Typed
<1>3. Owned(c)'
  BY <1>1 DEF Owned, Typed, TypeOK
<1>4. \A d \in Calls \ {c} : Owned(d)'
  BY <1>1, OthersOwned DEF Typed, TypeOK
<1>5. FilesGrow
  BY <1>1 DEF FilesGrow
<1>6. Backed'
  BY <1>2, <1>5, BackedGrows DEF FilesInv
<1> QED BY <1>1, <1>3, <1>4, <1>6 DEF FilesInv, Attached

LEMMA LaunchOwned ==
  ASSUME Typed, FilesInv, NEW c \in Calls, QuotaPasses(c)
  PROVE  FilesInv'
<1> DEFINE new == [name |-> name[c], status |-> "pending", kitchen |-> boot, captured |-> FALSE]
<1>1. /\ pc[c] = "quota" /\ pc' = [pc EXCEPT ![c] = "launched"] /\ session = "up"
      /\ files' = Append(files, new) /\ id' = [id EXCEPT ![c] = Len(files) + 1]
      /\ UNCHANGED <<session, boot, camp, active, name, out>>
  BY DEF QuotaPasses, Serving
<1>2. new \in DispatchFiles /\ files \in Seq(DispatchFiles) /\ Len(files) \in Nat
  BY DEF Typed, TypeOK, DispatchFiles
<1>3. /\ DOMAIN files = 1..Len(files) /\ DOMAIN files' = 1..(Len(files) + 1)
      /\ \A i \in 1..Len(files) : files'[i] = files[i]
      /\ files'[Len(files) + 1] = new
  <2> HIDE DEF new
  <2> QED BY <1>1, <1>2, AppendProperties
<1>4. FilesGrow
  BY <1>2, <1>3 DEF FilesGrow
<1>5. Backed'
  BY <1>1, <1>4, BackedGrows DEF FilesInv
<1>6. id'[c] = Len(files) + 1 /\ pc'[c] = "launched"
  BY <1>1 DEF Typed, TypeOK
<1>7. Owned(c)'
  BY <1>1, <1>3, <1>6 DEF Owned
<1>8. \A d \in Calls \ {c} : Owned(d)'
  BY <1>1, <1>3, OthersOwned DEF Typed, TypeOK
<1> QED BY <1>1, <1>5, <1>7, <1>8 DEF FilesInv, Attached

LEMMA SpawnOwned ==
  ASSUME Typed, FilesInv, NEW c \in Calls, Spawn(c)
  PROVE  FilesInv'
<1>1. /\ pc[c] = "launched" /\ pc' = [pc EXCEPT ![c] = "running"] /\ session = "up"
      /\ UNCHANGED <<session, boot, camp, name, id, out>>
  BY DEF Spawn, Serving
<1>2. id[c] \in 1..Len(files) /\ Owned(c) /\ pc'[c] = "running"
  BY <1>1 DEF Typed, TypeOK, Identified, FilesInv
<1>3. files[id[c]] \in DispatchFiles /\ DOMAIN files = 1..Len(files)
  BY <1>2, ElementOfSeq, LenProperties DEF Typed, TypeOK
<1>4. CASE files' = files
  BY <1>1, <1>2, <1>4, OwnFileStep DEF Owned
<1>5. CASE files' = [files EXCEPT ![id[c]].status = "running"]
  <2>1. /\ DOMAIN files' = DOMAIN files
        /\ \A i \in DOMAIN files : i # id[c] => files'[i] = files[i]
        /\ files'[id[c]] = [files[id[c]] EXCEPT !.status = "running"]
    BY <1>2, <1>3, <1>5
  <2>2. /\ files'[id[c]].name = files[id[c]].name /\ files'[id[c]].kitchen = files[id[c]].kitchen
        /\ files'[id[c]].status = "running" /\ files'[id[c]].captured = files[id[c]].captured
    BY <2>1, <1>3 DEF DispatchFiles
  <2>3. files[id[c]].status = "pending"
    BY <1>1, <1>2 DEF Owned
  <2>4. Owned(c)'
    BY <1>1, <1>2, <2>2 DEF Owned
  <2> QED BY <1>1, <2>1, <2>2, <2>3, <2>4, OwnFileStep
<1> QED BY <1>4, <1>5 DEF Spawn

LEMMA FinishOwned ==
  ASSUME Typed, FilesInv, NEW c \in Calls, NEW r \in Results, Finish(c, r)
  PROVE  FilesInv'
<1> DEFINE s == Verdict(r).status
<1>1. s \in {"success", "failure", "resumable"} /\ (r = "success" => s = "success")
  BY VerdictType
<1> HIDE DEF s
<1>2. /\ pc[c] \in {"launched", "running"} /\ session = "up"
      /\ UNCHANGED <<session, boot, camp>>
  BY DEF Finish, Serving
<1>3. id[c] \in 1..Len(files) /\ Owned(c)
  BY <1>2 DEF Typed, TypeOK, Identified, FilesInv
<1>4. files[id[c]] \in DispatchFiles /\ DOMAIN files = 1..Len(files)
  BY <1>3, ElementOfSeq, LenProperties DEF Typed, TypeOK
<1>5. CASE Valid(files[id[c]].status, s)
  <2>1. /\ files' = [files EXCEPT ![id[c]].status = s]
        /\ out' = [out EXCEPT ![c] = r] /\ pc' = [pc EXCEPT ![c] = "recorded"]
        /\ UNCHANGED <<name, id>>
    BY <1>5 DEF Finish, s
  <2>2. /\ DOMAIN files' = DOMAIN files
        /\ \A i \in DOMAIN files : i # id[c] => files'[i] = files[i]
        /\ files'[id[c]] = [files[id[c]] EXCEPT !.status = s]
    BY <1>3, <1>4, <2>1
  <2>3. /\ files'[id[c]].name = files[id[c]].name /\ files'[id[c]].kitchen = files[id[c]].kitchen
        /\ files'[id[c]].status = s /\ files'[id[c]].captured = files[id[c]].captured
    BY <2>2, <1>4 DEF DispatchFiles
  <2>4. files[id[c]].status # "success"
    BY <1>2, <1>3 DEF Owned
  <2>5. pc'[c] = "recorded" /\ out'[c] = r /\ \A d \in Calls \ {c} : out'[d] = out[d]
    BY <2>1 DEF Typed, TypeOK
  <2>6. Owned(c)'
    BY <1>1, <1>2, <1>3, <2>1, <2>3, <2>5 DEF Owned
  <2> QED BY <1>2, <2>1, <2>2, <2>3, <2>4, <2>5, <2>6, OwnFileStep
<1>6. CASE ~Valid(files[id[c]].status, s)
  <2>1. Returns(c) /\ UNCHANGED files
    BY <1>6 DEF Finish, s
  <2> QED BY <1>2, <2>1, QuietReturn
<1> QED BY <1>5, <1>6

LEMMA CapturesOwned ==
  ASSUME Typed, FilesInv, NEW c \in Calls, WriteCaptures(c)
  PROVE  FilesInv'
<1>1. /\ pc[c] = "recorded" /\ pc' = [pc EXCEPT ![c] = "captured"] /\ session = "up"
      /\ UNCHANGED <<session, boot, camp, name, id, out>>
  BY DEF WriteCaptures
<1>2. id[c] \in 1..Len(files) /\ Owned(c) /\ pc'[c] = "captured"
  BY <1>1 DEF Typed, TypeOK, Identified, FilesInv
<1>3. files[id[c]] \in DispatchFiles /\ DOMAIN files = 1..Len(files)
  BY <1>2, ElementOfSeq, LenProperties DEF Typed, TypeOK
<1>4. CASE ~(out[c] = "success" /\ name[c] \in Capturing)
  <2>1. files' = files
    BY <1>4 DEF WriteCaptures
  <2>2. Owned(c)'
    BY <1>1, <1>2, <1>4, <2>1 DEF Owned
  <2> QED BY <1>1, <2>1, <2>2, OwnFileStep
<1>5. CASE out[c] = "success" /\ name[c] \in Capturing
  <2>1. files' = [files EXCEPT ![id[c]].captured = TRUE]
    BY <1>5 DEF WriteCaptures
  <2>2. /\ DOMAIN files' = DOMAIN files
        /\ \A i \in DOMAIN files : i # id[c] => files'[i] = files[i]
        /\ files'[id[c]] = [files[id[c]] EXCEPT !.captured = TRUE]
    BY <1>2, <1>3, <2>1
  <2>3. /\ files'[id[c]].name = files[id[c]].name /\ files'[id[c]].kitchen = files[id[c]].kitchen
        /\ files'[id[c]].status = files[id[c]].status /\ files'[id[c]].captured
    BY <2>2, <1>3 DEF DispatchFiles
  <2>4. Owned(c)'
    BY <1>1, <1>2, <2>3 DEF Owned
  <2> QED BY <1>1, <2>2, <2>3, <2>4, OwnFileStep
<1> QED BY <1>4, <1>5

\* The one step that records a success outside the gates finds its file ready.
LEMMA UpdateOwned ==
  ASSUME Typed, FilesInv, NEW c \in Calls, UpdateCampaign(c)
  PROVE  FilesInv'
<1>1. pc[c] = "captured" /\ session = "up" /\ Returns(c) /\ UNCHANGED <<session, boot, files>>
  BY DEF UpdateCampaign
<1>2. /\ pc' = [pc EXCEPT ![c] = "idle"] /\ name' = [name EXCEPT ![c] = 1]
      /\ id' = [id EXCEPT ![c] = 0] /\ out' = [out EXCEPT ![c] = "infra"]
  BY <1>1 DEF Returns, Forgets
<1>3. Owned(c)'
  BY <1>2 DEF Owned, Typed, TypeOK
<1>4. \A d \in Calls \ {c} : Owned(d)'
  BY <1>1, <1>2, OthersOwned DEF Typed, TypeOK
<1>5. \A m \in Names \ {name[c]} : camp'[m] = camp[m]
  BY UpdateWrites DEF Written, Typed
<1>6. camp'[name[c]].status = "success" => camp[name[c]].status = "success" \/ out[c] = "success"
  BY UpdateWrites, VerdictType DEF Typed, TypeOK
<1>7. /\ id[c] \in DOMAIN files /\ files[id[c]].name = name[c]
      /\ out[c] = "success" => files[id[c]].status = "success"
      /\ out[c] = "success" /\ name[c] \in Capturing => files[id[c]].captured
  BY <1>1, LenProperties DEF Typed, TypeOK, Identified, FilesInv, Owned
<1>8. SuccessBacked'
  BY <1>1, <1>5, <1>6, <1>7 DEF FilesInv, Backed, SuccessBacked
<1>9. \A n \in Capturing : n \in Names
  BY NamesAssumption DEF Names
<1>10. CapturesBeforeSuccess'
  BY <1>1, <1>5, <1>6, <1>7, <1>9 DEF FilesInv, Backed, CapturesBeforeSuccess
<1> QED BY <1>1, <1>3, <1>4, <1>8, <1>10 DEF FilesInv, Backed, Attached

LEMMA FilesStep == Typed /\ FilesInv /\ [Next]_vars => FilesInv'
<1> SUFFICES ASSUME Typed, FilesInv, [Next]_vars PROVE FilesInv'
  OBVIOUS
<1>1. ASSUME NEW n \in Names, RefuseCall(n) PROVE FilesInv'
  <2>1. \A m \in Names : camp'[m].status = "success" => camp[m].status = "success"
    BY <1>1, ReopenedRetries, RetriedSuccess DEF RefuseCall, Typed
  <2> QED BY <1>1, <2>1, CallsOwned DEF RefuseCall
<1>2. ASSUME NEW c \in Calls, Raise(c) PROVE FilesInv'
  BY <1>2, QuietReturn DEF Raise, Serving
<1>3. ASSUME NEW n \in Gates, NEW approved \in BOOLEAN, RecordGate(n, approved) PROVE FilesInv'
  <2>1. \A m \in Names \ {n} : camp'[m] = camp[m]
    BY <1>3, GateWrites, NamesAssumption DEF Written, Names, Typed
  <2> QED BY <1>3, <2>1, CallsOwned DEF RecordGate
<1>4. ASSUME EndSession PROVE FilesInv'
  <2>1. FilesGrow
    BY <1>4 DEF EndSession, FilesGrow
  <2>2. Backed'
    BY <1>4, <2>1, BackedGrows DEF EndSession, FilesInv
  <2> QED BY <1>4, <2>2 DEF EndSession, FilesInv, Attached, Owned
<1>5. ASSUME Reload \/ Close PROVE FilesInv'
  <2>1. session # "up" /\ UNCHANGED <<camp, files, pc>>
    BY <1>5 DEF Reload, Close
  <2> QED BY <2>1, IdleOwned
<1>6. ASSUME ResumeCampaign PROVE FilesInv'
  <2>1. \A m \in Names : camp'[m].status = "success" => camp[m].status = "success"
    BY <1>6, ResumeRetries, RetriedSuccess DEF Typed
  <2>2. session # "up" /\ UNCHANGED <<files, pc>>
    BY <1>6 DEF ResumeCampaign
  <2> QED BY <2>1, <2>2, IdleOwned
<1>7. CASE UNCHANGED vars
  BY <1>7, CallsOwned DEF vars
<1>8. ASSUME NEW c \in Calls, Progress(c) PROVE FilesInv'
  <2>1. ASSUME NEW x \in ExecutorResults, Finish(c, Classify(x)) PROVE FilesInv'
    BY <2>1, ClassifyType, FinishOwned
  <2>2. ASSUME Finish(c, "timeout") PROVE FilesInv'
    BY <2>2, FinishOwned DEF Results
  <2> QED BY <1>8, <2>1, <2>2, LaunchOwned, SpawnOwned, CapturesOwned, UpdateOwned DEF Progress
<1> QED BY <1>1, <1>2, <1>3, <1>4, <1>5, <1>6, <1>7, <1>8, StartOwned DEF Next

LEMMA FilesInit == Init => FilesInv
<1> SUFFICES ASSUME Init PROVE FilesInv
  OBVIOUS
<1>1. \A n \in Names : camp[n].status # "success"
  BY RecordFields DEF Init, Absent
<1>2. \A n \in Capturing : n \in Names
  BY NamesAssumption DEF Names
<1> QED BY <1>1, <1>2 DEF Init, FilesInv, Backed, SuccessBacked, CapturesBeforeSuccess, Attached, Owned

(***************************************************************************)
(* Whatever crashes and whenever, a dispatch the campaign counts as done   *)
(* has a per-dispatch file that says so ...                                *)
(***************************************************************************)
THEOREM SuccessIsBacked == Spec => []SuccessBacked
<1>1. FilesInv => SuccessBacked
  BY DEF FilesInv, Backed
<1> QED BY <1>1, FilesInit, FilesStep, InitTyped, TypedStep, PTL DEF Spec

\* ... and that holds the values it was to hand on.
THEOREM CapturesFirst == Spec => []CapturesBeforeSuccess
<1>1. FilesInv => CapturesBeforeSuccess
  BY DEF FilesInv, Backed
<1> QED BY <1>1, FilesInit, FilesStep, InitTyped, TypedStep, PTL DEF Spec

(***************************************************************************)
(* The clean-up of old sessions never takes the kitchen of a call that is  *)
(* still waiting for its L2 session.                                       *)
(***************************************************************************)
THEOREM LiveIsProtected == Spec => []LiveProtected
<1>1. Typed /\ FilesInv => LiveProtected
  <2> SUFFICES ASSUME Typed, FilesInv, NEW c \in Calls, pc[c] \in {"launched", "running"}
               PROVE  boot \in ProtectedKitchens
    BY DEF LiveProtected
  <2>1. id[c] \in DOMAIN files /\ Owned(c)
    BY LenProperties DEF Typed, TypeOK, Identified, FilesInv
  <2>2. files[id[c]].kitchen = boot /\ files[id[c]].status \notin Terminal
    BY <2>1 DEF Owned, Terminal
  <2> QED BY <2>1, <2>2 DEF ProtectedKitchens
<1> QED BY <1>1, FilesInit, FilesStep, InitTyped, TypedStep, PTL DEF Spec

\* Every call under way has its slot and its protected kitchen.
THEOREM ServerBooksKept == Spec => []ServerBooks
<1> QED BY CampaignTyped, SlotsCorrect, LiveIsProtected, PTL DEF ServerBooks

-----------------------------------------------------------------------------
(* A session starts with something to offer. *)

\* A non-empty set of names has a first one: initial segments are well-founded by inclusion.
LEMMA Smallest ==
  ASSUME NEW n \in Nat, NEW E \in SUBSET (1..n), E # {}
  PROVE  \E i \in E : \A j \in E : i <= j
<1> DEFINE T == {1..i : i \in E}
           R == StrictSubsetOrdering(1..n)
<1>1. IsFiniteSet(1..n)
  BY FS_Interval
<1>2. \A i \in E : 1..i \subseteq 1..n
  OBVIOUS
<1>3. T \subseteq FiniteSubsetsOf(1..n)
  BY <1>1, <1>2, FS_Subset DEF FiniteSubsetsOf
<1>4. IsWellFoundedOn(R, FiniteSubsetsOf(1..n))
  BY <1>1, FS_StrictSubsetOrderingWellFounded
<1>5. T # {}
  OBVIOUS
<1>6. \E x \in T : \A y \in T : ~(<<y, x>> \in R)
  <2> HIDE DEF T, R
  <2> QED BY <1>3, <1>4, <1>5, WFMin
<1>7. PICK i \in E : \A j \in E : ~(<<1..j, 1..i>> \in R)
  BY <1>6
<1>8. \A j \in E : ~(1..j \subseteq 1..i /\ 1..j # 1..i)
  BY <1>2, <1>7 DEF StrictSubsetOrdering
<1>9. ASSUME NEW j \in E, j < i PROVE FALSE
  <2>1. 1..j \subseteq 1..i /\ i \in 1..i /\ i \notin 1..j
    BY <1>9
  <2> QED BY <2>1, <1>8
<1> QED BY <1>9

\* NextDispatch answers 0, the empty name, only when there is nothing to offer.
LEMMA NothingOffered ==
  ASSUME NEW content, DOMAIN content = Names, NextDispatch(content) = 0
  PROVE  \A n \in Names : content[n].status \notin {"resumable", "pending"}
<1>1. CASE Offered(content) = {}
  BY <1>1 DEF Offered
<1>2. CASE Offered(content) # {}
  <2>1. Offered(content) \in SUBSET (1..N) /\ N \in Nat
    BY NamesAssumption DEF Offered, Names
  <2>2. \E i \in Offered(content) : \A j \in Offered(content) : i <= j
    BY <1>2, <2>1, Smallest
  <2>3. NextDispatch(content) \in Offered(content)
    BY <1>2, <2>2 DEF NextDispatch, Min
  <2>4. 0 \notin 1..N
    OBVIOUS
  <2> QED BY <2>1, <2>3, <2>4
<1> QED BY <1>1, <1>2

\* After a resume or a reload that starts a session no failure is left.
LEMMA StartsClean ==
  ASSUME TypeOK, [Next]_vars, ~ContinueOnFailure, session # "up", session' = "up"
  PROVE  camp' \in [Names -> CampaignRecords] /\ \A n \in Names : camp'[n].status # "failure"
<1>1. (Reload /\ FailedNames(camp) = {}) \/ ResumeCampaign
  BY DEF Next, vars, Serving, Progress, StartCall, QuotaPasses, Spawn, Finish, WriteCaptures, UpdateCampaign,
     Raise, RefuseCall, RecordGate, EndSession, Reload, Close
<1>2. CASE Reload /\ FailedNames(camp) = {}
  BY <1>2 DEF Reload, FailedNames, TypeOK
<1>3. CASE ResumeCampaign
  <2>1. \A n \in Names : camp[n] \in CampaignRecords
    BY DEF TypeOK
  <2>2. \A n \in Names : camp[n].status = "failure" =>
          Cleared(camp[n]) \in CampaignRecords /\ Cleared(camp[n]).status = "pending"
    BY <2>1, ClearedFailure DEF Cleared
  <2>3. \A n \in Names : n \in FailedNames(camp) <=> camp[n].status = "failure"
    BY DEF FailedNames, TypeOK
  <2>4. camp' = [n \in Names |-> IF n \in FailedNames(camp) THEN Cleared(camp[n]) ELSE camp[n]]
    BY <1>3 DEF ResumeCampaign
  <2> QED BY <2>1, <2>2, <2>3, <2>4
<1> QED BY <1>1, <1>2, <1>3

(***************************************************************************)
(* However the last session ended, crashes in the middle of an update      *)
(* included, `fleet campaign` starts the next one with a dispatch to offer *)
(* or with every dispatch done: nothing that failed or was lost is dropped.*)
(***************************************************************************)
THEOREM ResumeIsComplete == Spec => ResumeComplete
<1>1. TypeOK /\ [Next]_vars =>
        [~ContinueOnFailure /\ session # "up" /\ session' = "up" /\ NextDispatch(camp') = 0
           => \A n \in Names : camp'[n].status \in {Absent, "success"}]_session
  <2> SUFFICES ASSUME TypeOK, [Next]_vars, ~ContinueOnFailure, session # "up", session' = "up",
                      NextDispatch(camp') = 0, NEW n \in Names
               PROVE  camp'[n].status \in {Absent, "success"}
    OBVIOUS
  <2>1. camp' \in [Names -> CampaignRecords] /\ camp'[n].status # "failure"
    BY StartsClean
  <2>2. camp'[n].status \notin {"resumable", "pending"}
    BY <2>1, NothingOffered
  <2> QED BY <2>1, <2>2, CampaignStatuses
<1> QED BY <1>1, CampaignTyped, PTL DEF Spec, ResumeComplete
=============================================================================
