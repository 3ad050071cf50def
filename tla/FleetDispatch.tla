---------------------------- MODULE FleetDispatch ----------------------------
(***************************************************************************)
(* One fleet campaign from its CLI to its MCP server.                      *)
(*                                                                         *)
(* The CLI (cli/fleet) runs an interactive orchestrator session, and with  *)
(* it an MCP server, in a loop: the session ends, the CLI re-reads the     *)
(* campaign file and either starts another session or stops;               *)
(* `fleet campaign --resume` starts over from the file.  The orchestrator  *)
(* calls dispatch_food_truck, several calls at a time, and                 *)
(* record_gate_dispatch.                                                   *)
(*                                                                         *)
(* The server is one asyncio event loop: a call runs alone from one await  *)
(* to the next, so the steps below are those stretches of code.  Between   *)
(* the executor's return and the campaign update no await occurs, but the  *)
(* stretch writes three files, and the process may die after each; it is   *)
(* therefore three steps (recorded, captured, idle) no other call can      *)
(* interleave with (Serving) and a session end can.                        *)
(*                                                                         *)
(* The orchestrator is a language model: it may call any dispatch at any   *)
(* time, in particular one that is done.  Two things are asked of it, both *)
(* from its prompt: a gate is recorded and never dispatched, and (unless   *)
(* Overlap) it has at most one call per name under way.                    *)
(***************************************************************************)
EXTENDS DispatchStates, Sequences, FiniteSets

CONSTANTS
  N,                  \* dispatch names in use
  Manifest,           \* 1..Manifest are in the manifest, the rest are made up on the way
  Gates,              \* the gates of the manifest
  Capturing,          \* dispatches called with a capture argument
  Calls,              \* the calls the orchestrator may have under way
  MaxConcurrent,      \* max_concurrent_dispatches
  ContinueOnFailure,  \* of the campaign recipe
  Overlap,            \* the orchestrator may call one name twice at once
  MaxDispatches,      \* bound: dispatch ids issued
  MaxBoots            \* bound: servers started

ASSUME NamesAssumption ==
  /\ N \in Nat \ {0} /\ Manifest \in 0..N
  /\ Gates \subseteq 1..Manifest /\ Capturing \subseteq 1..N
ASSUME LimitsAssumption == MaxConcurrent \in Nat \ {0} /\ MaxDispatches \in Nat /\ MaxBoots \in Nat
ASSUME CallsAssumption == IsFiniteSet(Calls)
ASSUME PolicyAssumption == ContinueOnFailure \in BOOLEAN /\ Overlap \in BOOLEAN

Names == 1..N

VARIABLES
  session,  \* up: a session and its server run; down: the CLI loop decides; closed: no CLI
  boot,     \* kitchen_id of the last server, a fresh one each boot
  camp,     \* the campaign state file, by name
  files,    \* the per-dispatch state files, in the order of their dispatch ids
  active,   \* FleetSemaphore._active
  pc,       \* where each call is
  name,     \* the dispatch it is about
  id,       \* its dispatch id, 0 before it has one
  out       \* what the executor made of it

vars == <<session, boot, camp, files, active, pc, name, id, out>>

\* A record of the campaign file: it never gets kill metadata or a sidecar.
CampaignRecords ==
  {Blank(s) : s \in {Absent, "pending", "success", "resumable"}}
    \cup {Record("failure", reason, "") : reason \in {"infra", "logic"}}

\* A per-dispatch file lists one dispatch.
DispatchFiles ==
  [name : Names, status : {"pending", "running", "success", "failure", "resumable"},
   kitchen : Nat, captured : BOOLEAN]

Results == {"success", "logic", "infra", "resumable", "timeout"}

InFlight == {c \in Calls : pc[c] # "idle"}

Init ==
  /\ session = "up"
  /\ boot = 1
  /\ camp = [n \in Names |-> Blank(IF n <= Manifest THEN "pending" ELSE Absent)]
  /\ files = << >>
  /\ active = 0
  /\ pc = [c \in Calls |-> "idle"]
  /\ name = [c \in Calls |-> 1]
  /\ id = [c \in Calls |-> 0]
  /\ out = [c \in Calls |-> "infra"]

\* The event loop is at an await of every call.
Serving == session = "up" /\ \A c \in Calls : pc[c] \notin {"recorded", "captured"}

\* c's coroutine is gone, and its locals with it.
Forgets(c) ==
  /\ pc' = [pc EXCEPT ![c] = "idle"]
  /\ name' = [name EXCEPT ![c] = 1]
  /\ id' = [id EXCEPT ![c] = 0]
  /\ out' = [out EXCEPT ![c] = "infra"]

\* The call returns; its slot was released on the way out (finally).
Returns(c) == Forgets(c) /\ active' = active - 1

-----------------------------------------------------------------------------
(* dispatch_food_truck up to its first await. *)

\* Mutant: the failed dispatch that is called again is not reset.
NotReopened(n) == camp
\* The campaign file after reset_failed_dispatch of the name that is called.
Reopened(n) ==
  IF ~ContinueOnFailure /\ camp[n].status = "failure"
    THEN [camp EXCEPT ![n] = Cleared(@)]
    ELSE camp

\* FLEET_CAMPAIGN_HALTED.
Halted(content) == ~ContinueOnFailure /\ HasLogicFailure(content)

\* Refused: halted, at capacity, or (in any state) an argument that does not validate.
RefuseCall(n) ==
  /\ Serving
  /\ camp' = Reopened(n)
  /\ UNCHANGED <<session, boot, files, active, pc, name, id, out>>

\* The slot is taken without suspending: at_capacity was false an instant ago.
StartCall(c, n) ==
  /\ Serving
  /\ pc[c] = "idle"
  /\ Overlap \/ \A d \in InFlight : name[d] # n
  /\ Len(files) + Cardinality(InFlight) < MaxDispatches
  /\ ~Halted(Reopened(n))
  /\ active < MaxConcurrent
  /\ active' = active + 1
  /\ camp' = Reopened(n)
  /\ pc' = [pc EXCEPT ![c] = "quota"]
  /\ name' = [name EXCEPT ![c] = n]
  /\ UNCHANGED <<session, boot, files, id, out>>

-----------------------------------------------------------------------------
(* _run_dispatch, between its awaits. *)

\* The quota check and its sleep are over: write_initial_state, then the executor.
QuotaPasses(c) ==
  /\ Serving
  /\ pc[c] = "quota"
  /\ files' = Append(files, [name |-> name[c], status |-> "pending",
                             kitchen |-> boot, captured |-> FALSE])
  /\ id' = [id EXCEPT ![c] = Len(files) + 1]
  /\ pc' = [pc EXCEPT ![c] = "launched"]
  /\ UNCHANGED <<session, boot, camp, active, name, out>>

\* The L2 process runs; on_spawn marks its file running, or fails and is swallowed.
Spawn(c) ==
  /\ Serving
  /\ pc[c] = "launched"
  /\ pc' = [pc EXCEPT ![c] = "running"]
  /\ \/ files' = [files EXCEPT ![id[c]].status = "running"]
     \/ UNCHANGED files
  /\ UNCHANGED <<session, boot, camp, active, name, id, out>>

\* What the executor may return: the parsed result block and the resume signals.
ExecutorResults ==
  [parsed : {"success", "failure", "quota", "dirty", "none"},
   progress : BOOLEAN, abandon : BOOLEAN]

(***************************************************************************)
(* classify_dispatch_outcome.  progress: a session id, a started lifespan  *)
(* and a checkpoint or a sidecar; abandon: _is_abandon_reason.  A reported *)
(* failure is the infrastructure's when its reason is quota exhaustion.    *)
(***************************************************************************)
Classify(x) ==
  CASE x.parsed = "success"              -> "success"
    [] x.parsed \in {"failure", "dirty"} -> "logic"
    [] x.parsed = "quota"                -> "infra"
    [] x.parsed = "none"                 -> IF x.progress /\ ~x.abandon THEN "resumable"
                                                                        ELSE "infra"

\* The record of a result; FLEET_L3_TIMEOUT is no infrastructure reason.
Verdict(r) ==
  IF r \in {"success", "resumable"} THEN Blank(r)
  ELSE Record("failure", IF r = "infra" THEN "infra" ELSE "logic", "")

\* append_dispatch_record on the per-dispatch file; it raises for an illegal transition.
Finish(c, r) ==
  /\ Serving
  /\ pc[c] \in {"launched", "running"}
  /\ pc[c] = "launched" => r = "infra"
  /\ IF Valid(files[id[c]].status, Verdict(r).status)
       THEN /\ files' = [files EXCEPT ![id[c]].status = Verdict(r).status]
            /\ out' = [out EXCEPT ![c] = r]
            /\ pc' = [pc EXCEPT ![c] = "recorded"]
            /\ UNCHANGED <<active, name, id>>
       ELSE Returns(c) /\ UNCHANGED files
  /\ UNCHANGED <<session, boot, camp>>

\* Mutant: an exception or a cancellation leaves the semaphore taken.
RaiseHolding(c) ==
  /\ Serving
  /\ pc[c] \in {"quota", "launched", "running"}
  /\ Forgets(c)
  /\ UNCHANGED <<session, boot, camp, files, active>>
\* An await raises, or the client cancels the call; the L2 files stay as they are.
Raise(c) ==
  /\ Serving
  /\ pc[c] \in {"quota", "launched", "running"}
  /\ Returns(c)
  /\ UNCHANGED <<session, boot, camp, files>>

\* write_captured_values, for a success called with a capture argument.
WriteCaptures(c) ==
  /\ session = "up"
  /\ pc[c] = "recorded"
  /\ files' = IF out[c] = "success" /\ name[c] \in Capturing
                THEN [files EXCEPT ![id[c]].captured = TRUE]
                ELSE files
  /\ pc' = [pc EXCEPT ![c] = "captured"]
  /\ UNCHANGED <<session, boot, camp, active, name, id, out>>

(***************************************************************************)
(* Back in the tool, the envelope's status goes to the campaign file.  The *)
(* timeout envelope has no dispatch_status, and an illegal transition      *)
(* raises: both leave the campaign file alone.                             *)
(***************************************************************************)
Accepts(old, r) ==
  r # "timeout" /\ (old.status = Absent \/ Valid(old.status, Verdict(r).status))

\* Mutant: the campaign file is written before the captures.
UpdateCampaignEarly(c) ==
  /\ session = "up"
  /\ pc[c] \in {"recorded", "captured"}
  /\ camp' = IF Accepts(camp[name[c]], out[c])
               THEN [camp EXCEPT ![name[c]] = Verdict(out[c])]
               ELSE camp
  /\ Returns(c)
  /\ UNCHANGED <<session, boot, files>>

\* Mutant: a call whose update is not accepted waits until it is.
UpdateCampaignWaits(c) ==
  /\ session = "up"
  /\ pc[c] = "captured"
  /\ Accepts(camp[name[c]], out[c])
  /\ camp' = [camp EXCEPT ![name[c]] = Verdict(out[c])]
  /\ Returns(c)
  /\ UNCHANGED <<session, boot, files>>
UpdateCampaign(c) ==
  /\ session = "up"
  /\ pc[c] = "captured"
  /\ camp' = IF Accepts(camp[name[c]], out[c])
               THEN [camp EXCEPT ![name[c]] = Verdict(out[c])]
               ELSE camp
  /\ Returns(c)
  /\ UNCHANGED <<session, boot, files>>

-----------------------------------------------------------------------------
(* record_gate_dispatch. *)

RecordGate(n, approved) ==
  /\ Serving
  /\ camp[n].status = "pending"
  /\ camp' = [camp EXCEPT ![n] = IF approved THEN Blank("success")
                                             ELSE Record("failure", "logic", "")]
  /\ UNCHANGED <<session, boot, files, active, pc, name, id, out>>

-----------------------------------------------------------------------------
(* The CLI. *)

\* The session exits, asks for a reload or dies, and its server with it.
EndSession ==
  /\ session = "up"
  /\ session' = "down"
  /\ pc' = [c \in Calls |-> "idle"]
  /\ name' = [c \in Calls |-> 1]
  /\ id' = [c \in Calls |-> 0]
  /\ out' = [c \in Calls |-> "infra"]
  /\ active' = 0
  /\ UNCHANGED <<boot, camp, files>>

Boots ==
  /\ boot < MaxBoots
  /\ boot' = boot + 1
  /\ session' = "up"

\* The loop of _launch_fleet_session: resume_campaign_from_state without a reset.
Reload ==
  /\ session = "down"
  /\ IF ~ContinueOnFailure /\ FailedNames(camp) # {}
       THEN session' = "closed" /\ UNCHANGED boot
       ELSE Boots
  /\ UNCHANGED <<camp, files, active, pc, name, id, out>>

\* A plain exit, or one resume or reload too many.
Close ==
  /\ session = "down"
  /\ session' = "closed"
  /\ UNCHANGED <<boot, camp, files, active, pc, name, id, out>>

\* Mutant: the failed dispatches are not reset.
ResumeAsIs ==
  /\ session = "closed"
  /\ Boots
  /\ UNCHANGED <<camp, files, active, pc, name, id, out>>
\* fleet campaign --resume: resume_campaign_from_state with reset_on_retry.
ResumeCampaign ==
  /\ session = "closed"
  /\ Boots
  /\ camp' = [n \in Names |-> IF ~ContinueOnFailure /\ n \in FailedNames(camp)
                                THEN Cleared(camp[n]) ELSE camp[n]]
  /\ UNCHANGED <<files, active, pc, name, id, out>>

-----------------------------------------------------------------------------
\* The steps that take a call to its end.
Progress(c) ==
  \/ QuotaPasses(c) \/ Spawn(c)
  \/ \E x \in ExecutorResults : Finish(c, Classify(x))
  \/ Finish(c, "timeout")
  \/ WriteCaptures(c) \/ UpdateCampaign(c)

Next ==
  \/ \E c \in Calls : \/ \E n \in Names \ Gates : StartCall(c, n)
                      \/ Progress(c)
                      \/ Raise(c)
  \/ \E n \in Names \ Gates : RefuseCall(n)
  \/ \E n \in Gates, approved \in BOOLEAN : RecordGate(n, approved)
  \/ EndSession \/ Reload \/ Close \/ ResumeCampaign

(***************************************************************************)
(* The quota sleep ends, the executor's timeouts end every L2 session, and *)
(* asyncio schedules every coroutine that is ready.                        *)
(***************************************************************************)
Fairness == \A c \in Calls : WF_vars(Progress(c))

Spec == Init /\ [][Next]_vars
FairSpec == Spec /\ Fairness

-----------------------------------------------------------------------------
TypeOK ==
  /\ session \in {"up", "down", "closed"}
  /\ boot \in Nat
  /\ camp \in [Names -> CampaignRecords]
  /\ files \in Seq(DispatchFiles)
  /\ active \in Nat
  /\ pc \in [Calls -> {"idle", "quota", "launched", "running", "recorded", "captured"}]
  /\ name \in [Calls -> Names]
  /\ id \in [Calls -> 0..Len(files)]
  /\ out \in [Calls -> Results]

(***************************************************************************)
(* A slot per call under way: whatever a call ends in, and across sessions,*)
(* none is lost and none is given twice.                                   *)
(***************************************************************************)
SlotsExact == active = Cardinality(InFlight) /\ active <= MaxConcurrent

(***************************************************************************)
(* A success in the campaign file is an approved gate, or has a successful *)
(* per-dispatch file.                                                      *)
(***************************************************************************)
SuccessBacked ==
  \A n \in Names \ Gates : camp[n].status = "success" =>
    \E i \in DOMAIN files : files[i].name = n /\ files[i].status = "success"

(***************************************************************************)
(* ... whose captures are written: a crash never leaves a campaign that    *)
(* counts a dispatch as done without the values it was to hand on.         *)
(***************************************************************************)
CapturesBeforeSuccess ==
  \A n \in Capturing \ Gates : camp[n].status = "success" =>
    \E i \in DOMAIN files :
      files[i].name = n /\ files[i].status = "success" /\ files[i].captured

\* build_protected_campaign_ids: what the clean-up must leave alone.
ProtectedKitchens ==
  {files[i].kitchen : i \in {j \in DOMAIN files : files[j].status \notin Terminal}}

\* The clean-up never takes a kitchen away from an L2 session of a call under way.
LiveProtected ==
  \A c \in Calls : pc[c] \in {"launched", "running"} => boot \in ProtectedKitchens

\* No later call, failure, crash or resume takes back a success.
CompletedKept ==
  [][\A n \in Names : camp[n].status = "success" => camp'[n].status = "success"]_camp

\* The campaign file is itself a ledger.
Ledger == INSTANCE DispatchLedger WITH status <- [n \in Names |-> camp[n].status]
ImplementsLedger == Ledger!Spec

\* When a call returns from its campaign update, the file agrees with its result.
ResultKept(r) ==
  \A c \in Calls : pc[c] = "captured" /\ pc'[c] = "idle" /\ session' = "up" /\ out[c] = r =>
    camp'[name[c]].status = Verdict(r).status

(***************************************************************************)
(* A dispatch that succeeded is recorded as succeeded, also when it had    *)
(* failed before and was called again.                                     *)
(***************************************************************************)
SuccessReported == [][ResultKept("success")]_vars

(***************************************************************************)
(* A session of a campaign that stops on failure starts with something to  *)
(* offer, unless every dispatch is done: nothing failed, lost or recovered *)
(* is left behind.                                                         *)
(***************************************************************************)
ResumeComplete ==
  [][~ContinueOnFailure /\ session # "up" /\ session' = "up" /\ NextDispatch(camp') = 0
       => \A n \in Names : camp'[n].status \in {Absent, "success"}]_session

\* Every call returns, if only because its session ends.
CallsReturn == \A c \in Calls : pc[c] # "idle" ~> pc[c] = "idle"

\* What the server holds for every call under way: a slot and a protected kitchen.
ServerBooks == TypeOK /\ SlotsExact /\ LiveProtected
=============================================================================
