----------------------------- MODULE KitchenGate -----------------------------
(***************************************************************************)
(* The kitchen of each MCP server: the gate that open_kitchen opens, and   *)
(* the files it shares with others: active_kitchens.json, of all projects  *)
(* of the user, updated under a lock (in one step here), and .hook_config, *)
(* which belongs to a project and to every session in it.                  *)
(*                                                                         *)
(* open_kitchen awaits the quota cache, so several opens and a close of    *)
(* one server interleave.  A server stops (the lifespan's teardown) or is  *)
(* killed.  Every file is written; what a failing write leaves is not      *)
(* modelled.                                                               *)
(***************************************************************************)
EXTENDS Naturals

CONSTANTS Kitchens,    \* servers, each a process: its pid and creation time
          ProjectOf,  \* the project each works in
          CampaignOf, \* the campaign whose food truck it is, or Solo
          Solo,
          MaxOpens    \* bound: kitchens opened, by all servers

ASSUME KitchenAssumption == MaxOpens \in Nat

Projects == {ProjectOf[s] : s \in Kitchens}
Campaigns == {CampaignOf[s] : s \in Kitchens} \ {Solo}
\* A kitchen id is the campaign's id, or a fresh uuid.
KitchenId(c, n) == [campaign |-> c, uuid |-> n]
NoKitchen == KitchenId(Solo, 0)
KitchenIds ==
  {KitchenId(c, 0) : c \in Campaigns} \union {KitchenId(Solo, n) : n \in 1..MaxOpens}

VARIABLES up,       \* the servers whose process runs
          gateOpen,     \* ctx.gate
          kitchen,  \* ctx.kitchen_id
          refreshing,     \* ctx.quota_refresh_task runs
          opening,  \* open_kitchen calls at their await
          opens,    \* kitchens opened so far
          active,   \* active_kitchens.json: kitchen ids and process ids
          hooks,    \* .hook_config.json of each project
          disabled, \* history: servers that disabled the guard since they opened
          closed    \* history: kitchen ids that a close_kitchen unregistered

perServer == <<up, gateOpen, kitchen, refreshing, opening>>
kitchenVars == <<perServer, opens, active, hooks, disabled, closed>>

NoConfig == "absent"

KitchenInit ==
  /\ up = Kitchens
  /\ gateOpen = [s \in Kitchens |-> FALSE]
  /\ kitchen = [s \in Kitchens |-> NoKitchen]
  /\ refreshing = [s \in Kitchens |-> FALSE]
  /\ opening = [s \in Kitchens |-> 0]
  /\ opens = 0 /\ active = {}
  /\ hooks = [p \in Projects |-> NoConfig]
  /\ disabled = {} /\ closed = {}

NewKitchen(s) ==
  IF CampaignOf[s] = Solo THEN KitchenId(Solo, opens + 1) ELSE KitchenId(CampaignOf[s], 0)

----------------------------------------------------------------------------
(* open_kitchen, and the boot of a food truck, which does the same.         *)

\* _write_hook_config, in a project whose configuration enables the guard.
HookConfig(s) == "guarded"

OpenKitchen(s) ==
  /\ s \in up /\ opens < MaxOpens
  /\ gateOpen' = [gateOpen EXCEPT ![s] = TRUE]
  /\ kitchen' = [kitchen EXCEPT ![s] = NewKitchen(s)]
  /\ opens' = opens + 1
  /\ hooks' = [hooks EXCEPT ![ProjectOf[s]] = HookConfig(s)]
  /\ opening' = [opening EXCEPT ![s] = @ + 1]
  /\ disabled' = disabled \ {s}
  /\ UNCHANGED <<up, refreshing, active, closed>>

\* Mutant: a refresh that is cancelled is not started again.
OpenContinuesOnce(s) ==
  /\ opening[s] > 0
  /\ opening' = [opening EXCEPT ![s] = @ - 1]
  /\ refreshing' = [refreshing EXCEPT ![s] = ~@]
  /\ active' = active \union {[id |-> kitchen[s], pid |-> s]}
  /\ UNCHANGED <<up, gateOpen, kitchen, opens, hooks, disabled, closed>>

\* After the await.  What may still fail leaves this state as it is.
OpenContinues(s) ==
  /\ opening[s] > 0
  /\ opening' = [opening EXCEPT ![s] = @ - 1]
  /\ refreshing' = [refreshing EXCEPT ![s] = TRUE]
  /\ active' = active \union {[id |-> kitchen[s], pid |-> s]}
  /\ UNCHANGED <<up, gateOpen, kitchen, opens, hooks, disabled, closed>>

----------------------------------------------------------------------------
(* close_kitchen and the rest.                                              *)

\* unregister_active_kitchen: by kitchen id.
Unregister(s) == {e \in active : e.id # kitchen[s]}

CloseKitchen(s) ==
  /\ s \in up
  /\ gateOpen' = [gateOpen EXCEPT ![s] = FALSE]
  /\ refreshing' = [refreshing EXCEPT ![s] = FALSE]
  /\ active' = Unregister(s)
  /\ closed' = closed \union ({kitchen[s]} \ {NoKitchen})
  /\ hooks' = [hooks EXCEPT ![ProjectOf[s]] = NoConfig]
  /\ UNCHANGED <<up, kitchen, opening, opens, disabled>>

DisableQuotaGuard(s) ==
  /\ s \in up /\ hooks[ProjectOf[s]] # NoConfig
  /\ hooks' = [hooks EXCEPT ![ProjectOf[s]] = "off"]
  /\ disabled' = disabled \union {s}
  /\ UNCHANGED <<perServer, opens, active, closed>>

\* The server's state is gone; the project's files stay.
Gone(s) ==
  /\ s \in up
  /\ up' = up \ {s}
  /\ gateOpen' = [gateOpen EXCEPT ![s] = FALSE]
  /\ kitchen' = [kitchen EXCEPT ![s] = NoKitchen]
  /\ refreshing' = [refreshing EXCEPT ![s] = FALSE]
  /\ opening' = [opening EXCEPT ![s] = 0]
  /\ disabled' = disabled \ {s}
  /\ UNCHANGED <<opens, hooks, closed>>

\* clear_kitchens_for_pid.
Teardown(s) == Gone(s) /\ active' = {e \in active : e.pid # s}

Killed(s) == Gone(s) /\ UNCHANGED active

\* _pid_alive: the process exists and was created when the entry says.
PidAlive(e) == e.pid \in up

\* any_kitchen_open, of the doctor.
KitchenOpen(p) == \E e \in active : PidAlive(e) /\ ProjectOf[e.pid] = p
Doctor ==
  /\ active' = {e \in active : PidAlive(e)}
  /\ UNCHANGED <<perServer, opens, hooks, disabled, closed>>

KitchenNext ==
  \/ Doctor
  \/ \E s \in Kitchens :
       \/ OpenKitchen(s) \/ OpenContinues(s) \/ CloseKitchen(s)
       \/ DisableQuotaGuard(s) \/ Teardown(s) \/ Killed(s)

KitchenSpec == KitchenInit /\ [][KitchenNext]_kitchenVars

----------------------------------------------------------------------------
(* Properties.                                                              *)

\* The kitchens' variables keep their types, and an open one has an id.
KitchenTypeOK ==
  /\ up \subseteq Kitchens
  /\ gateOpen \in [Kitchens -> BOOLEAN] /\ refreshing \in [Kitchens -> BOOLEAN]
  /\ kitchen \in [Kitchens -> KitchenIds \union {NoKitchen}]
  /\ \A s \in Kitchens : gateOpen[s] => kitchen[s] # NoKitchen
  /\ opening \in [Kitchens -> 0..MaxOpens] /\ opens \in 0..MaxOpens
  /\ active \subseteq [id : KitchenIds \union {NoKitchen}, pid : Kitchens]
  /\ hooks \in [Projects -> {NoConfig, "guarded", "off"}]
  /\ disabled \subseteq Kitchens /\ closed \subseteq KitchenIds

\* A kitchen is open and no open_kitchen of its server is under way.
Settled(s) == gateOpen[s] /\ opening[s] = 0

\* The doctor knows of every open kitchen, whatever other servers open, close or
\* prune meanwhile - unless a server of the same campaign closed its kitchen,
\* which has the same id.
DoctorKnows ==
  \A s \in Kitchens : Settled(s) /\ kitchen[s] \notin closed => KitchenOpen(ProjectOf[s])

\* An open kitchen's quota cache is being refreshed, however opens and closes of
\* its server interleave.
RefreshedWhileOpen == \A s \in Kitchens : Settled(s) => refreshing[s]

\* Alone in its project, an open kitchen's guard is off only if that session
\* disabled it since it opened the kitchen.
Alone(s) == \A t \in Kitchens \ {s} : ProjectOf[t] # ProjectOf[s]
GuardIsBack ==
  \A s \in Kitchens :
    Alone(s) /\ gateOpen[s] /\ hooks[ProjectOf[s]] = "off" => s \in disabled

\* What other sessions may rely on while kitchens open, close and die: the doctor
\* knows the open ones, their quota cache is refreshed, and their guard is back.
KitchenSafe == KitchenTypeOK /\ DoctorKnows /\ RefreshedWhileOpen /\ GuardIsBack
=============================================================================
