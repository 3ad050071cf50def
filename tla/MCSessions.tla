----------------------------- MODULE MCSessions -----------------------------
(***************************************************************************)
(* What surrounds the sessions of a server, one part at a time: the recipe *)
(* an orchestrator walks, the hooks and gates that hem its sessions in,    *)
(* the logs that are left of them, and the issues they file.               *)
(***************************************************************************)
EXTENDS MCRecipes, SessionGuards, SessionLogs, IssueReports

CONSTANT Scenes   \* the parts played

VARIABLE scene

sessionsVars == <<scene, walkVars, guardVars, logVars, issueVars>>

\* The campaigns each server's sessions belong to.
MCCampaignsOf == [s \in LogServers |-> IF s = "s1" THEN {"c"} ELSE {}]

\* The part that is not played has one initial state.
SessionsInit ==
  /\ scene \in Scenes
  /\ GuardsInit /\ LogsInit /\ IssuesInit
  /\ \/ scene = "recipes" /\ WalkInit
     \/ scene # "recipes" /\ recipe = <<Step("cmd", Done, None)>> /\ WalkStart
  /\ scene = "guards" \/ family[1].type = "skill"

SessionsNext ==
  /\ \/ scene = "recipes" /\ WalkNext /\ UNCHANGED <<guardVars, logVars, issueVars>>
     \/ scene = "guards" /\ GuardsNext /\ UNCHANGED <<walkVars, logVars, issueVars>>
     \/ scene = "logs" /\ LogsNext /\ UNCHANGED <<walkVars, guardVars, issueVars>>
     \/ scene = "issues" /\ (ReportSteps \/ Closing) /\ UNCHANGED <<walkVars, guardVars, logVars>>
     \/ scene = "batch" /\ Batch /\ UNCHANGED <<walkVars, guardVars, logVars>>
  /\ UNCHANGED scene

SessionsSpec == SessionsInit /\ [][SessionsNext]_sessionsVars
=============================================================================
