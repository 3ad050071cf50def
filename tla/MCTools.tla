------------------------------- MODULE MCTools -------------------------------
(***************************************************************************)
(* The parts of a server that share something with other sessions, played  *)
(* one at a time: the main checkout, an issue's labels, the quota cache,   *)
(* the clone registry, the plugin cache, the registry of open kitchens.    *)
(***************************************************************************)
EXTENDS MergeWorktree, IssueLabels, QuotaGuard, CloneCleanup, PluginCache,
        KitchenGate, TLC

CONSTANT Played   \* the parts to play

VARIABLE played

sharedVars == <<mergeVars, labelVars, quotaVars>>
userVars == <<cloneVars, pluginVars, kitchenVars>>
toolsVars == <<played, sharedVars, userVars>>

\* A part that is not played has one initial state.
ToolsInit ==
  /\ played \in Played
  /\ MergeInit /\ LabelInit /\ QuotaInit /\ CloneInit /\ PluginInit /\ KitchenInit
  /\ played = "merge" \/ (gate /\ tracking = {})
  /\ played = "labels" \/ (labels = {} /\ \A s \in Sessions : ses[s].kind = "plain")
  /\ played = "plugins" \/ (dirs = {"v1"} /\ \A i \in Installers : newVersion[i] = "v1")

ToolsNext ==
  /\ \/ /\ \/ played = "merge" /\ MergeNext /\ UNCHANGED <<labelVars, quotaVars>>
           \/ played = "labels" /\ LabelNext /\ UNCHANGED <<mergeVars, quotaVars>>
           \/ played = "quota" /\ QuotaNext /\ UNCHANGED <<mergeVars, labelVars>>
        /\ UNCHANGED userVars
     \/ /\ \/ played = "clones" /\ CloneNext /\ UNCHANGED <<pluginVars, kitchenVars>>
           \/ played = "plugins" /\ PluginNext /\ UNCHANGED <<cloneVars, kitchenVars>>
           \/ played = "kitchens" /\ KitchenNext /\ UNCHANGED <<cloneVars, pluginVars>>
        /\ UNCHANGED sharedVars
  /\ UNCHANGED played

ToolsSpec == ToolsInit /\ [][ToolsNext]_toolsVars

\* A short and a long window, in units of a refresh.
MCSpan == [five_hour |-> 1, seven_day |-> 5]

\* Two pipelines of one owner, one of another; one cleanup of everything.
MCOwner == [p1 |-> "o1", p2 |-> "o1", p3 |-> "o2"]
MCReach == [k1 |-> "all", k2 |-> "o1"]

\* A session alone in its project, two food trucks of one campaign in another.
MCProjectOf == [s1 |-> "A", t1 |-> "B", t2 |-> "B"]
MCCampaignOf == [s1 |-> "solo", t1 |-> "campaign", t2 |-> "campaign"]

\* The worktrees are interchangeable.
Alike == Permutations(Worktrees)
=============================================================================
