----------------------------- MODULE MCWatchers -----------------------------
(***************************************************************************)
(* The two GitHub watchers and the train of pull requests through the      *)
(* merge queue, played one at a time.                                      *)
(***************************************************************************)
EXTENDS MergeQueueWatch, CIWatch, QueueTrain

CONSTANT Watched   \* what is played

VARIABLE watched

watchersVars == <<watched, mqVars, ciVars, trainVars>>

WatchersInit ==
  /\ watched \in Watched /\ MQInit /\ CIInit /\ TrainInit
  /\ watched = "train" \/ tracking = 0

WatchersNext ==
  /\ \/ watched = "queue" /\ MQNext /\ UNCHANGED <<ciVars, trainVars>>
     \/ watched = "ci" /\ CINext /\ UNCHANGED <<mqVars, trainVars>>
     \/ watched = "train" /\ TrainNext /\ UNCHANGED <<mqVars, ciVars>>
  /\ UNCHANGED watched

WatcherSteps ==
  /\ \/ watched = "queue" /\ Watcher /\ UNCHANGED <<moves, ciVars, trainVars>>
     \/ watched = "ci" /\ (CIWait \/ CITool) /\ UNCHANGED <<mqVars, trainVars>>
     \/ watched = "train" /\ Recipe /\ UNCHANGED <<mqVars, ciVars>>
  /\ UNCHANGED watched

\* The handlers' tasks are scheduled, and the orchestrator follows its recipe.
WatchersSpec ==
  WatchersInit /\ [][WatchersNext]_watchersVars /\ WF_watchersVars(WatcherSteps)

\* Both waits return and the train ends, whatever GitHub does and however often a
\* request fails: every way round the watchers' loops spends time, every way round
\* the train's is counted.
WatchesReturn ==
  mpc = "loop" \/ cpc = "lookback" \/ watched = "train"
    ~> mpc = "done" \/ cpc = "done" \/ station \in Terminus
=============================================================================
