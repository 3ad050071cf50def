---------------------------- MODULE CloneCleanup ----------------------------
(***************************************************************************)
(* The clone registry (workspace/clone_registry.py): pipelines of several  *)
(* owners register their clone when they end, cleanups delete what was     *)
(* registered as a success and prune the registry afterwards.              *)
(*                                                                         *)
(* CloneRegistry holds an flock from reading the file to replacing it; a   *)
(* step below is what happens between taking and releasing it.  Deleting   *)
(* happens outside the lock, and a process dies at any step.  The recipes  *)
(* register a clone once, in the state its pipeline ended in, and never    *)
(* call the remove_clone tool.                                             *)
(***************************************************************************)
EXTENDS FiniteSets

CONSTANTS Pipelines,  \* each with a clone of its own, named after it
          Owner,      \* whose pipeline it is: a campaign or a kitchen
          Cleaners,   \* calls of batch_cleanup_clones
          Everyone,   \* the scope of the escape hatch, all_owners
          Reach       \* the owner each call is restricted to, or Everyone

Owners == {Owner[p] : p \in Pipelines}
CloneStatus == {"success", "error", "unconfirmed"}
CloneEntry == [path : Pipelines, status : CloneStatus, owner : Owners]
Clients == Pipelines \union Cleaners
NoHolder == "unlocked"

ASSUME CloneAssumption == Pipelines \cap Cleaners = {} /\ NoHolder \notin Clients

VARIABLES onDisk,      \* the clones that exist
          registry,    \* clone-cleanup-registry.json
          regLock,     \* who holds its lock
          kpc,         \* where each client is
          entries,     \* what it read under the lock
          doomed,      \* the clones it has still to delete
          deleted,     \* those it deleted
          registered   \* history: the registrations that returned

cloneVars == <<onDisk, registry, regLock, kpc, entries, doomed, deleted,
               registered>>

CloneInit ==
  /\ onDisk = Pipelines
  /\ registry = {} /\ regLock = NoHolder
  /\ kpc = [k \in Clients |-> IF k \in Pipelines THEN "working" ELSE "called"]
  /\ entries = [k \in Clients |-> {}]
  /\ doomed = [k \in Cleaners |-> {}]
  /\ deleted = [k \in Cleaners |-> {}]
  /\ registered = {}

\* Mutant: the registry file is read without its lock.
TakeLockShared(k, from, to) ==
  /\ kpc[k] = from
  /\ kpc' = [kpc EXCEPT ![k] = to]
  /\ entries' = [entries EXCEPT ![k] = registry]
  /\ regLock' = k

\* __enter__: take the lock, read the file.
TakeLock(k, from, to) ==
  /\ kpc[k] = from
  /\ regLock = NoHolder
  /\ kpc' = [kpc EXCEPT ![k] = to]
  /\ entries' = [entries EXCEPT ![k] = registry]
  /\ regLock' = k

\* __exit__: the lock is released; what was read is not used again.
LeaveLock(k, from, to) ==
  /\ kpc[k] = from
  /\ kpc' = [kpc EXCEPT ![k] = to]
  /\ entries' = [entries EXCEPT ![k] = {}]
  /\ regLock' = NoHolder

----------------------------------------------------------------------------
(* register_clone_status.                                                   *)

RegisterOpens(p) ==
  /\ p \in Pipelines /\ TakeLock(p, "working", "append")
  /\ UNCHANGED <<onDisk, registry, doomed, deleted, registered>>

RegisterClone(p, status) ==
  LET entry == [path |-> p, status |-> status, owner |-> Owner[p]]
  IN  /\ p \in Pipelines /\ LeaveLock(p, "append", "done")
      /\ registry' = entries[p] \union {entry}
      /\ registered' = registered \union {entry}
      /\ UNCHANGED <<onDisk, doomed, deleted>>

----------------------------------------------------------------------------
(* batch_delete.                                                            *)

InReach(k, entry) == Reach[k] \in {entry.owner, Everyone}

\* Mutant: what is not to be investigated is deleted.
CandidatesNotFailed(k) ==
  {e.path : e \in {x \in entries[k] : InReach(k, x) /\ x.status # "error"}}

Candidates(k) ==
  {e.path : e \in {x \in entries[k] : InReach(k, x) /\ x.status = "success"}}

ScanOpens(k) ==
  /\ k \in Cleaners /\ TakeLock(k, "called", "scan")
  /\ UNCHANGED <<onDisk, registry, doomed, deleted, registered>>

Scan(k) ==
  /\ k \in Cleaners /\ LeaveLock(k, "scan", "delete")
  /\ doomed' = [doomed EXCEPT ![k] = Candidates(k)]
  /\ UNCHANGED <<onDisk, registry, deleted, registered>>

\* remove_clone: not found, or an error of rmtree, is reported as a failure.
RemoveClone(k, p) ==
  /\ k \in Cleaners /\ kpc[k] = "delete" /\ p \in doomed[k]
  /\ doomed' = [doomed EXCEPT ![k] = @ \ {p}]
  /\ \/ /\ p \in onDisk
        /\ onDisk' = onDisk \ {p}
        /\ deleted' = [deleted EXCEPT ![k] = @ \union {p}]
     \/ UNCHANGED <<onDisk, deleted>>
  /\ UNCHANGED <<registry, regLock, kpc, entries, registered>>

NeedsPrune(k) == deleted[k] # {}

PruneOpens(k) ==
  /\ k \in Cleaners /\ kpc[k] = "delete" /\ doomed[k] = {}
  /\ NeedsPrune(k)
  /\ TakeLock(k, "delete", "prune")
  /\ UNCHANGED <<onDisk, registry, doomed, deleted, registered>>

PruneDeleted(k) ==
  /\ k \in Cleaners /\ LeaveLock(k, "prune", "done")
  /\ registry' = {e \in entries[k] : e.path \notin deleted[k]}
  /\ UNCHANGED <<onDisk, doomed, deleted, registered>>

NothingDeleted(k) ==
  /\ k \in Cleaners /\ kpc[k] = "delete" /\ doomed[k] = {}
  /\ ~NeedsPrune(k)
  /\ kpc' = [kpc EXCEPT ![k] = "done"]
  /\ UNCHANGED <<onDisk, registry, regLock, entries, doomed, deleted,
                 registered>>

\* The process dies: the kernel drops the lock, the file is whole.
CloneCrash(k) ==
  /\ kpc[k] \notin {"working", "called", "done", "dead"}
  /\ kpc' = [kpc EXCEPT ![k] = "dead"]
  /\ regLock' = (IF regLock = k THEN NoHolder ELSE regLock)
  /\ UNCHANGED <<onDisk, registry, entries, doomed, deleted, registered>>

CloneProgress(k) ==
  \/ RegisterOpens(k) \/ \E status \in CloneStatus : RegisterClone(k, status)
  \/ ScanOpens(k) \/ Scan(k) \/ \E p \in Pipelines : RemoveClone(k, p)
  \/ PruneOpens(k) \/ PruneDeleted(k) \/ NothingDeleted(k)

CloneNext == \E k \in Clients : CloneProgress(k) \/ CloneCrash(k)

CloneSpec == CloneInit /\ [][CloneNext]_cloneVars

----------------------------------------------------------------------------
(* Properties.                                                              *)

\* The registry's variables keep their types.
CloneTypeOK ==
  /\ onDisk \subseteq Pipelines
  /\ registry \subseteq CloneEntry
  /\ regLock \in Clients \union {NoHolder}
  /\ kpc \in [Clients -> {"working", "append", "called", "scan", "delete", "prune",
                          "done", "dead"}]
  /\ entries \in [Clients -> SUBSET CloneEntry]
  /\ doomed \in [Cleaners -> SUBSET Pipelines]
  /\ deleted \in [Cleaners -> SUBSET Pipelines]
  /\ registered \subseteq CloneEntry

\* The lock is held by whoever is between reading and replacing the file, and
\* what it read is what the file still holds.
HoldsLock(k) == kpc[k] \in {"append", "scan", "prune"}
LockExact ==
  \A k \in Clients : HoldsLock(k) => regLock = k /\ entries[k] = registry

\* No registration is lost while its clone exists: neither to another pipeline
\* that registers, nor to a cleanup that started before and prunes after it.
RegistrationKept ==
  \A e \in registered : e.path \in onDisk => e \in registry

\* A clone is deleted only if its own pipeline registered it as a success, and by
\* a cleanup whose scope includes its owner: never one that failed, or whose
\* merge is unconfirmed, or of another session.
OnlyFinished ==
  [][ \A p \in onDisk \ onDisk' :
        /\ [path |-> p, status |-> "success", owner |-> Owner[p]] \in registered
        /\ \E k \in Cleaners : p \in doomed[k] /\ Reach[k] \in {Owner[p], Everyone}
    ]_onDisk

\* A cleanup that returns has taken the clones it deleted out of the registry,
\* whatever other cleanups saw and deleted, and although other deletions failed.
Listed(p) == \E e \in registry : e.path = p
DeletedForgotten ==
  \A k \in Cleaners : kpc[k] = "done" => \A p \in deleted[k] : ~Listed(p)

\* Registrations survive every cleanup and deletions leave no entry behind, because
\* whoever replaces the registry holds its lock and what it holds is what it read.
CloneSafe == CloneTypeOK /\ LockExact /\ RegistrationKept /\ DeletedForgotten
=============================================================================
