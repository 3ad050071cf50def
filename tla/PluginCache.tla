----------------------------- MODULE PluginCache -----------------------------
(***************************************************************************)
(* The plugin cache that Claude Code keeps, one directory per version, and *)
(* what `autoskillit install` and the servers do to it: versions in use by *)
(* running sessions are not removed but retired, and swept once they have  *)
(* been retired for a grace period.  Installs exclude each other (the      *)
(* install lock); a server sweeps when it boots, at any time.              *)
(*                                                                         *)
(* Each lock is held from reading a file to replacing it, in one step.     *)
(* Claude Code is external: `claude plugin install` writes the directory   *)
(* of the version, or fails.                                               *)
(***************************************************************************)
EXTENDS Integers

CONSTANTS Versions,
          Installers,  \* runs of autoskillit install
          GraceHours,  \* grace_hours
          MaxHours     \* bound: time

NoInstall == "free"
NoVersion == "none"

ASSUME PluginAssumption ==
  /\ GraceHours \in Nat \ {0} /\ MaxHours \in Nat
  /\ NoInstall \notin Installers /\ NoVersion \notin Versions

VARIABLES hour,
          dirs,         \* the versions in the cache
          retiring,     \* retiring_cache.json: versions, and when they were retired
          installLock,  \* install.lock
          ipc, newVersion, \* each install: its phase, the version of its package
          subdirs,      \* the directories it has still to look at
          installed     \* history: what the last install put there, none if it broke off

pluginVars == <<hour, dirs, retiring, installLock, ipc, newVersion, subdirs,
                installed>>

PluginInit ==
  /\ hour = 0
  /\ \E v \in Versions : dirs = {v} /\ installed = v
  /\ retiring = {}
  /\ installLock = NoInstall
  /\ ipc = [i \in Installers |-> "called"]
  /\ newVersion \in [Installers -> Versions]
  /\ subdirs = [i \in Installers |-> {}]

Goes(i, from, to) == ipc[i] = from /\ ipc' = [ipc EXCEPT ![i] = to]

PassHour ==
  /\ hour < MaxHours
  /\ hour' = hour + 1
  /\ UNCHANGED <<dirs, retiring, installLock, ipc, newVersion, subdirs, installed>>

Expired(entry) == hour - entry.at >= GraceHours

\* sweep_retiring_cache: under its lock; a removal that fails keeps its entry.
Sweep ==
  \E failed \in SUBSET {e \in retiring : Expired(e) /\ e.version \in dirs} :
    LET swept == {e \in retiring : Expired(e)} \ failed
    IN  /\ dirs' = dirs \ {e.version : e \in swept}
        /\ retiring' = retiring \ swept

ServerSweeps ==
  /\ Sweep
  /\ UNCHANGED <<hour, installLock, ipc, newVersion, subdirs, installed>>

\* The package's version is what is installed when install runs.
TakeInstallLock(i) ==
  /\ Goes(i, "called", "retire")
  /\ installLock = NoInstall
  /\ installLock' = i
  /\ subdirs' = [subdirs EXCEPT ![i] = dirs]
  /\ UNCHANGED <<hour, dirs, retiring, newVersion, installed>>

\* Mutant: the list is written anew.
RetireForgetting(i, v) ==
  /\ v \in subdirs[i] /\ ipc[i] = "retire"
  /\ subdirs' = [subdirs EXCEPT ![i] = @ \ {v}]
  /\ IF v = newVersion[i]
       THEN dirs' \in {dirs, dirs \ {v}} /\ UNCHANGED retiring
       ELSE retiring' = {[version |-> v, at |-> hour]} /\ UNCHANGED dirs
  /\ UNCHANGED <<hour, installLock, ipc, newVersion, installed>>

\* _retire_old_versions, one directory; append_retiring_entry keeps old entries.
RetireOldVersion(i, v) ==
  /\ v \in subdirs[i] /\ ipc[i] = "retire"
  /\ subdirs' = [subdirs EXCEPT ![i] = @ \ {v}]
  /\ \/ /\ v = newVersion[i]
        /\ dirs' \in {dirs, dirs \ {v}} /\ UNCHANGED retiring
     \/ /\ v # newVersion[i] /\ v \in dirs
        /\ retiring' = retiring \union {[version |-> v, at |-> hour]}
        /\ UNCHANGED dirs
     \/ v \notin dirs /\ UNCHANGED <<dirs, retiring>>
  /\ UNCHANGED <<hour, installLock, ipc, newVersion, installed>>

ClearEnds(i) ==
  /\ Goes(i, "retire", "install") /\ subdirs[i] = {}
  /\ Sweep
  /\ UNCHANGED <<hour, installLock, newVersion, subdirs, installed>>

\* claude plugin install.
PluginInstalls(i) ==
  /\ Goes(i, "install", "done")
  /\ dirs' = dirs \union {newVersion[i]}
  /\ installed' = newVersion[i]
  /\ installLock' = NoInstall
  /\ UNCHANGED <<hour, retiring, newVersion, subdirs>>

\* It fails, or the install dies on the way: the kernel drops the lock.
InstallFails(i) ==
  /\ ipc[i] \in {"retire", "install"}
  /\ ipc' = [ipc EXCEPT ![i] = "done"]
  /\ installLock' = NoInstall
  /\ subdirs' = [subdirs EXCEPT ![i] = {}]
  /\ installed' = NoVersion
  /\ UNCHANGED <<hour, dirs, retiring, newVersion>>

PluginNext ==
  \/ PassHour \/ ServerSweeps
  \/ \E i \in Installers :
       \/ TakeInstallLock(i) \/ ClearEnds(i) \/ PluginInstalls(i) \/ InstallFails(i)
       \/ \E v \in Versions : RetireOldVersion(i, v)

PluginSpec == PluginInit /\ [][PluginNext]_pluginVars

----------------------------------------------------------------------------
(* Properties.                                                              *)

\* The cache's variables keep their types, and an install holds the lock exactly
\* while it is under way.
PluginTypeOK ==
  /\ hour \in 0..MaxHours
  /\ dirs \subseteq Versions
  /\ retiring \subseteq [version : Versions, at : 0..MaxHours]
  /\ installLock \in Installers \union {NoInstall}
  /\ ipc \in [Installers -> {"called", "retire", "install", "done"}]
  /\ \A i \in Installers : installLock = i <=> ipc[i] \in {"retire", "install"}
  /\ newVersion \in [Installers -> Versions]
  /\ subdirs \in [Installers -> SUBSET Versions]
  /\ installed \in Versions \union {NoVersion}

Quiet == installLock = NoInstall

\* Nothing is left in the cache for good: once every install is over, a version
\* that was not installed last is retired, and so will be swept.
OthersRetired ==
  Quiet /\ installed # NoVersion =>
    \A v \in dirs \ {installed} : \E e \in retiring : e.version = v

\* The plugin cache: well typed, and nothing is left in it for good.
CacheSwept == PluginTypeOK /\ OthersRetired

\* What cli/_marketplace.py says of clearing the cache: one install is enough.
\* Its version stays in the cache until another install replaces it.
OneInstallIsEnough == Quiet /\ installed # NoVersion => installed \in dirs
=============================================================================
