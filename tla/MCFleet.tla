------------------------------- MODULE MCFleet -------------------------------
(***************************************************************************)
(* The state file without the .lock discipline, in two set-ups: reapers    *)
(* and a resuming CLI at once, or a server that has the file to itself and *)
(* uses every operation, also on a dispatch the manifest does not name.    *)
(* The processes of the other set-up are dead.                             *)
(***************************************************************************)
EXTENDS DispatchStateFile

ASSUME StartsAssumption == MaxOps > 0

Racers == Clis \union Reapers
Running(P) == pc = [p \in Procs |-> IF p \in P THEN "idle" ELSE "dead"]

\* A racer starts one operation; the file the racers meet names one dispatch.
FleetInit ==
  /\ \E left \in [1..Manifest -> LeftBehind \union {Blank(Absent)}] :
       file = [n \in Names |-> IF n <= Manifest THEN left[n] ELSE Blank(Absent)]
  /\ sidecar \in [Names -> {"none", "ok", "corrupt"}]
  /\ alive \in [Names -> BOOLEAN]
  /\ \A n \in Names : file[n].status # "running" => sidecar[n] = "none" /\ ~alive[n]
  /\ inode = 1 /\ lock = {}
  /\ fh = [p \in Reapers |-> 0]
  /\ local = [p \in Procs |-> NoCopy] /\ buf = [p \in Procs |-> NoCopy]
  /\ target = [p \in Procs |-> {}] /\ at = [p \in Procs |-> 1]
  /\ ops = [p \in Procs |-> IF p \in Racers THEN MaxOps - 1 ELSE 0]
  /\ \/ Running(Racers) /\ \A n \in Names : n > 1 => file[n] = Blank(Absent)
     \/ Running(Servers) /\ \A n \in 1..Manifest : file[n] # Blank(Absent)

FleetSpec == FleetInit /\ [][Next]_vars /\ Fairness

\* Two reapers and a resume, under two unrelated locks, never recover the record of
\* a session that lives: each looks, or kills, before it writes.  And what servers
\* that take no lock write is still a legal move of the file they replace.
RacesLawful ==
  [][ /\ \A n \in Names : file[n].status = "running" /\ alive[n] =>
           file'[n].status \notin {"interrupted", "resumable"}
      /\ (\A p \in Racers : pc[p] = "dead") => LegalStep ]_file

\* Each of their operations returns, unless its process dies.
RacingReturns == \A p \in Procs : pc[p] # "idle" ~> pc[p] \in {"idle", "dead"}
=============================================================================
