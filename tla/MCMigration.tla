---------------------------- MODULE MCMigration ----------------------------
(***************************************************************************)
(* The instances of Migration that TLC checks.                             *)
(***************************************************************************)
EXTENDS Migration, TLC

(* No host is treated differently from another. *)
HostSymmetry == Permutations(Hypers)

(***************************************************************************)
(* One migration with everything that can go wrong on the way, except that *)
(* a host that runs is taken for dead.                                     *)
(***************************************************************************)
OneFaults == {"abort", "overtake", "fail", "timeout", "stale", "slow", "lost", "crash"}

(***************************************************************************)
(* Migrations one after the other, none begun before the last is over and  *)
(* the row is right, when operations of the scripts fail and migrations    *)
(* take long.                                                              *)
(***************************************************************************)
SequenceFaults == {"fail", "slow"}

RecordFaults == {"partition"}
=============================================================================
