-------------------------- MODULE MCRunnerStorage --------------------------
(* Instances of RunnerStorage for TLC. *)
EXTENDS RunnerStorage, TLC

(* Runners are interchangeable; only used where no liveness is checked.     *)
Symmetry == Permutations(Runners)
=============================================================================
