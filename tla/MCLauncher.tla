----------------------------- MODULE MCLauncher -----------------------------
(* Instances of Launcher for TLC. *)
EXTENDS Launcher

(* The allocations of the runs are just large enough. *)
ASSUME AllocationSuffices == EnoughNodes
=============================================================================
