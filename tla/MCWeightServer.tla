--------------------------- MODULE MCWeightServer ---------------------------
(* Instances of WeightServer for TLC. *)
EXTENDS WeightServer, TLC

(* Runners are interchangeable; only used where no liveness is checked.     *)
Symmetry == Permutations(Runners)
=============================================================================
