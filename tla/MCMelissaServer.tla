-------------------------- MODULE MCMelissaServer --------------------------
(* Instances of MelissaServer for TLC. *)
EXTENDS MelissaServer

OneRunnerRank == {<<0, 0>>, <<0, 1>>}
TwoRunnerRanks == {<<0, 0>>, <<1, 0>>, <<1, 1>>}
=============================================================================
