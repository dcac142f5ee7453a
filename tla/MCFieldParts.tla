---------------------------- MODULE MCFieldParts ----------------------------
(* Instances of FieldParts for TLC. *)
EXTENDS FieldParts

Blocks == [RunnerRanks -> 1 .. 3]

(* No hidden state, as much as there is assimilated state, or any other.   *)
HiddenBlocks == [RunnerRanks -> {0}] \cup [RunnerRanks -> 1 .. 2]
=============================================================================
