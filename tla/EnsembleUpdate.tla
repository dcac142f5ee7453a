--------------------------- MODULE EnsembleUpdate ---------------------------
(***************************************************************************)
(* What the ranks of the classic server promise together.  In each cycle   *)
(* every member of the ensemble is propagated by one runner, whose result  *)
(* is spread over all server ranks.  A rank may lose what it has of a      *)
(* member, when the runner is declared faulty, as long as the cycle is     *)
(* open.  The update step is decided once: when every rank holds every     *)
(* member, and all ranks hold a member from the same runner.  From then on *)
(* a rank keeps what it has until it has taken part in the update.         *)
(***************************************************************************)
EXTENDS Integers

CONSTANTS
  ServerRanks,
  Members,
  Runners,
  None

VARIABLES
  cycle,      \* number of update steps decided
  source,     \* rank -> member -> the runner its parts come from, or None
  pending     \* ranks that have yet to leave the last update step

vars == <<cycle, source, pending>>

Nothing == [m \in Members |-> None]

Init ==
  /\ cycle = 0
  /\ source = [s \in ServerRanks |-> Nothing]
  /\ pending = {}

(* A rank completes a member, or loses one. *)
Gather(s) ==
  /\ s \notin pending
  /\ \E m \in Members, r \in Runners :
       \/ source[s][m] = None /\ source' = [source EXCEPT ![s][m] = r]
       \/ source[s][m] = r /\ source' = [source EXCEPT ![s][m] = None]
  /\ UNCHANGED <<cycle, pending>>

Decide ==
  /\ pending = {}
  /\ \A m \in Members : \E r \in Runners : \A s \in ServerRanks : source[s][m] = r
  /\ cycle' = cycle + 1
  /\ pending' = ServerRanks
  /\ UNCHANGED source

Leave(s) ==
  /\ s \in pending
  /\ source' = [source EXCEPT ![s] = Nothing]
  /\ pending' = pending \ {s}
  /\ UNCHANGED cycle

Next == Decide \/ \E s \in ServerRanks : Gather(s) \/ Leave(s)

Spec == Init /\ [][Next]_vars
=============================================================================
