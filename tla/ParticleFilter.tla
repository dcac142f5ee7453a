--------------------------- MODULE ParticleFilter ---------------------------
(***************************************************************************)
(* What the weight server promises, whatever its runners do: a bootstrap   *)
(* particle filter.  Each cycle has a bag of parents to propagate.  Every  *)
(* parent in it is propagated exactly once per copy, a copy that is lost   *)
(* on the way is propagated again, and when the last result is weighted    *)
(* the bag of the next cycle is drawn from the results and saved.  A       *)
(* restart starts a cycle over with the bag that was saved for it.         *)
(***************************************************************************)
EXTENDS Integers, FiniteSets, Bags

CONSTANTS
  Particles,  \* size of the bag of every cycle
  Cycles,     \* the filter ends when this cycle begins
  Start       \* parent of all particles of the first cycle: any base state

VARIABLES
  cycle,
  todo,       \* bag of parents whose result is not weighted yet
  results,    \* states weighted in this cycle
  previous,   \* states weighted in the last cycle, unless it was restarted
  saved,      \* cycle -> bag of parents drawn for it
  phase       \* "running" or "over"

vars == <<cycle, todo, results, previous, saved, phase>>

Size(b) == Cardinality(UNION {{<<p, k>> : k \in 1 .. b[p]} : p \in DOMAIN b})

Init ==
  /\ cycle = 1
  /\ todo = [p \in {Start} |-> Particles]
  /\ results = {}
  /\ previous = {}
  /\ saved = << >>
  /\ phase = "running"

(* A copy of a parent comes back as a new weighted state. *)
Propagate ==
  /\ phase = "running"
  /\ \E p \in DOMAIN todo : todo' = todo (-) SetToBag({p})
  /\ \E s \in results' : s \notin results /\ results' = results \cup {s}
  /\ UNCHANGED <<cycle, previous, saved, phase>>

(* The last copy comes back, and with it the cycle is closed. *)
Resample ==
  /\ phase = "running"
  /\ Size(todo) = 1
  /\ \E s \in previous' : s \notin results /\ previous' = results \cup {s}
  /\ DOMAIN todo' \subseteq previous'
  /\ IsABag(todo') /\ Size(todo') = Particles
  /\ saved' = [n \in DOMAIN saved \cup {cycle'} |->
                 IF n = cycle' THEN todo' ELSE saved[n]]
  /\ cycle' = cycle + 1
  /\ results' = {}
  /\ phase' = IF cycle' < Cycles THEN "running" ELSE "over"

(* The current cycle starts over, or the one before if the filter was over.*)
Restart ==
  /\ cycle' = IF phase = "running" THEN cycle ELSE cycle - 1
  /\ todo' = IF cycle' = 1 THEN [p \in {Start} |-> Particles] ELSE saved[cycle']
  /\ results' = {}
  /\ previous' = {}
  /\ phase' = "running"
  /\ UNCHANGED saved

Next == Propagate \/ Resample \/ Restart

Spec == Init /\ [][Next]_vars
=============================================================================
