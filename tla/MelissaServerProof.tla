------------------------ MODULE MelissaServerProof ------------------------
(***************************************************************************)
(* What is proved of the classic server, for all numbers of ranks, members *)
(* and runners, links, crashes, late runners and retries, as long as the   *)
(* assimilator begins an update step with a barrier: no task is lost or    *)
(* given away twice, and the ranks agree on what they update.              *)
(***************************************************************************)
EXTENDS MelissaServer, FiniteSetTheorems, WellFoundedInduction, TLAPS

-----------------------------------------------------------------------------
(***************************************************************************)
(* The state and the messages have their types.                            *)
(***************************************************************************)
NewTask == [runner : Runners, state : Members, id : Nat \ {0}]
StepCounts == {None, -1, -2, NSteps}

(* The state that the agreement is about, and the parts under way. *)
Typed ==
  /\ phase \in {"init", "simulation"}
  /\ at \in [ServerRanks -> {"loop", "update", "ended"}]
  /\ current_step \in [ServerRanks -> Nat]
  /\ book \in [ServerRanks -> Book]
  /\ task_id \in Nat \ {0}
  /\ finished_ranks \in Int
  /\ highest_received_task_id \in [OtherRanks -> Nat]
  /\ highest_sent_task_id \in [OtherRanks -> Nat]
  /\ new_task \in [OtherRanks -> Seq(NewTask)]
  /\ kill_runner \in [OtherRanks -> Seq(Members \X Runners)]
  /\ rank_finished \in [OtherRanks -> Seq(Nat)]
  /\ all_finished \subseteq OtherRanks
  /\ nsteps \in [OtherRanks -> StepCounts]
  /\ \A m \in wire : m.runner \in Runners /\ m.rank \in RunnerRanks

(***************************************************************************)
(* The book of one rank.  A rank that goes into an update step has         *)
(* finished everything, and while the others fetch the first field there   *)
(* is nothing to do.                                                       *)
(***************************************************************************)
OfMember(b, m) == {t \in SubTasks(b) : t.state = m}

(* The tasks of a book are in order, as TasksConserved has it. *)
Kept(s, b) ==
  /\ b.scheduled \cap b.running = {}
  /\ (b.scheduled \cup b.running) \cap b.finished = {}
  /\ \A m \in Members :
       IF m \in b.unscheduled THEN OfMember(b, m) = {}
       ELSE /\ {t.rank : t \in OfMember(b, m)} = Linked(s)
            /\ \A t, u \in OfMember(b, m) : t.runner = u.runner /\ (t.rank = u.rank => t = u)

(* Nothing is left to do in this step. *)
Done(b) == b.unscheduled = {} /\ b.scheduled = {} /\ b.running = {}

(* In a study they are, and in the update step nothing is left. *)
BookKept(s) ==
  /\ phase = "simulation" => Kept(s, book[s])
  /\ at[s] = "update" => Done(book[s])

(* Before the field is registered no task exists. *)
AtStart ==
  phase = "init" =>
    /\ \A s \in ServerRanks : SubTasks(book[s]) = {} /\ at[s] = "loop" /\ current_step[s] = 0
    /\ \A d \in OtherRanks : /\ new_task[d] = <<>> /\ kill_runner[d] = <<>> /\ rank_finished[d] = <<>>
                             /\ highest_received_task_id[d] = 0 /\ highest_sent_task_id[d] = 0

(***************************************************************************)
(* Where a rank is, seen from rank 0.                                      *)
(***************************************************************************)
HasAllTasks(d) ==
  /\ new_task[d] = <<>> /\ rank_finished[d] = <<>>
  /\ highest_sent_task_id[d] = highest_received_task_id[d]
  /\ highest_sent_task_id[d] > 0

(* A rank is at most one step behind, and only in the update step. *)
Follows(d) ==
  /\ at[0] = "loop" =>
       /\ d \notin all_finished
       /\ \/ at[d] = "loop" /\ nsteps[d] = None /\ current_step[d] = current_step[0]
          \/ /\ at[d] = "update" /\ nsteps[d] = NSteps
             /\ current_step[d] + NSteps = current_step[0]
  /\ at[0] = "update" =>
       /\ at[d] = IF d \in all_finished THEN "loop" ELSE "update"
       /\ nsteps[d] = None /\ current_step[d] = current_step[0]
       /\ HasAllTasks(d)
  /\ at[0] = "ended" =>
       /\ d \notin all_finished
       /\ \/ at[d] = "ended" /\ nsteps[d] = None
          \/ at[d] = "update" /\ nsteps[d] \in {-1, -2}
       /\ current_step[d] = current_step[0]

(***************************************************************************)
(* The ids of the tasks.                                                   *)
(***************************************************************************)
Increasing(q) == \A i, j \in DOMAIN q : i < j => q[i] < q[j]

(* Messages carry rising numbers that the rank has not seen yet. *)
Numbered(d) ==
  /\ \A i \in DOMAIN new_task[d] : new_task[d][i].id <= task_id
  /\ \A i, j \in DOMAIN new_task[d] : i < j => new_task[d][i].id < new_task[d][j].id
  /\ at[d] = "loop" =>
       /\ highest_received_task_id[d] <= task_id
       /\ \A i \in DOMAIN new_task[d] : new_task[d][i].id > highest_received_task_id[d]

(* A rank that reported its last task has finished. *)
Reported(d) ==
  /\ highest_sent_task_id[d] <= highest_received_task_id[d]
  /\ \A i \in DOMAIN rank_finished[d] : rank_finished[d][i] <= highest_sent_task_id[d]
  /\ Increasing(rank_finished[d])
  /\ at[d] # "loop" => rank_finished[d] = <<>>
  /\ at[d] = "loop" /\ highest_sent_task_id[d] = highest_received_task_id[d]
       /\ highest_sent_task_id[d] > 0 => Done(book[d])

(* The ranks whose report of the last task was read. *)
Counted == {d \in OtherRanks : at[d] = "loop" /\ rank_finished[d] = <<>> /\ highest_sent_task_id[d] = task_id}

(* Rank 0 counts no more than those, and it has given out a member first. *)
Counts ==
  /\ phase = "simulation" /\ at[0] = "loop" /\ task_id = 1 => book[0].unscheduled # {}
  /\ at[0] = "loop" /\ task_id > 1 => finished_ranks <= Cardinality(Counted)

(***************************************************************************)
(* What rank 0 knows of a task, and what it tells the others.              *)
(***************************************************************************)

(* What rank 0 has given out, and not forgotten. *)
Given == book[0].killed \cup {Task(t) : t \in SubTasks(book[0])}

(* Rank 0 tells of a member again only after the task was killed. *)
Announced(d) ==
  \A i \in DOMAIN new_task[d] :
    /\ Task(new_task[d][i]) \in Given
    /\ \A j \in DOMAIN new_task[d] :
         i < j /\ new_task[d][i].state = new_task[d][j].state => Task(new_task[d][i]) \in book[0].killed

(* A rank has no tasks but those that rank 0 gave out. *)
TakenFrom(d) ==
  at[d] = "loop" =>
    \A t \in SubTasks(book[d]) :
      /\ Task(t) \in Given
      /\ \A i \in DOMAIN new_task[d] : new_task[d][i].state = t.state => Task(t) \in book[0].killed

(* A task that a rank killed is killed at rank 0, or still given there. *)
KillsKnown(d) ==
  \A i \in DOMAIN kill_runner[d] :
    \/ kill_runner[d][i] \in book[0].killed
    \/ /\ kill_runner[d][i] \in Given
       /\ kill_runner[d][i][1] \in book[d].unscheduled
       /\ \A j \in DOMAIN new_task[d] : new_task[d][j].state # kill_runner[d][i][1]

(* The last message q about the member of a task t of rank 0 is about this *)
(* task; if there is none, a rank with book b has the task, or has seen    *)
(* its runner fail.                                                        *)
LastWordIs(t, q, b, loops) ==
  \/ \E i \in DOMAIN q :
       /\ Task(q[i]) = Task(t)
       /\ \A j \in DOMAIN q : i < j => q[j].state # t.state
  \/ /\ \A i \in DOMAIN q : q[i].state # t.state
     /\ loops => \/ t.state \in b.unscheduled
                 \/ \E u \in SubTasks(b) : Task(u) = Task(t)

(* So it is for every task of rank 0. *)
LastWord(d) ==
  \A t \in SubTasks(book[0]) : LastWordIs(t, new_task[d], book[d], at[d] = "loop")

(* What always holds between the ranks. *)
Agreement ==
  /\ AtStart
  /\ \A s \in ServerRanks : BookKept(s)
  /\ Counts
  /\ \A d \in OtherRanks :
       /\ Follows(d) /\ Numbered(d) /\ Reported(d)
       /\ Announced(d) /\ TakenFrom(d) /\ KillsKnown(d)
       /\ at[0] # "ended" => LastWord(d)

-----------------------------------------------------------------------------
(***************************************************************************)
(* Numbering.  A set of n numbers has the positions 0 .. n - 1.            *)
(***************************************************************************)

(* What lies below an element is smaller than the set. *)
LEMMA PositionBounds ==
  ASSUME NEW S \in SUBSET Nat, IsFiniteSet(S), NEW n \in S
  PROVE  /\ Position(n, S) \in Nat
         /\ Position(n, S) < Cardinality(S)
<1> DEFINE L == {m \in S : m < n}
<1>1. L \in SUBSET S /\ n \notin L
  OBVIOUS
<1>2. IsFiniteSet(L) /\ Cardinality(L) <= Cardinality(S) /\ Cardinality(L) # Cardinality(S)
  BY <1>1, FS_Subset DEF L
<1> QED
  BY <1>2, FS_CardinalityType DEF Position

(* Of two elements the greater one has the greater position. *)
LEMMA PositionIncreases ==
  ASSUME NEW S \in SUBSET Nat, IsFiniteSet(S), NEW m \in S, NEW n \in S, m < n
  PROVE  Position(m, S) < Position(n, S)
<1> DEFINE L == {x \in S : x < m}
           U == {x \in S : x < n}
<1>1. L \in SUBSET U /\ m \in U /\ m \notin L
  <2>1. \A x \in S : x \in Nat
    OBVIOUS
  <2>2. \A x \in S : x < m => x < n
    BY <2>1
  <2>3. ~ (m < m)
    BY <2>1
  <2> QED
    BY <2>2, <2>3
<1>0. U \in SUBSET S
  OBVIOUS
<1>2. IsFiniteSet(U)
  BY <1>0, FS_Subset
<1> HIDE DEF L, U
<1>3. Cardinality(L) <= Cardinality(U) /\ Cardinality(L) # Cardinality(U) /\ IsFiniteSet(L)
  BY <1>1, <1>2, FS_Subset
<1>4. Position(m, S) = Cardinality(L) /\ Position(n, S) = Cardinality(U)
  BY DEF L, U, Position
<1> QED
  BY <1>2, <1>3, <1>4, FS_CardinalityType

(* Every position below the size is that of one element. *)
LEMMA PositionsTaken ==
  ASSUME NEW S \in SUBSET Nat, IsFiniteSet(S), NEW j \in Nat, j < Cardinality(S)
  PROVE  \E n \in S : Position(n, S) = j
<1> DEFINE k == Cardinality(S)
           f == [n \in S |-> Position(n, S)]
<1>1. k \in Nat /\ k > 0
  BY FS_CardinalityType
<1> HIDE DEF k
<1>2. IsFiniteSet(0 .. k - 1) /\ Cardinality(0 .. k - 1) = k
  BY <1>1, FS_Interval
<1>3. f \in [S -> 0 .. k - 1]
  BY <1>1, PositionBounds DEF k
<1>4. \A m, n \in S : f[m] = f[n] => m = n
  <2> SUFFICES ASSUME NEW m \in S, NEW n \in S, m # n PROVE f[m] # f[n]
    OBVIOUS
  <2>1. CASE m < n
    BY <2>1, PositionIncreases, PositionBounds
  <2>2. CASE n < m
    BY <2>2, PositionIncreases, PositionBounds
  <2> QED
    BY <2>1, <2>2
<1> HIDE DEF f
<1>5. f \in Injection(S, 0 .. k - 1)
  BY <1>3, <1>4 DEF Injection, IsInjective
<1>6. f \in Surjection(S, 0 .. k - 1)
  BY <1>2, <1>5, FS_Injection DEF k
<1>7. j \in 0 .. k - 1
  BY <1>1 DEF k
<1>8. \E n \in S : f[n] = j
  BY <1>6, <1>7 DEF Surjection
<1> QED
  BY <1>8 DEF f

(* Tasks for some of the members U, numbered from id + 1. *)
NumberedTasks(T, U, id) ==
  /\ T \subseteq NewTask
  /\ Cardinality(T) \in Nat
  /\ \A t \in T : t.state \in U /\ t.id - id \in 1 .. Cardinality(T)
  /\ \A t, u \in T : t.state = u.state \/ t.id = u.id => t = u
  /\ \A i \in 1 .. Cardinality(T) : \E t \in T : t.id = id + i

(* The new tasks are numbered, the least member first. *)
LEMMA NewTasksNumbered ==
  ASSUME NEW b, b.unscheduled \in SUBSET Members, NEW rs \in SUBSET Runners, NEW id \in Nat
  PROVE  NumberedTasks(NewTasks(b, rs, id), b.unscheduled, id)
<1> DEFINE T == NewTasks(b, rs, id)
           U == b.unscheduled
           c == Cardinality(rs)
           d == Cardinality(U)
           n == IF c < d THEN c ELSE d
<1>1. /\ rs \in SUBSET Nat /\ IsFiniteSet(rs)
      /\ U \in SUBSET Nat /\ IsFiniteSet(U)
  <2>1. Members \in SUBSET Nat /\ IsFiniteSet(Members)
    BY ServerAssumption, FS_Interval DEF Members
  <2>2. Runners \in SUBSET Nat /\ IsFiniteSet(Runners)
    BY ServerAssumption
  <2> QED
    BY <2>1, <2>2, FS_Subset
<1>2. c \in Nat /\ d \in Nat /\ n \in Nat
  BY <1>1, FS_CardinalityType
<1> DEFINE T1(r, m) == [runner |-> r, state |-> m, id |-> id + 1 + Position(m, U)]
<1>3. \A t \in T : /\ t.runner \in rs /\ t.state \in U /\ t = T1(t.runner, t.state)
                   /\ Position(t.runner, rs) = Position(t.state, U)
  BY DEF NewTasks
<1>4. \A r \in rs, m \in U : Position(r, rs) = Position(m, U) => T1(r, m) \in T
  <2> SUFFICES ASSUME NEW r \in rs, NEW m \in U, Position(r, rs) = Position(m, U)
               PROVE  T1(r, m) \in T
    OBVIOUS
  <2>1. <<r, m>> \in {p \in rs \X b.unscheduled : Position(p[1], rs) = Position(p[2], b.unscheduled)}
    OBVIOUS
  <2> QED
    BY <2>1 DEF NewTasks
<1> HIDE DEF T1, T
<1>5. \A r \in rs, m \in U : T1(r, m).state = m /\ T1(r, m).runner = r /\ T1(r, m).id = id + 1 + Position(m, U)
  BY DEF T1
<1> HIDE DEF U, c, d, n
<1>6. \A t \in T : /\ t.state \in U /\ t.runner \in rs
                   /\ t.id = id + 1 + Position(t.state, U)
                   /\ Position(t.state, U) \in Nat
                   /\ Position(t.state, U) < n
                   /\ t.id - id \in 1 .. n
  <2> TAKE t \in T
  <2>1. t.state \in U /\ t.runner \in rs /\ t.id = id + 1 + Position(t.state, U)
    BY <1>3, <1>5
  <2>2. Position(t.state, U) \in Nat /\ Position(t.state, U) < d /\ Position(t.state, U) < c
    BY <1>1, <1>3, <2>1, PositionBounds DEF c, d
  <2>3. Position(t.state, U) < n
    BY <2>2 DEF n
  <2> QED
    BY <1>2, <2>1, <2>2, <2>3
<1>7. \A t, u \in T : t.state = u.state \/ t.id = u.id => t = u
  <2> SUFFICES ASSUME NEW t \in T, NEW u \in T, t.state = u.state \/ t.id = u.id
               PROVE  t = u
    OBVIOUS
  <2>0. Position(t.state, U) = Position(u.state, U)
    BY <1>6
  <2>1. t.state = u.state
    <3>1. t.state \in U /\ u.state \in U /\ t.state \in Nat /\ u.state \in Nat
      BY <1>1, <1>6
    <3>2. ~ (t.state < u.state)
      BY <1>1, <1>6, <2>0, <3>1, PositionIncreases
    <3>3. ~ (u.state < t.state)
      BY <1>1, <1>6, <2>0, <3>1, PositionIncreases
    <3> QED
      BY <3>1, <3>2, <3>3
  <2>2. t.runner = u.runner
    <3>1. t.runner \in rs /\ u.runner \in rs /\ t.runner \in Nat /\ u.runner \in Nat
      BY <1>1, <1>6
    <3>2. Position(t.runner, rs) = Position(u.runner, rs) /\ Position(t.runner, rs) \in Nat
      BY <1>1, <1>3, <2>0, <3>1, PositionBounds
    <3>3. ~ (t.runner < u.runner)
      BY <1>1, <3>1, <3>2, PositionIncreases
    <3>4. ~ (u.runner < t.runner)
      BY <1>1, <3>1, <3>2, PositionIncreases
    <3> QED
      BY <3>1, <3>3, <3>4
  <2> QED
    BY <1>3, <2>1, <2>2
<1>8. \A i \in 1 .. n : \E t \in T : t.id = id + i
  <2> TAKE i \in 1 .. n
  <2>1. i - 1 \in Nat /\ i - 1 < c /\ i - 1 < d
    BY <1>2 DEF n
  <2>2. PICK r \in rs : Position(r, rs) = i - 1
    BY <1>1, <2>1, PositionsTaken DEF c
  <2>3. PICK m \in U : Position(m, U) = i - 1
    BY <1>1, <2>1, PositionsTaken DEF d
  <2>4. T1(r, m) \in T
    BY <1>4, <2>2, <2>3
  <2> QED
    BY <1>5, <2>1, <2>3, <2>4
<1>9. Cardinality(T) = n
  <2> DEFINE g == [i \in 1 .. n |-> CHOOSE t \in T : t.id = id + i]
  <2>1. \A i \in 1 .. n : g[i] \in T /\ g[i].id = id + i
    BY <1>8
  <2> HIDE DEF g
  <2>2. g \in [1 .. n -> T]
    BY <2>1 DEF g
  <2>3. \A i, j \in 1 .. n : g[i] = g[j] => i = j
    BY <1>2, <2>1
  <2>4. \A t \in T : \E i \in 1 .. n : g[i] = t
    <3> TAKE t \in T
    <3>1. t.id - id \in 1 .. n
      BY <1>6
    <3>2. t.id = id + 1 + Position(t.state, U) /\ Position(t.state, U) \in Nat
      BY <1>6
    <3>3. g[t.id - id] \in T /\ g[t.id - id].id = t.id
      BY <2>1, <3>1, <3>2
    <3> QED
      BY <1>7, <3>1, <3>3
  <2>5. g \in Injection(1 .. n, T)
    BY <2>2, <2>3 DEF Injection, IsInjective
  <2>6. g \in Surjection(1 .. n, T)
    BY <2>2, <2>4 DEF Surjection
  <2>7. ExistsBijection(1 .. n, T)
    BY <2>5, <2>6 DEF ExistsBijection, Bijection
  <2> QED
    BY <1>2, <2>7, FS_CountingElements
<1>10. T \subseteq NewTask
  <2> SUFFICES ASSUME NEW t \in T PROVE t \in NewTask
    OBVIOUS
  <2>1. t.runner \in Runners /\ t.state \in Members /\ t.id \in Nat \ {0}
    BY <1>6 DEF U
  <2> QED
    BY <1>3, <2>1 DEF NewTask, T1
<1> QED
  BY <1>2, <1>6, <1>7, <1>8, <1>9, <1>10 DEF U, T, NumberedTasks

(* As messages they have the order of their numbers. *)
LEMMA NewTasksListed ==
  ASSUME NEW T, NEW U, NEW id \in Nat, NumberedTasks(T, U, id), NEW q, q = InOrder(T, id)
  PROVE  /\ q \in Seq(NewTask)
         /\ Len(q) = Cardinality(T)
         /\ \A i \in 1 .. Len(q) : q[i] \in T /\ q[i].id = id + i
         /\ \A t \in T : \E i \in 1 .. Len(q) : q[i] = t
<1> DEFINE n == Cardinality(T)
<1>0. /\ T \subseteq NewTask /\ n \in Nat
      /\ \A t \in T : t.id - id \in 1 .. n
      /\ \A t, u \in T : t.id = u.id => t = u
      /\ \A i \in 1 .. n : \E t \in T : t.id = id + i
  BY DEF NumberedTasks
<1>1. q = [i \in 1 .. n |-> CHOOSE t \in T : t.id = id + i]
  BY DEF InOrder
<1>2. \A i \in 1 .. n : q[i] \in T /\ q[i].id = id + i
  BY <1>0, <1>1
<1>3. q \in [1 .. n -> NewTask]
  BY <1>0, <1>1, <1>2
<1>4. q \in Seq(NewTask) /\ Len(q) = n
  BY <1>0, <1>3
<1>5. \A t \in T : \E i \in 1 .. n : q[i] = t
  <2> TAKE t \in T
  <2>1. t.id \in Nat
    BY <1>0 DEF NewTask
  <2>2. q[t.id - id] \in T /\ q[t.id - id].id = t.id
    BY <1>0, <1>2, <2>1
  <2> QED
    BY <1>0, <2>2
<1> QED
  BY <1>2, <1>4, <1>5

-----------------------------------------------------------------------------
(***************************************************************************)
(* The operations on a book.                                               *)
(***************************************************************************)

(* A subtask is for one member and one runner. *)
LEMMA SubTaskTypes ==
  ASSUME NEW b \in Book
  PROVE  /\ SubTasks(b) \subseteq SubTask
         /\ \A t \in SubTasks(b) : t.state \in Members /\ t.runner \in Runners
                                   /\ t.rank \in RunnerRanks /\ Task(t) \in Members \X Runners
         /\ \A m : m \in b.unscheduled => m \in Members
         /\ b.unscheduled \in SUBSET Members
BY DEF Book, SubTasks, SubTask, Task

(* That subtasks of one member differ in their ranks alone. *)
LEMMA OneRunner ==
  ASSUME NEW s, NEW b \in Book, Kept(s, b), NEW t \in SubTasks(b)
  PROVE  /\ t.state \notin b.unscheduled
         /\ \A u \in SubTasks(b) : u.state = t.state => u.runner = t.runner /\ Task(u) = Task(t)
<1>1. t.state \in Members
  BY SubTaskTypes
<1>2. t \in OfMember(b, t.state)
  BY DEF OfMember
<1>3. t.state \notin b.unscheduled
  BY <1>1, <1>2 DEF Kept
<1>4. ASSUME NEW u \in SubTasks(b), u.state = t.state PROVE u.runner = t.runner
  <2>1. u \in OfMember(b, t.state)
    BY <1>4 DEF OfMember
  <2> QED
    BY <1>1, <1>2, <1>3, <2>1 DEF Kept
<1> QED
  BY <1>3, <1>4 DEF Task

(* Subtasks that change the list leave the book in order. *)
LEMMA Moved ==
  ASSUME NEW s, NEW b, Kept(s, b), NEW c,
         SubTasks(c) = SubTasks(b), c.unscheduled = b.unscheduled,
         c.scheduled \cap c.running = {},
         (c.scheduled \cup c.running) \cap c.finished = {}
  PROVE  Kept(s, c)
BY DEF Kept, OfMember

(* Killing a task takes all subtasks of its member away. *)
LEMMA KillTask ==
  ASSUME NEW s, NEW b \in Book, Kept(s, b), NEW t \in SubTasks(b),
         NEW c, c = kill_task(b, Task(t))
  PROVE  /\ c \in Book
         /\ Kept(s, c)
         /\ SubTasks(c) = {u \in SubTasks(b) : u.state # t.state}
         /\ c.finished = {u \in b.finished : u.state # t.state}
         /\ c.unscheduled = b.unscheduled \cup {t.state}
         /\ c.killed = b.killed \cup {Task(t)}
<1>1. /\ c.unscheduled = b.unscheduled \cup {t.state}
      /\ c.scheduled = {u \in b.scheduled : Task(u) # Task(t)}
      /\ c.running = {u \in b.running : Task(u) # Task(t)}
      /\ c.finished = {u \in b.finished : Task(u) # Task(t)}
      /\ c.idle = {x \in b.idle : x[1] # t.runner}
      /\ c.killed = b.killed \cup {Task(t)}
  BY DEF kill_task, Forget, Drop, Book, Task
<1>2. c \in Book
  <2>1. t.state \in Members /\ Task(t) \in Members \X Runners
    BY SubTaskTypes
  <2>2. c = [unscheduled |-> c.unscheduled, scheduled |-> c.scheduled, running |-> c.running,
             finished |-> c.finished, idle |-> c.idle, killed |-> c.killed]
    BY DEF kill_task, Forget, Drop, Book
  <2>3. /\ c.unscheduled \in SUBSET Members /\ c.scheduled \in SUBSET SubTask
        /\ c.running \in SUBSET SubTask /\ c.finished \in SUBSET SubTask
        /\ c.idle \in SUBSET (Runners \X RunnerRanks) /\ c.killed \in SUBSET (Members \X Runners)
    BY <1>1, <2>1 DEF Book
  <2> QED
    BY <2>2, <2>3 DEF Book
<1>3. \A u \in SubTasks(b) : Task(u) # Task(t) <=> u.state # t.state
  BY OneRunner DEF Task
<1>4. SubTasks(c) = {u \in SubTasks(b) : u.state # t.state}
  BY <1>1, <1>3 DEF SubTasks
<1>5. c.finished = {u \in b.finished : u.state # t.state}
  BY <1>1, <1>3 DEF SubTasks
<1>6. \A m \in Members :
        OfMember(c, m) = IF m = t.state THEN {} ELSE OfMember(b, m)
  BY <1>4 DEF OfMember
<1>7. Kept(s, c)
  BY <1>1, <1>6 DEF Kept
<1> QED
  BY <1>1, <1>2, <1>4, <1>5, <1>7

(* The subtasks of new tasks. *)
LEMMA NewSubTasksAre ==
  ASSUME NEW s \in ServerRanks, NEW T, T \subseteq NewTask
  PROVE  /\ AllSubTasks(s, T) \subseteq SubTask
         /\ \A u \in AllSubTasks(s, T) : \E t \in T : u.state = t.state /\ Task(u) = Task(t)
         /\ \A t \in T : \E u \in AllSubTasks(s, T) : u.state = t.state /\ Task(u) = Task(t)
<1>1. Linked(s) # {} /\ Linked(s) \subseteq RunnerRanks
  BY EveryRankIsLinked DEF Linked
<1>2. \A u : u \in AllSubTasks(s, T) <=>
        \E t \in T : \E k \in Linked(s) :
          u = [runner |-> t.runner, rank |-> k, state |-> t.state, id |-> t.id]
  BY DEF AllSubTasks, NewSubTasks
<1>3. \A t \in T : t.runner \in Runners /\ t.state \in Members /\ t.id \in Nat \ {0}
  BY DEF NewTask
<1>4. AllSubTasks(s, T) \subseteq SubTask
  BY <1>1, <1>2, <1>3 DEF SubTask
<1>5. \A u \in AllSubTasks(s, T) : \E t \in T : u.state = t.state /\ Task(u) = Task(t)
  BY <1>2 DEF Task
<1>6. \A t \in T : \E u \in AllSubTasks(s, T) : u.state = t.state /\ Task(u) = Task(t)
  <2> TAKE t \in T
  <2>1. PICK k \in Linked(s) : TRUE
    BY <1>1
  <2> DEFINE u == [runner |-> t.runner, rank |-> k, state |-> t.state, id |-> t.id]
  <2>2. u \in AllSubTasks(s, T)
    BY <1>2
  <2>3. u.state = t.state /\ Task(u) = Task(t)
    BY DEF Task
  <2> QED
    BY <2>2, <2>3
<1> QED
  BY <1>4, <1>5, <1>6

(* Members that wait get subtasks on every linked rank. *)
LEMMA AddSubTasks ==
  ASSUME NEW s \in ServerRanks, NEW b \in Book, Kept(s, b), NEW T, T \subseteq NewTask,
         \A t \in T : t.state \in b.unscheduled,
         \A t, u \in T : t.state = u.state => t = u,
         NEW c, c = add_sub_tasks(s, b, T)
  PROVE  /\ c \in Book
         /\ Kept(s, c)
         /\ SubTasks(c) = SubTasks(b) \cup AllSubTasks(s, T)
         /\ c.finished = b.finished
         /\ c.unscheduled = b.unscheduled \ {t.state : t \in T}
         /\ c.killed = b.killed
<1> DEFINE new == AllSubTasks(s, T)
           now == Launched(s, b, T)
<1>1. now \subseteq new
  BY DEF Launched
<1>2. /\ c.unscheduled = b.unscheduled \ {t.state : t \in T}
      /\ c.scheduled = b.scheduled \cup (new \ now)
      /\ c.running = b.running \cup now
      /\ c.finished = b.finished
      /\ c.idle \in SUBSET b.idle
      /\ c.killed = b.killed
  BY DEF add_sub_tasks, Book
<1>3. new \subseteq SubTask
  BY NewSubTasksAre
<1>4. c \in Book
  <2>1. c = [unscheduled |-> c.unscheduled, scheduled |-> c.scheduled, running |-> c.running,
             finished |-> c.finished, idle |-> c.idle, killed |-> c.killed]
    BY DEF add_sub_tasks, Book
  <2>2. /\ c.unscheduled \in SUBSET Members /\ c.scheduled \in SUBSET SubTask
        /\ c.running \in SUBSET SubTask /\ c.finished \in SUBSET SubTask
        /\ c.idle \in SUBSET (Runners \X RunnerRanks) /\ c.killed \in SUBSET (Members \X Runners)
    BY <1>1, <1>2, <1>3 DEF Book
  <2> QED
    BY <2>1, <2>2 DEF Book
<1>5. SubTasks(c) = SubTasks(b) \cup new
  BY <1>1, <1>2 DEF SubTasks
<1>6. \A u \in new : u \notin SubTasks(b)
  BY NewSubTasksAre, OneRunner
<1>7. /\ c.scheduled \cap c.running = {}
      /\ (c.scheduled \cup c.running) \cap c.finished = {}
  BY <1>1, <1>2, <1>6 DEF Kept, SubTasks
<1>8. ASSUME NEW m \in Members
      PROVE  IF m \in c.unscheduled THEN OfMember(c, m) = {}
             ELSE /\ {t.rank : t \in OfMember(c, m)} = Linked(s)
                  /\ \A t, u \in OfMember(c, m) : t.runner = u.runner /\ (t.rank = u.rank => t = u)
  <2>1. CASE \A t \in T : t.state # m
    <3>1. \A u \in new : u.state # m
      BY <2>1, NewSubTasksAre
    <3>2. OfMember(c, m) = OfMember(b, m)
      BY <1>5, <3>1 DEF OfMember
    <3>3. m \in c.unscheduled <=> m \in b.unscheduled
      BY <1>2, <2>1
    <3> QED
      BY <3>2, <3>3 DEF Kept
  <2>2. ASSUME NEW t \in T, t.state = m
        PROVE  /\ m \notin c.unscheduled
               /\ {u.rank : u \in OfMember(c, m)} = Linked(s)
               /\ \A u, v \in OfMember(c, m) : u.runner = v.runner /\ (u.rank = v.rank => u = v)
    <3>1. m \notin c.unscheduled
      BY <1>2, <2>2
    <3>2. OfMember(b, m) = {}
      BY <2>2 DEF Kept
    <3>3. \A u : u \in OfMember(c, m) <=> u \in NewSubTasks(s, t)
      <4>1. \A u : u \in OfMember(c, m) <=> u \in new /\ u.state = m
        BY <1>5, <3>2 DEF OfMember
      <4>2. \A u \in NewSubTasks(s, t) : u \in new /\ u.state = m
        BY <2>2 DEF NewSubTasks, AllSubTasks
      <4>3. ASSUME NEW u \in new, u.state = m PROVE u \in NewSubTasks(s, t)
        <5>1. PICK v \in T : u \in NewSubTasks(s, v)
          BY DEF AllSubTasks
        <5>2. v.state = m
          BY <4>3, <5>1 DEF NewSubTasks
        <5> QED
          BY <2>2, <5>1, <5>2
      <4> QED
        BY <4>1, <4>2, <4>3
    <3>4. \A u, v \in OfMember(c, m) : u.runner = v.runner /\ (u.rank = v.rank => u = v)
      BY <3>3 DEF NewSubTasks
    <3>5. {u.rank : u \in OfMember(c, m)} = Linked(s)
      <4>1. ASSUME NEW k \in Linked(s) PROVE \E u \in OfMember(c, m) : u.rank = k
        <5> DEFINE u == [runner |-> t.runner, rank |-> k, state |-> t.state, id |-> t.id]
        <5>1. u \in OfMember(c, m) /\ u.rank = k
          BY <3>3 DEF NewSubTasks
        <5> QED
          BY <5>1
      <4>2. \A u \in OfMember(c, m) : u.rank \in Linked(s)
        BY <3>3 DEF NewSubTasks
      <4> QED
        BY <4>1, <4>2
    <3> QED
      BY <3>1, <3>4, <3>5
  <2> QED
    BY <2>1, <2>2
<1> QED
  BY <1>2, <1>4, <1>5, <1>7, <1>8 DEF Kept

(* A new step begins with nothing but members that wait. *)
LEMMA NewTimestep ==
  ASSUME NEW s, NEW b \in Book, b.scheduled = {}, b.running = {}, NEW c, c = init_new_timestep(b)
  PROVE  /\ c \in Book
         /\ Kept(s, c)
         /\ SubTasks(c) = {} /\ c.finished = {}
         /\ c.unscheduled = Members
         /\ c.killed = b.killed
<1>1. /\ c.unscheduled = Members /\ c.scheduled = {} /\ c.running = {} /\ c.finished = {}
      /\ c.killed = b.killed /\ c \in Book
  BY DEF init_new_timestep, Book
<1> QED
  BY <1>1 DEF Kept, SubTasks, OfMember

-----------------------------------------------------------------------------
(***************************************************************************)
(* Rank 0 gives out members: book b becomes c, and q is told to the other  *)
(* ranks.                                                                  *)
(***************************************************************************)
GivesOut(b, c, q, id) ==
  /\ c \in Book /\ Kept(0, c)
  /\ c.killed = b.killed /\ c.finished = b.finished
  /\ c.unscheduled \subseteq b.unscheduled
  /\ q \in Seq(NewTask)
  /\ \A i \in 1 .. Len(q) :
       /\ q[i].id = id + i
       /\ q[i].state \in b.unscheduled
       /\ \E u \in SubTasks(c) : Task(u) = Task(q[i])
  /\ \A i, j \in 1 .. Len(q) : q[i].state = q[j].state => i = j
  /\ SubTasks(b) \subseteq SubTasks(c)
  /\ \A u \in SubTasks(c) : u \in SubTasks(b)
                            \/ \E i \in 1 .. Len(q) : q[i].state = u.state /\ Task(q[i]) = Task(u)
  /\ q = <<>> => c.unscheduled = b.unscheduled

(* What schedule_new_task does with the book and the messages. *)
LEMMA Scheduled ==
  ASSUME NEW b \in Book, Kept(0, b), NEW rs \in SUBSET Runners, NEW id \in Nat,
         NEW step, NEW told_runners,
         schedule_new_task(b, rs, id, step, told_runners)
  PROVE  \E c \in Book, q \in Seq(NewTask) :
           /\ GivesOut(b, c, q, id)
           /\ book' = [book EXCEPT ![0] = c]
           /\ new_task' = [d \in OtherRanks |-> new_task[d] \o q]
           /\ task_id' = id + Len(q)
           /\ finished_ranks' = IF q = <<>> THEN finished_ranks ELSE 0
<1> DEFINE T == NewTasks(b, rs, id)
           c == add_sub_tasks(0, b, T)
           q == InOrder(T, id)
<1>0. 0 \in ServerRanks
  BY ServerAssumption DEF ServerRanks
<1>1. NumberedTasks(T, b.unscheduled, id)
  BY NewTasksNumbered, SubTaskTypes
<1>2. /\ book' = [book EXCEPT ![0] = c]
      /\ task_id' = id + Cardinality(T)
      /\ finished_ranks' = IF T = {} THEN finished_ranks ELSE 0
      /\ new_task' = [d \in OtherRanks |-> new_task[d] \o q]
  BY DEF schedule_new_task
<1> HIDE DEF T, c, q
<1>3. /\ T \subseteq NewTask /\ Cardinality(T) \in Nat
      /\ \A t \in T : t.state \in b.unscheduled
      /\ \A t, u \in T : t.state = u.state => t = u
  BY <1>1 DEF NumberedTasks
<1>4. /\ c \in Book
      /\ Kept(0, c)
      /\ SubTasks(c) = SubTasks(b) \cup AllSubTasks(0, T)
      /\ c.finished = b.finished
      /\ c.unscheduled = b.unscheduled \ {t.state : t \in T}
      /\ c.killed = b.killed
  BY <1>0, <1>3, AddSubTasks DEF c
<1>5. /\ q \in Seq(NewTask)
      /\ Len(q) = Cardinality(T)
      /\ \A i \in 1 .. Len(q) : q[i] \in T /\ q[i].id = id + i
      /\ \A t \in T : \E i \in 1 .. Len(q) : q[i] = t
  BY <1>1, NewTasksListed DEF q
<1>6. /\ \A u \in AllSubTasks(0, T) : \E t \in T : u.state = t.state /\ Task(u) = Task(t)
      /\ \A t \in T : \E u \in AllSubTasks(0, T) : u.state = t.state /\ Task(u) = Task(t)
  BY <1>0, <1>3, NewSubTasksAre
<1>7. q = <<>> <=> T = {}
  <2>1. ASSUME q = <<>> PROVE T = {}
    BY <1>5, <2>1
  <2>2. ASSUME T = {} PROVE q = <<>>
    <3>1. Len(q) = 0
      BY <1>5, <2>2
    <3> QED
      BY <1>5, <3>1
  <2> QED
    BY <2>1, <2>2
<1>8. \A i, j \in 1 .. Len(q) : q[i].state = q[j].state => i = j
  <2> SUFFICES ASSUME NEW i \in 1 .. Len(q), NEW j \in 1 .. Len(q), q[i].state = q[j].state
               PROVE  i = j
    OBVIOUS
  <2>1. q[i] = q[j]
    BY <1>3, <1>5
  <2>2. id + i = id + j
    BY <1>5, <2>1
  <2> QED
    BY <2>2
<1>9. GivesOut(b, c, q, id)
  <2>1. \A i \in 1 .. Len(q) : q[i].state \in b.unscheduled /\ \E u \in SubTasks(c) : Task(u) = Task(q[i])
    BY <1>3, <1>4, <1>5, <1>6
  <2>2. \A u \in SubTasks(c) : u \in SubTasks(b)
                               \/ \E i \in 1 .. Len(q) : q[i].state = u.state /\ Task(q[i]) = Task(u)
    <3> TAKE u \in SubTasks(c)
    <3>1. CASE u \in SubTasks(b)
      BY <3>1
    <3>2. CASE u \in AllSubTasks(0, T)
      <4>1. PICK t \in T : u.state = t.state /\ Task(u) = Task(t)
        BY <1>6, <3>2
      <4>2. PICK i \in 1 .. Len(q) : q[i] = t
        BY <1>5
      <4> QED
        BY <4>1, <4>2
    <3> QED
      BY <1>4, <3>1, <3>2
  <2>3. q = <<>> => c.unscheduled = b.unscheduled
    BY <1>4, <1>7
  <2> QED
    BY <1>4, <1>5, <1>8, <2>1, <2>2, <2>3 DEF GivesOut
<1> QED
  BY <1>2, <1>4, <1>5, <1>7, <1>9

(* The counted ranks are finitely many. *)
LEMMA CountedFinite == IsFiniteSet(Counted) /\ Cardinality(Counted) \in Nat
<1>1. IsFiniteSet(OtherRanks)
  BY ServerAssumption, FS_Interval DEF OtherRanks
<1>2. Counted \in SUBSET OtherRanks
  BY DEF Counted
<1> QED
  BY <1>1, <1>2, FS_Subset, FS_CardinalityType

(***************************************************************************)
(* Within a step rank 0 may take back what it has given to a runner, and   *)
(* give out members: what the others know stays in order.                  *)
(***************************************************************************)
TakesBack(b) ==
  /\ b \in Book /\ Kept(0, b)
  /\ book[0].killed \subseteq b.killed
  /\ book[0].unscheduled \subseteq b.unscheduled
  /\ SubTasks(b) \subseteq SubTasks(book[0])
  /\ \A t \in SubTasks(book[0]) : t \in SubTasks(b) \/ Task(t) \in b.killed

(* No kill is reported that was not reported before. *)
FewerKills ==
  \A d \in OtherRanks : \A i \in DOMAIN kill_runner'[d] :
    \E j \in DOMAIN kill_runner[d] : kill_runner'[d][i] = kill_runner[d][j]

(* Rank 0 takes back and gives out: the ranks still agree. *)
LEMMA FirstGoesOn ==
  ASSUME Typed, Agreement, phase = "simulation", at[0] = "loop",
         NEW b, TakesBack(b), NEW c \in Book, NEW q \in Seq(NewTask), GivesOut(b, c, q, task_id),
         book' = [book EXCEPT ![0] = c],
         new_task' = [d \in OtherRanks |-> new_task[d] \o q],
         task_id' = task_id + Len(q),
         finished_ranks' = IF q = <<>> THEN finished_ranks ELSE 0,
         FewerKills,
         UNCHANGED <<phase, at, current_step, agreement>>
  PROVE  Agreement'
<1>0. /\ 0 \in ServerRanks /\ book[0] \in Book /\ book'[0] = c
      /\ \A s \in ServerRanks : s # 0 => book'[s] = book[s]
      /\ \A d \in OtherRanks : d \in ServerRanks /\ d # 0 /\ book'[d] = book[d]
  BY ServerAssumption DEF ServerRanks, OtherRanks, Typed
<1>1. Given \subseteq Given'
  BY <1>0 DEF Given, TakesBack, GivesOut
<1>2. ASSUME NEW x \in Given, NEW i \in 1 .. Len(q), q[i].state = x[1]
      PROVE  x \in c.killed
  <2>1. CASE x \in book[0].killed
    BY <2>1 DEF TakesBack, GivesOut
  <2>2. ASSUME NEW t \in SubTasks(book[0]), x = Task(t) PROVE x \in c.killed
    <3>1. t.state \in b.unscheduled
      BY <1>2, <2>2 DEF GivesOut, Task
    <3>2. t \notin SubTasks(b)
      BY <3>1, OneRunner DEF TakesBack
    <3> QED
      BY <2>2, <3>2 DEF TakesBack, GivesOut
  <2> QED
    BY <2>1, <2>2 DEF Given
<1>3. book[0].killed \subseteq c.killed
  BY DEF TakesBack, GivesOut
<1>4. ASSUME NEW d \in OtherRanks
      PROVE  /\ Follows(d)' /\ Numbered(d)' /\ Reported(d)'
             /\ Announced(d)' /\ TakenFrom(d)' /\ KillsKnown(d)' /\ LastWord(d)'
  <2> DEFINE old == new_task[d]
             new == new_task'[d]
             n == Len(old)
  <2>0. /\ Follows(d) /\ Numbered(d) /\ Reported(d)
        /\ Announced(d) /\ TakenFrom(d) /\ KillsKnown(d) /\ LastWord(d)
    BY DEF Agreement
  <2>1. /\ new = old \o q
        /\ old \in Seq(NewTask)
        /\ n \in Nat /\ Len(q) \in Nat /\ DOMAIN old = 1 .. n
        /\ \A i \in DOMAIN old : old[i] \in NewTask
        /\ new \in Seq(NewTask)
        /\ DOMAIN new = 1 .. n + Len(q)
        /\ \A i \in 1 .. n : new[i] = old[i]
        /\ \A i \in 1 .. Len(q) : new[n + i] = q[i]
    BY DEF Typed
  <2> HIDE DEF new
  <2>2. \A i \in DOMAIN new : \/ i \in DOMAIN old /\ new[i] = old[i]
                              \/ i - n \in 1 .. Len(q) /\ new[i] = q[i - n] /\ i > n
    <3> TAKE i \in DOMAIN new
    <3>1. CASE i <= n
      BY <2>1, <3>1
    <3>2. CASE i > n
      <4>1. i - n \in 1 .. Len(q)
        BY <2>1, <3>2
      <4>2. new[n + (i - n)] = q[i - n]
        BY <2>1, <4>1
      <4> QED
        BY <2>1, <3>2, <4>1, <4>2
    <3> QED
      BY <2>1, <3>1, <3>2
  <2>3. /\ n \in Nat /\ Len(q) \in Nat
        /\ \A i \in DOMAIN old : i \in Nat /\ i <= n
        /\ \A i \in DOMAIN new : i \in Nat
        /\ \A i \in DOMAIN new : i > n => i - n \in 1 .. Len(q) /\ new[i] = q[i - n]
    <3>1. n \in Nat /\ Len(q) \in Nat /\ \A i \in DOMAIN old : i \in Nat /\ i <= n
      BY <2>1
    <3>2. \A i \in DOMAIN new : i \in Nat
      BY <2>1
    <3>3. \A i \in DOMAIN new : i > n => i \notin DOMAIN old
      BY <3>1, <3>2
    <3> QED
      BY <2>2, <3>1, <3>2, <3>3
  <2> HIDE DEF n, old
  <2>4. Follows(d)'
    BY <2>0 DEF Follows, agreement, HasAllTasks
  <2>5. Numbered(d)'
    <3>1. task_id \in Nat /\ highest_received_task_id[d] \in Nat
      BY DEF Typed
    <3>2. /\ \A i \in DOMAIN old : old[i].id \in Nat /\ old[i].id <= task_id
          /\ \A i, j \in DOMAIN old : i < j => old[i].id < old[j].id
          /\ at[d] = "loop" =>
               /\ highest_received_task_id[d] <= task_id
               /\ \A i \in DOMAIN old : old[i].id > highest_received_task_id[d]
      BY <2>0, <2>1 DEF Numbered, old, NewTask
    <3>3. \A i \in 1 .. Len(q) : /\ q[i].id = task_id + i /\ q[i].id \in Nat
                                 /\ q[i].id > task_id /\ q[i].id <= task_id + Len(q)
      BY <2>1, <3>1 DEF GivesOut
    <3>4. ASSUME NEW i \in DOMAIN new
          PROVE  /\ new[i].id <= task_id + Len(q)
                 /\ at[d] = "loop" => new[i].id > highest_received_task_id[d]
      <4>1. CASE i \in DOMAIN old /\ new[i] = old[i]
        BY <2>3, <3>1, <3>2, <4>1
      <4>2. CASE i - n \in 1 .. Len(q) /\ new[i] = q[i - n]
        BY <2>3, <3>1, <3>2, <3>3, <4>2
      <4> QED
        BY <2>2, <4>1, <4>2
    <3>5. \A i, j \in DOMAIN new : i < j => new[i].id < new[j].id
      <4> TAKE i, j \in DOMAIN new
      <4>1. CASE i \in DOMAIN old /\ new[i] = old[i] /\ j \in DOMAIN old /\ new[j] = old[j]
        BY <3>2, <4>1
      <4>2. CASE i \in DOMAIN old /\ new[i] = old[i] /\ j - n \in 1 .. Len(q) /\ new[j] = q[j - n]
        BY <3>1, <3>2, <3>3, <4>2
      <4>3. CASE i > n
        <5>1. i < j => j > n /\ i - n < j - n
          BY <2>3, <4>3
        <5>2. i < j => i - n \in 1 .. Len(q) /\ j - n \in 1 .. Len(q)
                       /\ new[i] = q[i - n] /\ new[j] = q[j - n]
          BY <2>3, <4>3, <5>1
        <5> QED
          BY <3>1, <3>3, <5>1, <5>2
      <4> QED
        BY <2>2, <4>1, <4>2, <4>3
    <3>6. at[d] = "loop" => highest_received_task_id[d] <= task_id + Len(q)
      BY <2>3, <3>1, <3>2
    <3> QED
      BY <3>4, <3>5, <3>6 DEF Numbered, new, agreement
  <2>6. Reported(d)'
    BY <1>0, <2>0 DEF Reported, Increasing, Done, agreement
  <2>7. Announced(d)'
    <3>1. \A i \in DOMAIN old : Task(old[i]) \in Given
      BY <2>0 DEF Announced, old
    <3>2. \A i, j \in DOMAIN old : i < j /\ old[i].state = old[j].state => Task(old[i]) \in book[0].killed
      BY <2>0 DEF Announced, old
    <3>3. \A i \in DOMAIN new : Task(new[i]) \in Given'
      <4>1. \A i \in 1 .. Len(q) : Task(q[i]) \in Given'
        BY <1>0 DEF GivesOut, Given
      <4> QED
        BY <1>1, <2>2, <3>1, <4>1
    <3>4. \A i, j \in DOMAIN new : i < j /\ new[i].state = new[j].state => Task(new[i]) \in c.killed
      <4> SUFFICES ASSUME NEW i \in DOMAIN new, NEW j \in DOMAIN new, i < j, new[i].state = new[j].state
                   PROVE  Task(new[i]) \in c.killed
        OBVIOUS
      <4>1. CASE i \in DOMAIN old /\ new[i] = old[i] /\ j \in DOMAIN old /\ new[j] = old[j]
        BY <1>3, <3>2, <4>1
      <4>2. CASE i \in DOMAIN old /\ new[i] = old[i] /\ j - n \in 1 .. Len(q) /\ new[j] = q[j - n]
        <5>1. Task(old[i]) \in Given /\ q[j - n].state = Task(old[i])[1]
          BY <3>1, <4>2 DEF Task
        <5> QED
          BY <1>2, <4>2, <5>1
      <4>3. CASE i > n
        <5>1. j > n /\ i - n # j - n
          BY <2>3, <4>3
        <5>2. i - n \in 1 .. Len(q) /\ j - n \in 1 .. Len(q)
              /\ new[i] = q[i - n] /\ new[j] = q[j - n]
          BY <2>3, <4>3, <5>1
        <5> QED
          BY <5>1, <5>2 DEF GivesOut
      <4> QED
        BY <2>2, <4>1, <4>2, <4>3
    <3> QED
      BY <1>0, <3>3, <3>4 DEF Announced, new
  <2>8. TakenFrom(d)'
    <3> SUFFICES ASSUME at[d] = "loop", NEW t \in SubTasks(book[d])
                 PROVE  /\ Task(t) \in Given'
                        /\ \A i \in DOMAIN new : new[i].state = t.state => Task(t) \in c.killed
      BY <1>0 DEF TakenFrom, SubTasks, new
    <3>1. /\ Task(t) \in Given /\ Task(t)[1] = t.state
          /\ \A i \in DOMAIN old : old[i].state = t.state => Task(t) \in book[0].killed
      BY <2>0 DEF TakenFrom, Task, old
    <3> QED
      BY <1>1, <1>2, <1>3, <2>2, <3>1
  <2>9. KillsKnown(d)'
    <3> SUFFICES ASSUME NEW k \in DOMAIN kill_runner'[d], NEW x, x = kill_runner'[d][k]
                 PROVE  \/ x \in c.killed
                        \/ /\ x \in Given'
                           /\ x[1] \in book[d].unscheduled
                           /\ \A j \in DOMAIN new : new[j].state # x[1]
      BY <1>0 DEF KillsKnown, new
    <3>0. PICK i \in DOMAIN kill_runner[d] : x = kill_runner[d][i]
      BY DEF FewerKills
    <3>1. \/ x \in book[0].killed
          \/ x \in Given /\ x[1] \in book[d].unscheduled /\ \A j \in DOMAIN old : old[j].state # x[1]
      BY <2>0, <3>0 DEF KillsKnown, old
    <3>2. CASE x \in book[0].killed
      BY <1>3, <3>2
    <3>3. CASE x \in Given /\ x[1] \in book[d].unscheduled /\ \A j \in DOMAIN old : old[j].state # x[1]
      <4>1. (\E j \in 1 .. Len(q) : q[j].state = x[1]) => x \in c.killed
        BY <1>2, <3>3
      <4> QED
        BY <1>1, <2>2, <3>3, <4>1
    <3> QED
      BY <3>1, <3>2, <3>3
  <2>10. LastWord(d)'
    <3>0. book'[0] = c /\ book'[d] = book[d] /\ at'[d] = at[d] /\ new_task'[d] = new
      BY <1>0 DEF new
    <3> SUFFICES ASSUME NEW t \in SubTasks(c) PROVE LastWordIs(t, new, book[d], at[d] = "loop")
      BY <3>0 DEF LastWord
    <3>1. CASE t \in SubTasks(b)
      <4>1. \A i \in 1 .. Len(q) : q[i].state # t.state
        BY <3>1, OneRunner DEF TakesBack, GivesOut
      <4>2. t \in SubTasks(book[0])
        BY <3>1 DEF TakesBack
      <4>3. \/ \E i \in DOMAIN old :
                 /\ Task(old[i]) = Task(t)
                 /\ \A j \in DOMAIN old : i < j => old[j].state # t.state
            \/ /\ \A i \in DOMAIN old : old[i].state # t.state
               /\ at[d] = "loop" => \/ t.state \in book[d].unscheduled
                                    \/ \E u \in SubTasks(book[d]) : Task(u) = Task(t)
        BY <2>0, <4>2 DEF LastWord, LastWordIs, old
      <4>4. CASE \A i \in DOMAIN old : old[i].state # t.state
        <5>1. \A i \in DOMAIN new : new[i].state # t.state
          BY <2>2, <4>1, <4>4
        <5>2. ~ \E i \in DOMAIN old : Task(old[i]) = Task(t)
          BY <4>4 DEF Task
        <5> QED
          BY <4>3, <5>1, <5>2 DEF LastWordIs
      <4>5. ASSUME NEW i \in DOMAIN old, Task(old[i]) = Task(t),
                   \A j \in DOMAIN old : i < j => old[j].state # t.state
            PROVE  /\ i \in DOMAIN new
                   /\ Task(new[i]) = Task(t)
                   /\ \A j \in DOMAIN new : i < j => new[j].state # t.state
        <5>1. i \in DOMAIN new /\ new[i] = old[i]
          BY <2>1, <2>3, <4>5 DEF old, n
        <5> QED
          BY <2>2, <4>1, <4>5, <5>1
      <4> QED
        BY <4>3, <4>4, <4>5 DEF LastWordIs
    <3>2. ASSUME NEW i \in 1 .. Len(q), q[i].state = t.state, Task(q[i]) = Task(t)
          PROVE  /\ n + i \in DOMAIN new
                 /\ Task(new[n + i]) = Task(t)
                 /\ \A j \in DOMAIN new : n + i < j => new[j].state # t.state
      <4>1. n + i \in DOMAIN new /\ new[n + i] = q[i]
        BY <2>1, <3>2
      <4>2. ASSUME NEW j \in DOMAIN new, n + i < j PROVE new[j].state # t.state
        <5>1. j > n /\ j - n # i
          BY <2>3, <4>2
        <5>2. j - n \in 1 .. Len(q) /\ new[j] = q[j - n]
          BY <2>3, <5>1
        <5> QED
          BY <3>2, <5>1, <5>2 DEF GivesOut
      <4> QED
        BY <3>2, <4>1, <4>2
    <3> QED
      BY <3>1, <3>2 DEF GivesOut, LastWordIs
  <2> QED
    BY <2>4, <2>5, <2>6, <2>7, <2>8, <2>9, <2>10
<1>5. \A s \in ServerRanks : BookKept(s)'
  <2> TAKE s \in ServerRanks
  <2>1. CASE s = 0
    BY <1>0, <2>1 DEF BookKept, GivesOut, Kept, OfMember, SubTasks
  <2>2. CASE s # 0
    BY <1>0, <2>2 DEF BookKept, Agreement, Kept, OfMember, SubTasks, Done
  <2> QED
    BY <2>1, <2>2
<1>6. Counts'
  <2>1. task_id \in Nat \ {0} /\ Len(q) \in Nat
    BY DEF Typed
  <2>2. CASE q = <<>>
    <3>1. task_id' = task_id /\ finished_ranks' = finished_ranks
      BY <2>1, <2>2
    <3>2. Counted' = Counted
      BY <3>1 DEF Counted, agreement
    <3>3. book[0].unscheduled \subseteq c.unscheduled
      BY <2>2 DEF GivesOut, TakesBack
    <3> QED
      BY <1>0, <3>1, <3>2, <3>3 DEF Counts, Agreement
  <2>3. CASE q # <<>>
    <3>1. Len(q) > 0
      BY <2>3
    <3>2. IsFiniteSet(Counted') /\ Cardinality(Counted') \in Nat
      <4>1. IsFiniteSet(OtherRanks)
        BY ServerAssumption, FS_Interval DEF OtherRanks
      <4>2. Counted' \in SUBSET OtherRanks
        BY DEF Counted
      <4> QED
        BY <4>1, <4>2, FS_Subset, FS_CardinalityType
    <3> QED
      BY <2>1, <2>3, <3>1, <3>2 DEF Counts
  <2> QED
    BY <2>2, <2>3
<1>7. AtStart'
  BY DEF AtStart
<1> QED
  BY <1>4, <1>5, <1>6, <1>7 DEF Agreement

-----------------------------------------------------------------------------
(***************************************************************************)
(* The other steps within a step of the ensemble.                          *)
(***************************************************************************)

(* The other ranks are ranks, and not the first. *)
LEMMA Ranks ==
  /\ 0 \in ServerRanks
  /\ \A d \in OtherRanks : d \in ServerRanks /\ d # 0
  /\ \A s \in ServerRanks : s # 0 => s \in OtherRanks
BY ServerAssumption DEF ServerRanks, OtherRanks

(* Rank 0 reads a message that tells it nothing new. *)
LEMMA OnlyRead ==
  ASSUME Typed, Agreement, phase = "simulation", FewerKills,
         UNCHANGED <<phase, at, current_step, book, scheduling, agreement>>
  PROVE  Agreement'
<1>1. AtStart' /\ Counts' /\ \A s \in ServerRanks : BookKept(s)'
  BY DEF AtStart, Agreement, Counts, Counted, BookKept, Kept, OfMember, SubTasks, Done,
     scheduling, agreement
<1>2. ASSUME NEW d \in OtherRanks
      PROVE  /\ Follows(d)' /\ Numbered(d)' /\ Reported(d)'
             /\ Announced(d)' /\ TakenFrom(d)' /\ KillsKnown(d)'
             /\ at'[0] # "ended" => LastWord(d)'
  <2>0. Given' = Given
    BY DEF Given
  <2>1. Follows(d)' /\ Numbered(d)' /\ Reported(d)'
    BY DEF Agreement, Follows, HasAllTasks, Numbered, Reported, Increasing, Done, scheduling, agreement
  <2>2. Announced(d)' /\ TakenFrom(d)'
    BY <2>0 DEF Agreement, Announced, TakenFrom, scheduling
  <2>3. KillsKnown(d)'
    <3> SUFFICES ASSUME NEW k \in DOMAIN kill_runner'[d], NEW x, x = kill_runner'[d][k]
                 PROVE  \/ x \in book[0].killed
                        \/ /\ x \in Given
                           /\ x[1] \in book[d].unscheduled
                           /\ \A j \in DOMAIN new_task[d] : new_task[d][j].state # x[1]
      BY <2>0 DEF KillsKnown, scheduling
    <3>1. PICK i \in DOMAIN kill_runner[d] : x = kill_runner[d][i]
      BY DEF FewerKills
    <3> QED
      BY <3>1 DEF Agreement, KillsKnown
  <2>4. at'[0] # "ended" => LastWord(d)'
    BY DEF Agreement, LastWord, scheduling
  <2> QED
    BY <2>1, <2>2, <2>3, <2>4
<1> QED
  BY <1>1, <1>2 DEF Agreement

(* A rank starts or finishes subtasks. *)
LEMMA BookMoves ==
  ASSUME Typed, Agreement, phase = "simulation", NEW s \in ServerRanks, at[s] = "loop",
         NEW c \in Book, Kept(s, c), SubTasks(c) = SubTasks(book[s]),
         c.unscheduled = book[s].unscheduled, c.killed = book[s].killed,
         Done(book[s]) => Done(c),
         book' = [book EXCEPT ![s] = c],
         UNCHANGED <<phase, at, current_step, scheduling, agreement, kill_runner>>
  PROVE  Agreement'
<1>0. /\ book'[s] = c
      /\ \A u \in ServerRanks : u # s => book'[u] = book[u]
  BY DEF Typed
<1>1. \A u \in ServerRanks :
        /\ SubTasks(book'[u]) = SubTasks(book[u])
        /\ book'[u].unscheduled = book[u].unscheduled
        /\ book'[u].killed = book[u].killed
        /\ Done(book[u]) => Done(book'[u])
        /\ Kept(u, book[u]) => Kept(u, book'[u])
  BY <1>0
<1>2. Given' = Given
  BY <1>1, Ranks DEF Given
<1>3. AtStart' /\ Counts' /\ \A u \in ServerRanks : BookKept(u)'
  <2>1. AtStart'
    BY DEF AtStart
  <2>2. Counted' = Counted
    BY DEF Counted, scheduling, agreement
  <2>3. Counts'
    BY <1>1, <2>2, Ranks DEF Counts, Agreement, scheduling
  <2>4. ASSUME NEW u \in ServerRanks PROVE BookKept(u)'
    <3>1. Kept(u, book'[u]) /\ (at'[u] = "update" => Done(book'[u]))
      BY <1>1 DEF BookKept, Agreement
    <3> QED
      BY <3>1 DEF BookKept, Kept, OfMember, SubTasks, Done
  <2> QED
    BY <2>1, <2>3, <2>4
<1>4. ASSUME NEW d \in OtherRanks
      PROVE  /\ Follows(d)' /\ Numbered(d)' /\ Reported(d)'
             /\ Announced(d)' /\ TakenFrom(d)' /\ KillsKnown(d)'
             /\ at'[0] # "ended" => LastWord(d)'
  <2>1. Follows(d)' /\ Numbered(d)'
    BY DEF Agreement, Follows, HasAllTasks, Numbered, scheduling, agreement
  <2>2. Reported(d)'
    <3>1. Done(book[d]) => Done(book'[d])
      BY <1>1, Ranks
    <3>2. Done(book[d])' <=> Done(book'[d])
      BY DEF Done
    <3> QED
      BY <3>1, <3>2 DEF Agreement, Reported, Increasing, agreement
  <2>3. Announced(d)' /\ KillsKnown(d)'
    BY <1>1, <1>2, Ranks DEF Agreement, Announced, KillsKnown, scheduling
  <2>4. TakenFrom(d)'
    BY <1>1, <1>2, Ranks DEF Agreement, TakenFrom, scheduling
  <2>5. at'[0] # "ended" => LastWord(d)'
    <3> SUFFICES ASSUME at[0] # "ended", NEW t \in SubTasks(book[0])
                 PROVE  LastWordIs(t, new_task[d], book'[d], at[d] = "loop")
      BY <1>1, Ranks DEF LastWord, scheduling
    <3>1. LastWordIs(t, new_task[d], book[d], at[d] = "loop")
      BY DEF Agreement, LastWord
    <3> QED
      BY <1>1, <3>1, Ranks DEF LastWordIs
  <2> QED
    BY <2>1, <2>2, <2>3, <2>4, <2>5
<1> QED
  BY <1>3, <1>4 DEF Agreement

(***************************************************************************)
(* A step of one of the other ranks: the rest of the ensemble sees none of *)
(* it but what it tells rank 0.                                            *)
(***************************************************************************)
OwnPart(d) ==
  /\ Follows(d) /\ Numbered(d) /\ Reported(d)
  /\ Announced(d) /\ TakenFrom(d) /\ KillsKnown(d)
  /\ at[0] # "ended" => LastWord(d)

(* If the rank itself is in order, the ranks still agree. *)
LEMMA OneRankSteps ==
  ASSUME Typed, Agreement, phase = "simulation", NEW d \in OtherRanks,
         UNCHANGED <<phase, task_id, finished_ranks>>,
         Counted' = Counted,
         \A s \in ServerRanks : s # d => book'[s] = book[s] /\ at'[s] = at[s]
                                         /\ current_step'[s] = current_step[s],
         \A e \in OtherRanks : e # d =>
           /\ highest_received_task_id'[e] = highest_received_task_id[e]
           /\ highest_sent_task_id'[e] = highest_sent_task_id[e]
           /\ new_task'[e] = new_task[e] /\ kill_runner'[e] = kill_runner[e]
           /\ rank_finished'[e] = rank_finished[e] /\ nsteps'[e] = nsteps[e]
           /\ e \in all_finished' <=> e \in all_finished,
         Kept(d, book'[d]), at'[d] = "update" => Done(book'[d]),
         Given' = Given => OwnPart(d)'
  PROVE  Agreement'
<1>0. book'[0] = book[0] /\ at'[0] = at[0] /\ current_step'[0] = current_step[0]
  BY Ranks
<1>1. Given' = Given
  BY <1>0 DEF Given
<1>2. AtStart'
  BY DEF AtStart
<1>3. Counts'
  BY <1>0 DEF Counts, Agreement
<1>4. ASSUME NEW s \in ServerRanks PROVE BookKept(s)'
  <2>1. Kept(s, book'[s]) /\ (at'[s] = "update" => Done(book'[s]))
    <3>1. CASE s = d
      BY <3>1
    <3>2. CASE s # d
      BY <3>2 DEF Agreement, BookKept
    <3> QED
      BY <3>1, <3>2
  <2> QED
    BY <2>1 DEF BookKept, Kept, OfMember, SubTasks, Done
<1>5. ASSUME NEW e \in OtherRanks, e # d PROVE OwnPart(e)'
  <2>0. /\ book'[e] = book[e] /\ at'[e] = at[e] /\ current_step'[e] = current_step[e]
        /\ highest_received_task_id'[e] = highest_received_task_id[e]
        /\ highest_sent_task_id'[e] = highest_sent_task_id[e]
        /\ new_task'[e] = new_task[e] /\ kill_runner'[e] = kill_runner[e]
        /\ rank_finished'[e] = rank_finished[e] /\ nsteps'[e] = nsteps[e]
        /\ e \in all_finished' <=> e \in all_finished
    BY <1>5, Ranks
  <2>1. Follows(e)'
    BY <1>0, <2>0 DEF Agreement, Follows, HasAllTasks
  <2>2. Numbered(e)' /\ Reported(e)'
    BY <2>0 DEF Agreement, Numbered, Reported, Increasing, Done
  <2>3. Announced(e)' /\ TakenFrom(e)' /\ KillsKnown(e)'
    BY <1>0, <1>1, <2>0 DEF Agreement, Announced, TakenFrom, KillsKnown
  <2>4. at'[0] # "ended" => LastWord(e)'
    BY <1>0, <2>0 DEF Agreement, LastWord
  <2> QED
    BY <2>1, <2>2, <2>3, <2>4 DEF OwnPart
<1>6. \A e \in OtherRanks : OwnPart(e)'
  BY <1>1, <1>5
<1> QED
  BY <1>2, <1>3, <1>4, <1>6 DEF Agreement, OwnPart

(* A rank declares a runner faulty, and tells rank 0. *)
LEMMA OtherKills ==
  ASSUME Typed, Agreement, phase = "simulation", NEW d \in OtherRanks, at[d] = "loop",
         NEW t \in book[d].scheduled \cup book[d].running,
         book' = [book EXCEPT ![d] = kill_task(@, Task(t))],
         kill_runner' = [kill_runner EXCEPT ![d] = Append(@, Task(t))],
         UNCHANGED <<phase, at, current_step, scheduling, agreement>>
  PROVE  Agreement'
<1> DEFINE b == book[d]
           c == kill_task(b, Task(t))
<1>0. /\ b \in Book /\ Kept(d, b) /\ t \in SubTasks(b)
      /\ book'[d] = c /\ \A s \in ServerRanks : s # d => book'[s] = book[s]
      /\ OwnPart(d)
  BY Ranks DEF Typed, Agreement, BookKept, SubTasks, OwnPart
<1>1. /\ c \in Book
      /\ Kept(d, c)
      /\ SubTasks(c) = {u \in SubTasks(b) : u.state # t.state}
      /\ c.unscheduled = b.unscheduled \cup {t.state}
  BY <1>0, KillTask
<1>2. /\ kill_runner[d] \in Seq(Members \X Runners)
      /\ Task(t) \in Members \X Runners
      /\ kill_runner'[d] = Append(kill_runner[d], Task(t))
      /\ \A e \in OtherRanks : e # d => kill_runner'[e] = kill_runner[e]
  BY <1>0, SubTaskTypes DEF Typed
<1>3. \A i \in DOMAIN kill_runner'[d] :
        \/ i \in DOMAIN kill_runner[d] /\ kill_runner'[d][i] = kill_runner[d][i]
        \/ kill_runner'[d][i] = Task(t)
  BY <1>2
<1> HIDE DEF c, b
<1>4. ASSUME Given' = Given PROVE OwnPart(d)'
  <2>1. Follows(d)' /\ Numbered(d)'
    BY <1>0 DEF OwnPart, Follows, HasAllTasks, Numbered, scheduling, agreement
  <2>2. Reported(d)'
    <3>1. ~ Done(b)
      BY DEF Done, b
    <3> QED
      BY <1>0, <3>1 DEF OwnPart, Reported, Increasing, agreement, b
  <2>3. Announced(d)'
    BY <1>0, <1>4, Ranks DEF OwnPart, Announced, scheduling
  <2>4. TakenFrom(d)'
    BY <1>0, <1>1, <1>4, Ranks DEF OwnPart, TakenFrom, scheduling, b
  <2>5. KillsKnown(d)'
    <3>0. book'[0] = book[0] /\ new_task' = new_task
      BY <1>0, Ranks DEF scheduling
    <3> SUFFICES ASSUME NEW i \in DOMAIN kill_runner'[d], NEW x, x = kill_runner'[d][i]
                 PROVE  \/ x \in book[0].killed
                        \/ /\ x \in Given
                           /\ x[1] \in c.unscheduled
                           /\ \A j \in DOMAIN new_task[d] : new_task[d][j].state # x[1]
      BY <1>0, <1>4, <3>0 DEF KillsKnown
    <3>1. CASE i \in DOMAIN kill_runner[d] /\ x = kill_runner[d][i]
      BY <1>0, <1>1, <3>1 DEF OwnPart, KillsKnown, b
    <3>2. CASE x = Task(t)
      <4>1. x \in Given /\ x[1] = t.state
        BY <1>0, <3>2 DEF OwnPart, TakenFrom, Task, b
      <4>2. \/ x \in book[0].killed
            \/ \A j \in DOMAIN new_task[d] : new_task[d][j].state # t.state
        BY <1>0, <3>2 DEF OwnPart, TakenFrom, b
      <4> QED
        BY <1>1, <4>1, <4>2
    <3> QED
      BY <1>3, <3>1, <3>2
  <2>6. at'[0] # "ended" => LastWord(d)'
    <3> SUFFICES ASSUME at[0] # "ended", NEW v \in SubTasks(book[0])
                 PROVE  LastWordIs(v, new_task[d], c, at[d] = "loop")
      BY <1>0, Ranks DEF LastWord, scheduling
    <3>1. LastWordIs(v, new_task[d], b, at[d] = "loop")
      BY <1>0 DEF OwnPart, LastWord, b
    <3>2. \A u \in SubTasks(b) : Task(u) = Task(v) => u \in SubTasks(c) \/ v.state \in c.unscheduled
      BY <1>1 DEF Task
    <3> QED
      BY <1>1, <3>1, <3>2 DEF LastWordIs
  <2> QED
    BY <2>1, <2>2, <2>3, <2>4, <2>5, <2>6 DEF OwnPart
<1>5. Counted' = Counted
  BY DEF Counted, scheduling, agreement
<1> QED
  BY <1>0, <1>1, <1>2, <1>4, <1>5, OneRankSteps DEF scheduling, agreement

(* What a rank has before it takes a new task. *)
LEMMA WithoutMemberIs ==
  ASSUME Typed, NEW d \in OtherRanks, Kept(d, book[d]), new_task[d] # <<>>,
         NEW task, task = Head(new_task[d]), NEW b, b = WithoutMember(d), task.state \in b.unscheduled
  PROVE  /\ task \in NewTask
         /\ b \in Book
         /\ Kept(d, b)
         /\ SubTasks(b) = {u \in SubTasks(book[d]) : u.state # task.state}
         /\ b.finished = {u \in book[d].finished : u.state # task.state}
         /\ b.unscheduled = book[d].unscheduled \cup {task.state}
<1> DEFINE a == book[d]
           m == task.state
           old == {Task(t) : t \in Superseded(d)}
<1>0. task \in NewTask /\ a \in Book
  BY Ranks DEF Typed
<1>1. \A t : t \in Superseded(d) <=> t \in SubTasks(a) /\ t.state = m
  BY DEF Superseded
<1>2. \A u \in SubTasks(a) : Task(u) \in old <=> u.state = m
  BY <1>1 DEF Task
<1>3. old \subseteq Members \X Runners
  BY <1>0, <1>1, SubTaskTypes
<1>4. {t.state : t \in NewlyKilled(d)} \subseteq {m}
  BY <1>1 DEF NewlyKilled
<1>5. /\ b.unscheduled = a.unscheduled \cup {t.state : t \in NewlyKilled(d)}
      /\ b.scheduled = {u \in a.scheduled : Task(u) \notin old}
      /\ b.running = {u \in a.running : Task(u) \notin old}
      /\ b.finished = {u \in a.finished : Task(u) \notin old}
      /\ b.idle \in SUBSET a.idle
      /\ b.killed = a.killed \cup old
      /\ b = [unscheduled |-> b.unscheduled, scheduled |-> b.scheduled, running |-> b.running,
              finished |-> b.finished, idle |-> b.idle, killed |-> b.killed]
  BY <1>0 DEF WithoutMember, Forget, Drop, Book
<1> HIDE DEF old, a
<1>6. b.unscheduled = a.unscheduled \cup {m}
  BY <1>4, <1>5
<1>7. b \in Book
  <2>1. m \in Members
    BY <1>0 DEF NewTask
  <2>2. /\ b.unscheduled \in SUBSET Members /\ b.scheduled \in SUBSET SubTask
        /\ b.running \in SUBSET SubTask /\ b.finished \in SUBSET SubTask
        /\ b.idle \in SUBSET (Runners \X RunnerRanks) /\ b.killed \in SUBSET (Members \X Runners)
    BY <1>0, <1>3, <1>5, <1>6, <2>1 DEF Book
  <2> QED
    BY <1>5, <2>2 DEF Book
<1>8. SubTasks(b) = {u \in SubTasks(a) : u.state # m} /\ b.finished = {u \in a.finished : u.state # m}
  BY <1>2, <1>5 DEF SubTasks
<1>9. \A k \in Members : OfMember(b, k) = IF k = m THEN {} ELSE OfMember(a, k)
  BY <1>8 DEF OfMember
<1>10. Kept(d, b)
  BY <1>5, <1>6, <1>9 DEF Kept, a
<1> QED
  BY <1>0, <1>6, <1>7, <1>8, <1>10 DEF a

(* A rank takes the next task from rank 0. *)
LEMMA OtherSchedules ==
  ASSUME Typed, Agreement, phase = "simulation", NEW d \in OtherRanks, check_schedule_new_tasks(d)
  PROVE  Agreement'
<1> DEFINE a == book[d]
           task == Head(new_task[d])
           b == WithoutMember(d)
           c == add_sub_tasks(d, b, {task})
           q == new_task[d]
           m == task.state
<1>0. /\ at[d] = "loop" /\ q # <<>> /\ m \in b.unscheduled
      /\ a \in Book /\ Kept(d, a) /\ OwnPart(d) /\ d \in ServerRanks /\ d # 0
  BY Ranks DEF check_schedule_new_tasks, Runs, TaskUnexpected, Typed, Agreement, BookKept, OwnPart
<1>1. /\ book' = [book EXCEPT ![d] = c]
      /\ new_task' = [new_task EXCEPT ![d] = Tail(@)]
      /\ highest_received_task_id' = [highest_received_task_id EXCEPT ![d] =
           IF task.id > highest_received_task_id[d] THEN task.id ELSE highest_received_task_id[d]]
      /\ UNCHANGED <<phase, at, current_step, task_id, finished_ranks, highest_sent_task_id,
                     rank_finished, all_finished, nsteps, kill_runner>>
  BY DEF check_schedule_new_tasks, registration
<1>2. /\ task \in NewTask
      /\ b \in Book
      /\ Kept(d, b)
      /\ SubTasks(b) = {u \in SubTasks(a) : u.state # m}
      /\ b.unscheduled = a.unscheduled \cup {m}
  BY <1>0, WithoutMemberIs
<1> HIDE DEF b
<1>3. /\ c \in Book
      /\ Kept(d, c)
      /\ SubTasks(c) = SubTasks(b) \cup AllSubTasks(d, {task})
      /\ c.unscheduled = a.unscheduled \ {m}
  BY <1>0, <1>2, AddSubTasks
<1>4. /\ \A u \in AllSubTasks(d, {task}) : u.state = m /\ Task(u) = Task(task)
      /\ \E u \in AllSubTasks(d, {task}) : Task(u) = Task(task)
  BY <1>0, <1>2, NewSubTasksAre
<1> HIDE DEF c
<1>5. /\ book'[d] = c /\ \A s \in ServerRanks : s # d => book'[s] = book[s]
      /\ \A e \in OtherRanks : e # d => /\ new_task'[e] = new_task[e]
                                        /\ highest_received_task_id'[e] = highest_received_task_id[e]
  BY <1>1, Ranks DEF Typed
<1>6. /\ q \in Seq(NewTask) /\ 1 \in DOMAIN q /\ q[1] = task
      /\ \A i \in DOMAIN q : i \in Nat /\ q[i] \in NewTask /\ q[i].id \in Nat
      /\ new_task'[d] = Tail(q)
      /\ \A i \in DOMAIN Tail(q) : i \in Nat /\ i >= 1 /\ i + 1 \in DOMAIN q /\ Tail(q)[i] = q[i + 1]
      /\ \A i \in DOMAIN q : i = 1 \/ i - 1 \in DOMAIN Tail(q)
  <2>1. q \in Seq(NewTask)
    BY DEF Typed
  <2>2. DOMAIN q = 1 .. Len(q) /\ Len(q) \in Nat /\ Len(q) > 0
    BY <1>0, <2>1
  <2>3. Tail(q) \in Seq(NewTask) /\ DOMAIN Tail(q) = 1 .. Len(q) - 1
        /\ \A i \in 1 .. Len(q) - 1 : Tail(q)[i] = q[i + 1]
    BY <1>0, <2>1
  <2>4. \A i \in DOMAIN q : q[i] \in NewTask
    BY <2>1, <2>2
  <2>5. new_task'[d] = Tail(q)
    BY <1>1 DEF Typed
  <2>6. q[1] = task
    BY <1>0, <2>1
  <2> QED
    BY <2>1, <2>2, <2>3, <2>4, <2>5, <2>6 DEF NewTask
<1> DEFINE tail == Tail(q)
<1> HIDE DEF tail, q, a, task
<1>7. /\ highest_received_task_id[d] \in Nat /\ highest_sent_task_id[d] \in Nat
      /\ task_id \in Nat /\ task.id \in Nat
      /\ task.id > highest_received_task_id[d] /\ task.id <= task_id
      /\ highest_received_task_id'[d] = task.id
  <2>1. highest_received_task_id[d] \in Nat /\ highest_sent_task_id[d] \in Nat /\ task_id \in Nat
    BY DEF Typed
  <2>2. task.id > highest_received_task_id[d] /\ task.id <= task_id /\ task.id \in Nat
    BY <1>0, <1>6 DEF OwnPart, Numbered, q
  <2> QED
    BY <1>1, <2>1, <2>2 DEF Typed
<1>8. ASSUME Given' = Given PROVE OwnPart(d)'
  <2>0. /\ book'[0] = book[0] /\ book'[d] = c /\ new_task'[d] = tail /\ UNCHANGED at
        /\ UNCHANGED <<task_id, highest_sent_task_id, rank_finished, kill_runner>>
    BY <1>0, <1>1, <1>5, <1>6, Ranks DEF tail
  <2>1. Follows(d)'
    <3>1. at[0] # "update" /\ at[0] # "ended"
      BY <1>0 DEF OwnPart, Follows, HasAllTasks, q
    <3> QED
      BY <1>0, <1>1, <3>1 DEF OwnPart, Follows
  <2>2. Numbered(d)'
    <3>1. /\ \A i \in DOMAIN q : q[i].id <= task_id
          /\ \A i, j \in DOMAIN q : i < j => q[i].id < q[j].id
      BY <1>0 DEF OwnPart, Numbered, q
    <3>2. \A i \in DOMAIN tail : tail[i].id <= task_id /\ tail[i].id > task.id
      <4> TAKE i \in DOMAIN tail
      <4>1. i + 1 \in DOMAIN q /\ tail[i] = q[i + 1] /\ 1 < i + 1
        BY <1>6 DEF tail
      <4>2. q[1].id < q[i + 1].id /\ q[1].id \in Nat /\ q[i + 1].id \in Nat
        BY <1>6, <3>1, <4>1
      <4> QED
        BY <1>6, <3>1, <4>1, <4>2
    <3>3. \A i, j \in DOMAIN tail : i < j => tail[i].id < tail[j].id
      BY <1>6, <3>1 DEF tail
    <3> QED
      BY <1>7, <2>0, <3>2, <3>3 DEF Numbered
  <2>3. Reported(d)'
    <3>1. highest_sent_task_id[d] <= highest_received_task_id[d]
      BY <1>0 DEF OwnPart, Reported
    <3>2. highest_sent_task_id[d] < task.id
      BY <1>7, <3>1
    <3> QED
      BY <1>0, <1>7, <2>0, <3>2 DEF OwnPart, Reported, Increasing
  <2>4. Announced(d)'
    <3>1. \A i \in DOMAIN q :
            /\ Task(q[i]) \in Given
            /\ \A j \in DOMAIN q : i < j /\ q[i].state = q[j].state => Task(q[i]) \in book[0].killed
      BY <1>0 DEF OwnPart, Announced, q
    <3>2. \A i \in DOMAIN tail :
            /\ Task(tail[i]) \in Given
            /\ \A j \in DOMAIN tail : i < j /\ tail[i].state = tail[j].state => Task(tail[i]) \in book[0].killed
      BY <1>6, <3>1 DEF tail
    <3> QED
      BY <1>8, <2>0, <3>2 DEF Announced
  <2>5. TakenFrom(d)'
    <3> SUFFICES ASSUME NEW u \in SubTasks(c)
                 PROVE  /\ Task(u) \in Given
                        /\ \A i \in DOMAIN tail : tail[i].state = u.state => Task(u) \in book[0].killed
      BY <1>8, <2>0 DEF TakenFrom
    <3>1. CASE u \in SubTasks(a)
      <4>1. /\ Task(u) \in Given
            /\ \A i \in DOMAIN q : q[i].state = u.state => Task(u) \in book[0].killed
        BY <1>0, <3>1 DEF OwnPart, TakenFrom, q, a
      <4> QED
        BY <1>6, <4>1 DEF tail
    <3>2. CASE u \in AllSubTasks(d, {task})
      <4>1. u.state = m /\ Task(u) = Task(q[1])
        BY <1>4, <1>6, <3>2 DEF task
      <4>2. Task(q[1]) \in Given
        BY <1>0, <1>6 DEF OwnPart, Announced, q
      <4>3. \A i \in DOMAIN tail : tail[i].state = m => Task(q[1]) \in book[0].killed
        <5>1. \A j \in DOMAIN q : 1 < j /\ q[1].state = q[j].state => Task(q[1]) \in book[0].killed
          BY <1>0, <1>6 DEF OwnPart, Announced, q
        <5> QED
          BY <1>6, <5>1 DEF tail
      <4> QED
        BY <4>1, <4>2, <4>3
    <3> QED
      BY <1>2, <1>3, <3>1, <3>2
  <2>6. KillsKnown(d)'
    <3> SUFFICES ASSUME NEW i \in DOMAIN kill_runner[d], NEW x, x = kill_runner[d][i]
                 PROVE  \/ x \in book[0].killed
                        \/ /\ x \in Given
                           /\ x[1] \in c.unscheduled
                           /\ \A j \in DOMAIN tail : tail[j].state # x[1]
      BY <1>8, <2>0 DEF KillsKnown
    <3>1. \/ x \in book[0].killed
          \/ /\ x \in Given
             /\ x[1] \in a.unscheduled
             /\ \A j \in DOMAIN q : q[j].state # x[1]
      BY <1>0 DEF OwnPart, KillsKnown, q, a
    <3> QED
      BY <1>3, <1>6, <3>1 DEF tail
  <2>7. at'[0] # "ended" => LastWord(d)'
    <3> SUFFICES ASSUME at[0] # "ended", NEW v \in SubTasks(book[0])
                 PROVE  LastWordIs(v, tail, c, at[d] = "loop")
      BY <2>0 DEF LastWord
    <3>1. \/ \E i \in DOMAIN q :
               /\ Task(q[i]) = Task(v)
               /\ \A j \in DOMAIN q : i < j => q[j].state # v.state
          \/ /\ \A i \in DOMAIN q : q[i].state # v.state
             /\ v.state \in a.unscheduled \/ \E u \in SubTasks(a) : Task(u) = Task(v)
      BY <1>0 DEF OwnPart, LastWord, LastWordIs, q, a
    <3>2. CASE \A i \in DOMAIN q : q[i].state # v.state
      <4>1. v.state # m /\ \A i \in DOMAIN tail : tail[i].state # v.state
        BY <1>6, <3>2 DEF tail
      <4>2. ~ \E i \in DOMAIN q : Task(q[i]) = Task(v)
        BY <3>2 DEF Task
      <4>3. \A u \in SubTasks(a) : Task(u) = Task(v) => u \in SubTasks(c)
        BY <1>2, <1>3, <4>1 DEF Task
      <4>4. v.state \in c.unscheduled \/ \E u \in SubTasks(c) : Task(u) = Task(v)
        BY <1>3, <3>1, <4>1, <4>2, <4>3
      <4> QED
        BY <4>1, <4>4 DEF LastWordIs
    <3>3. ASSUME NEW i \in DOMAIN q, Task(q[i]) = Task(v),
                 \A j \in DOMAIN q : i < j => q[j].state # v.state
          PROVE  LastWordIs(v, tail, c, at[d] = "loop")
      <4>1. CASE i = 1
        <5>1. \A j \in DOMAIN tail : tail[j].state # v.state
          BY <1>6, <3>3, <4>1 DEF tail
        <5>2. \E u \in SubTasks(c) : Task(u) = Task(v)
          BY <1>3, <1>4, <1>6, <3>3, <4>1
        <5> QED
          BY <5>1, <5>2 DEF LastWordIs
      <4>2. CASE i # 1
        <5>1. i - 1 \in DOMAIN tail /\ tail[i - 1] = q[i]
          BY <1>6, <4>2 DEF tail
        <5>2. \A j \in DOMAIN tail : i - 1 < j => tail[j].state # v.state
          BY <1>6, <3>3 DEF tail
        <5> QED
          BY <3>3, <5>1, <5>2 DEF LastWordIs
      <4> QED
        BY <4>1, <4>2
    <3> QED
      BY <3>1, <3>2, <3>3
  <2> QED
    BY <2>1, <2>2, <2>3, <2>4, <2>5, <2>6, <2>7 DEF OwnPart
<1>9. Counted' = Counted
  BY <1>1 DEF Counted
<1> QED
  BY <1>0, <1>1, <1>3, <1>5, <1>8, <1>9, OneRankSteps

-----------------------------------------------------------------------------
(***************************************************************************)
(* The end of a step.                                                      *)
(***************************************************************************)

(* A rank reports that it finished, or goes into the update step. *)
LEMMA OtherFinishes ==
  ASSUME Typed, Agreement, phase = "simulation", NEW d \in OtherRanks, CheckFinishedOther(d)
  PROVE  Agreement'
<1>0. /\ at[d] = "loop" /\ Done(book[d]) /\ Kept(d, book[d]) /\ OwnPart(d) /\ d \in ServerRanks /\ d # 0
  BY Ranks DEF CheckFinishedOther, WouldFinish, Runs, Done, Agreement, BookKept, OwnPart
<1>1. UNCHANGED <<phase, task_id, finished_ranks, book, current_step, new_task, kill_runner, nsteps,
                  highest_received_task_id>>
  BY DEF CheckFinishedOther, registration, scheduling
<1>2. /\ highest_sent_task_id' = [highest_sent_task_id EXCEPT ![d] = highest_received_task_id[d]]
      /\ all_finished' = all_finished \ {d}
      /\ at' = IF d \in all_finished THEN [at EXCEPT ![d] = "update"] ELSE at
      /\ rank_finished' = IF highest_sent_task_id[d] < highest_received_task_id[d]
           THEN [rank_finished EXCEPT ![d] = Append(@, highest_received_task_id[d])]
           ELSE rank_finished
      /\ highest_sent_task_id[d] < highest_received_task_id[d] \/ d \in all_finished
  BY DEF CheckFinishedOther
<1>3. /\ highest_sent_task_id[d] \in Nat /\ highest_received_task_id[d] \in Nat /\ task_id \in Nat
      /\ highest_sent_task_id[d] <= highest_received_task_id[d]
      /\ highest_received_task_id[d] <= task_id
  BY <1>0 DEF Typed, OwnPart, Numbered, Reported
<1>4. /\ highest_sent_task_id'[d] = highest_received_task_id[d]
      /\ \A e \in OtherRanks : e # d => /\ highest_sent_task_id'[e] = highest_sent_task_id[e]
                                        /\ rank_finished'[e] = rank_finished[e]
      /\ \A s \in ServerRanks : s # d => at'[s] = at[s]
  BY <1>2, Ranks DEF Typed
<1>5. CASE d \in all_finished
  <2>1. at[0] = "update"
    BY <1>0, <1>5, Ranks DEF OwnPart, Follows, Typed
  <2>2. HasAllTasks(d) /\ current_step[d] = current_step[0] /\ nsteps[d] = None
    BY <1>0, <2>1 DEF OwnPart, Follows
  <2>3. highest_sent_task_id[d] = highest_received_task_id[d] /\ UNCHANGED rank_finished
    BY <1>2, <1>3, <2>2 DEF HasAllTasks
  <2>4. at'[d] = "update" /\ at'[0] = "update" /\ d \notin all_finished'
    BY <1>2, <1>4, <1>5, <2>1, Ranks DEF Typed
  <2>5. Follows(d)'
    BY <1>1, <1>4, <2>2, <2>3, <2>4 DEF Follows, HasAllTasks
  <2>6. Numbered(d)' /\ Reported(d)'
    BY <1>0, <1>1, <1>4, <2>2, <2>3, <2>4 DEF OwnPart, Numbered, Reported, HasAllTasks, Increasing, Done
  <2>7. Given' = Given => Announced(d)' /\ TakenFrom(d)' /\ KillsKnown(d)'
    BY <1>0, <1>1, <2>4 DEF OwnPart, Announced, TakenFrom, KillsKnown
  <2>8. LastWord(d)'
    <3> SUFFICES ASSUME NEW v \in SubTasks(book[0])
                 PROVE  LastWordIs(v, new_task[d], book[d], FALSE)
      BY <1>1, <2>4 DEF LastWord
    <3>1. LastWordIs(v, new_task[d], book[d], at[d] = "loop")
      BY <1>0, <2>1 DEF OwnPart, LastWord
    <3> QED
      BY <3>1 DEF LastWordIs
  <2>9. Given' = Given => OwnPart(d)'
    BY <2>5, <2>6, <2>7, <2>8 DEF OwnPart
  <2>10. at[0] # "loop" /\ at'[0] # "loop"
    BY <2>1, <2>4
  <2>11. AtStart' /\ Counts'
    BY <1>1, <2>10 DEF AtStart, Counts
  <2>12. ASSUME NEW s \in ServerRanks PROVE BookKept(s)'
    <3>1. Kept(s, book[s]) /\ (at'[s] = "update" => Done(book[s]))
      BY <1>0, <1>4, <2>4 DEF Agreement, BookKept
    <3> QED
      BY <1>1, <3>1 DEF BookKept, Kept, OfMember, SubTasks, Done
  <2>13. Given' = Given
    BY <1>1 DEF Given
  <2>14. ASSUME NEW e \in OtherRanks, e # d PROVE OwnPart(e)'
    <3>0. /\ at'[e] = at[e] /\ at'[0] = at[0]
          /\ highest_sent_task_id'[e] = highest_sent_task_id[e]
          /\ rank_finished'[e] = rank_finished[e]
          /\ e \in all_finished' <=> e \in all_finished
      BY <1>2, <1>4, <2>1, <2>4, <2>14, Ranks
    <3>1. Follows(e)'
      BY <1>1, <3>0 DEF Agreement, Follows, HasAllTasks
    <3>2. Numbered(e)' /\ Reported(e)'
      BY <1>1, <3>0 DEF Agreement, Numbered, Reported, Increasing, Done
    <3>3. Announced(e)' /\ TakenFrom(e)' /\ KillsKnown(e)'
      BY <1>1, <2>13, <3>0 DEF Agreement, Announced, TakenFrom, KillsKnown
    <3>4. at'[0] # "ended" => LastWord(e)'
      BY <1>1, <3>0 DEF Agreement, LastWord
    <3> QED
      BY <3>1, <3>2, <3>3, <3>4 DEF OwnPart
  <2> QED
    BY <2>9, <2>11, <2>12, <2>13, <2>14 DEF Agreement, OwnPart
<1>6. CASE d \notin all_finished
  <2>1. highest_sent_task_id[d] < highest_received_task_id[d] /\ UNCHANGED <<at, all_finished>>
    BY <1>2, <1>6
  <2>2. /\ rank_finished[d] \in Seq(Nat)
        /\ rank_finished'[d] = Append(rank_finished[d], highest_received_task_id[d])
    BY <1>2, <2>1 DEF Typed
  <2>3. rank_finished'[d] # <<>>
    <3>1. Len(rank_finished'[d]) = Len(rank_finished[d]) + 1 /\ Len(rank_finished[d]) \in Nat
      BY <1>3, <2>2
    <3>2. Len(rank_finished'[d]) # 0
      BY <3>1
    <3> QED
      BY <3>2
  <2>4. Counted' = Counted
    <3>1. d \notin Counted
      BY <1>3, <2>1 DEF Counted
    <3>2. d \notin Counted'
      BY <2>3 DEF Counted
    <3>3. \A e \in OtherRanks : e # d => (e \in Counted <=> e \in Counted')
      BY <1>1, <1>4, <2>1 DEF Counted
    <3>4. Counted \subseteq OtherRanks /\ Counted' \subseteq OtherRanks
      BY DEF Counted
    <3> QED
      BY <3>1, <3>2, <3>3, <3>4
  <2>5. Follows(d)'
    <3>1. at[0] # "update"
      BY <1>0, <1>6 DEF OwnPart, Follows
    <3> QED
      BY <1>0, <1>1, <2>1, <3>1 DEF OwnPart, Follows
  <2>6. Numbered(d)'
    BY <1>0, <1>1, <2>1 DEF OwnPart, Numbered
  <2>7. Reported(d)'
    <3>1. \A i \in DOMAIN rank_finished[d] :
            rank_finished[d][i] <= highest_sent_task_id[d] /\ rank_finished[d][i] \in Nat
      BY <1>0, <2>2 DEF OwnPart, Reported
    <3>2. \A i, j \in DOMAIN rank_finished[d] : i < j => rank_finished[d][i] < rank_finished[d][j]
      BY <1>0 DEF OwnPart, Reported, Increasing
    <3> DEFINE r == rank_finished[d]
               n == Len(r)
               h == highest_received_task_id[d]
               r2 == Append(r, h)
    <3>3. /\ n \in Nat /\ DOMAIN r = 1 .. n /\ DOMAIN r2 = 1 .. n + 1
          /\ \A i \in 1 .. n : r2[i] = r[i]
          /\ r2[n + 1] = h
      BY <1>3, <2>2
    <3> HIDE DEF r2, n, r, h
    <3>4. \A i \in 1 .. n : r[i] < h /\ r[i] \in Nat /\ h \in Nat
      BY <1>3, <2>1, <3>1, <3>3 DEF r, h
    <3>5. \A i \in DOMAIN r2 : r2[i] <= h
      BY <1>3, <3>3, <3>4 DEF h
    <3>6. \A i, j \in DOMAIN r2 : i < j => r2[i] < r2[j]
      <4> SUFFICES ASSUME NEW i \in DOMAIN r2, NEW j \in DOMAIN r2, i < j PROVE r2[i] < r2[j]
        OBVIOUS
      <4>1. i \in 1 .. n
        BY <3>3
      <4>2. CASE j = n + 1
        BY <3>3, <3>4, <4>1, <4>2
      <4>3. CASE j # n + 1
        <5>1. j \in 1 .. n
          BY <3>3, <4>3
        <5> QED
          BY <3>2, <3>3, <4>1, <5>1 DEF r
      <4> QED
        BY <4>2, <4>3
    <3>7. rank_finished'[d] = r2 /\ highest_sent_task_id'[d] = h /\ highest_received_task_id'[d] = h
      BY <1>1, <1>4, <2>2 DEF r, h, r2
    <3> QED
      BY <1>0, <1>1, <1>3, <2>1, <3>5, <3>6, <3>7 DEF Reported, Increasing, Done, h
  <2>8. Given' = Given => Announced(d)' /\ TakenFrom(d)' /\ KillsKnown(d)'
    BY <1>0, <1>1, <2>1 DEF OwnPart, Announced, TakenFrom, KillsKnown
  <2>9. at'[0] # "ended" => LastWord(d)'
    BY <1>0, <1>1, <2>1 DEF OwnPart, LastWord
  <2>10. Given' = Given => OwnPart(d)'
    BY <2>5, <2>6, <2>7, <2>8, <2>9 DEF OwnPart
  <2>11. Kept(d, book'[d]) /\ (at'[d] = "update" => Done(book'[d]))
    BY <1>0, <1>1
  <2> QED
    BY <1>1, <1>4, <2>1, <2>4, <2>10, <2>11, OneRankSteps
<1> QED
  BY <1>5, <1>6

(* A sequence without elements is empty. *)
LEMMA EmptyTail == ASSUME NEW S, NEW q \in Seq(S), Len(q) = 0 PROVE q = <<>>
OBVIOUS

(* Rank 0 counts the ranks that have finished, and decides. *)
LEMMA FirstFinishes ==
  ASSUME Typed, Agreement, phase = "simulation", CheckFinishedFirst
  PROVE  Agreement'
<1>1. PICK got \in SUBSET {s \in OtherRanks : rank_finished[s] # <<>>} :
        LET count == finished_ranks + Cardinality({s \in got : IsUpToDate(s)})
            finished == count = CommSize - 1
        IN /\ rank_finished' = [s \in OtherRanks |-> IF s \in got THEN Tail(rank_finished[s])
                                                     ELSE rank_finished[s]]
           /\ finished_ranks' = count
           /\ all_finished' = IF finished THEN OtherRanks ELSE all_finished
           /\ at' = IF finished THEN [at EXCEPT ![0] = "update"] ELSE at
  BY DEF CheckFinishedFirst
<1> DEFINE new == {s \in got : IsUpToDate(s)}
<1>2. /\ at[0] = "loop" /\ Done(book[0])
      /\ UNCHANGED <<phase, current_step, book, task_id, new_task, highest_received_task_id,
                     highest_sent_task_id, nsteps, kill_runner>>
  BY DEF CheckFinishedFirst, WouldFinish, Runs, Done, registration
<1>3. \A d \in OtherRanks : OwnPart(d)
  BY DEF Agreement, OwnPart
<1>4. task_id > 1 /\ task_id \in Nat /\ finished_ranks \in Int /\ finished_ranks <= Cardinality(Counted)
  BY <1>2 DEF Agreement, Counts, Done, Typed
<1>5. ASSUME NEW d \in OtherRanks
      PROVE  /\ rank_finished[d] \in Seq(Nat)
             /\ d \in got => rank_finished[d] # <<>> /\ rank_finished'[d] = Tail(rank_finished[d])
             /\ d \notin got => rank_finished'[d] = rank_finished[d]
  BY <1>1 DEF Typed
<1>6. ASSUME NEW d \in got
      PROVE  d \in OtherRanks /\ at[d] = "loop" /\ d \notin Counted
  BY <1>3, <1>5 DEF OwnPart, Reported, Counted
<1>7. ASSUME NEW d \in new PROVE d \in OtherRanks /\ highest_sent_task_id[d] = task_id /\ rank_finished'[d] = <<>>
  <2> DEFINE r == rank_finished[d]
  <2>1. d \in OtherRanks /\ at[d] = "loop" /\ r \in Seq(Nat) /\ r # <<>> /\ rank_finished'[d] = Tail(r)
    BY <1>5, <1>6
  <2>2. Head(r) = task_id /\ r[1] = Head(r) /\ 1 \in DOMAIN r
    BY <2>1 DEF IsUpToDate
  <2>3. /\ highest_sent_task_id[d] <= highest_received_task_id[d]
        /\ highest_received_task_id[d] <= task_id
        /\ \A i \in DOMAIN r : r[i] <= highest_sent_task_id[d]
        /\ \A i, j \in DOMAIN r : i < j => r[i] < r[j]
        /\ highest_sent_task_id[d] \in Nat /\ highest_received_task_id[d] \in Nat
    BY <1>3, <2>1 DEF OwnPart, Numbered, Reported, Increasing, Typed
  <2>4. highest_sent_task_id[d] = task_id
    BY <1>4, <2>2, <2>3
  <2>5. Len(r) = 1
    <3>1. DOMAIN r = 1 .. Len(r) /\ Len(r) \in Nat /\ Len(r) > 0 /\ \A i \in DOMAIN r : r[i] \in Nat
      BY <2>1
    <3>2. 2 \notin DOMAIN r
      <4> SUFFICES ASSUME 2 \in DOMAIN r PROVE FALSE
        OBVIOUS
      <4>1. r[1] < r[2] /\ r[2] <= highest_sent_task_id[d] /\ r[2] \in Nat
        BY <2>2, <2>3, <3>1
      <4> QED
        BY <1>4, <2>2, <2>4, <4>1
    <3> DEFINE n == Len(r)
    <3>3. n \in Nat /\ n > 0 /\ 2 \notin 1 .. n
      BY <3>1, <3>2
    <3> HIDE DEF n
    <3>4. n = 1
      BY <3>3
    <3> QED
      BY <3>4 DEF n
  <2>6. Tail(r) = <<>>
    <3>1. Tail(r) \in Seq(Nat) /\ Len(Tail(r)) = 0
      BY <2>1, <2>5
    <3> QED
      BY <3>1, EmptyTail
  <2> QED
    BY <2>1, <2>4, <2>6
<1>8. /\ IsFiniteSet(OtherRanks) /\ Cardinality(OtherRanks) = CommSize - 1
      /\ IsFiniteSet(new) /\ IsFiniteSet(Counted) /\ Cardinality(new) \in Nat
  <2>1. IsFiniteSet(OtherRanks) /\ Cardinality(OtherRanks) = CommSize - 1
    <3>1. CommSize \in Nat /\ CommSize > 0 /\ CommSize - 1 \in Int /\ 1 \in Int
      BY ServerAssumption
    <3>2. /\ IsFiniteSet(OtherRanks)
          /\ Cardinality(OtherRanks) = IF 1 > CommSize - 1 THEN 0 ELSE CommSize - 1 - 1 + 1
      BY <3>1, FS_Interval DEF OtherRanks
    <3> QED
      BY <3>1, <3>2
  <2>2. new \in SUBSET OtherRanks /\ Counted \in SUBSET OtherRanks
    BY DEF Counted
  <2> QED
    BY <2>1, <2>2, FS_Subset, FS_CardinalityType
<1> DEFINE after == {d \in OtherRanks : at[d] = "loop" /\ rank_finished'[d] = <<>>
                                        /\ highest_sent_task_id[d] = task_id}
<1>9. /\ after \in SUBSET OtherRanks /\ IsFiniteSet(after)
      /\ finished_ranks' <= Cardinality(after)
      /\ Cardinality(after) \in Nat
  <2>1. after \in SUBSET OtherRanks /\ IsFiniteSet(after)
    BY <1>8, FS_Subset
  <2>2. Counted \cup new \in SUBSET after
    <3>1. ASSUME NEW d \in Counted PROVE d \in after
      <4>1. d \notin got
        BY <1>6, <3>1
      <4> QED
        BY <1>5, <4>1 DEF Counted
    <3>2. ASSUME NEW d \in new PROVE d \in after
      BY <1>6, <1>7
    <3> QED
      BY <3>1, <3>2
  <2>3. Counted \cap new = {}
    BY <1>6
  <2> HIDE DEF after, new
  <2>4. Cardinality(Counted \cup new) = Cardinality(Counted) + Cardinality(new)
    <3>1. Cardinality(Counted \cap new) = 0
      BY <2>3, FS_EmptySet
    <3>2. Cardinality(Counted \cup new)
            = Cardinality(Counted) + Cardinality(new) - Cardinality(Counted \cap new)
      BY <1>8, FS_Union
    <3> QED
      BY <1>8, <3>1, <3>2, CountedFinite
  <2>5. Cardinality(Counted \cup new) <= Cardinality(after)
    BY <2>1, <2>2, FS_Subset
  <2>6. Cardinality(after) \in Nat /\ Cardinality(Counted) \in Nat
    BY <2>1, CountedFinite, FS_CardinalityType
  <2>7. finished_ranks' = finished_ranks + Cardinality(new)
    BY <1>1 DEF new
  <2> QED
    BY <1>4, <1>8, <2>1, <2>4, <2>5, <2>6, <2>7
<1> HIDE DEF new
<1>10. ASSUME NEW d \in OtherRanks
       PROVE  /\ (at'[d] # "loop" => rank_finished'[d] = <<>>) /\ at'[d] = at[d]
              /\ Numbered(d)' /\ Reported(d)'
              /\ Announced(d)' /\ TakenFrom(d)' /\ KillsKnown(d)' /\ LastWord(d)'
  <2>0. at'[d] = at[d] /\ OwnPart(d)
    BY <1>1, <1>3, Ranks DEF Typed
  <2>1. Numbered(d)'
    BY <1>2, <2>0 DEF OwnPart, Numbered
  <2>2. /\ \A i \in DOMAIN rank_finished'[d] : rank_finished'[d][i] <= highest_sent_task_id[d]
        /\ \A i, j \in DOMAIN rank_finished'[d] : i < j => rank_finished'[d][i] < rank_finished'[d][j]
        /\ at[d] # "loop" => rank_finished'[d] = <<>>
    <3>1. /\ \A i \in DOMAIN rank_finished[d] : rank_finished[d][i] <= highest_sent_task_id[d]
          /\ \A i, j \in DOMAIN rank_finished[d] : i < j => rank_finished[d][i] < rank_finished[d][j]
          /\ at[d] # "loop" => rank_finished[d] = <<>>
      BY <2>0 DEF OwnPart, Reported, Increasing
    <3>2. CASE d \notin got
      BY <1>5, <3>1, <3>2
    <3>3. CASE d \in got
      <4> DEFINE r == rank_finished[d]
      <4>1. rank_finished'[d] = Tail(r) /\ at[d] = "loop" /\ r \in Seq(Nat) /\ r # <<>>
        BY <1>5, <1>6, <3>3
      <4>2. \A i \in DOMAIN Tail(r) : i \in Nat /\ i + 1 \in DOMAIN r /\ Tail(r)[i] = r[i + 1]
        BY <4>1
      <4>3. \A i, j \in DOMAIN Tail(r) : i < j => i + 1 < j + 1
        BY <4>2
      <4> HIDE DEF r
      <4> QED
        BY <3>1, <4>1, <4>2, <4>3 DEF r
    <3> QED
      BY <3>2, <3>3
  <2>3. Reported(d)'
    BY <1>2, <2>0, <2>2 DEF OwnPart, Reported, Increasing, Done
  <2>4. Announced(d)' /\ TakenFrom(d)' /\ KillsKnown(d)'
    BY <1>2, <2>0 DEF OwnPart, Announced, TakenFrom, KillsKnown, Given
  <2>5. LastWord(d)'
    BY <1>2, <2>0 DEF OwnPart, LastWord
  <2> QED
    BY <2>0, <2>1, <2>2, <2>3, <2>4, <2>5
<1>11. AtStart' /\ \A s \in ServerRanks : BookKept(s)'
  <2>1. AtStart'
    BY <1>2 DEF AtStart
  <2>2. ASSUME NEW s \in ServerRanks PROVE BookKept(s)'
    <3>1. Kept(s, book[s]) /\ (at'[s] = "update" => Done(book[s]))
      BY <1>1, <1>2 DEF Agreement, BookKept, Typed
    <3> QED
      BY <1>2, <3>1 DEF BookKept, Kept, OfMember, SubTasks, Done
  <2> QED
    BY <2>1, <2>2
<1>12. CASE finished_ranks' = CommSize - 1
  <2>1. at'[0] = "update" /\ all_finished' = OtherRanks
    BY <1>1, <1>12, Ranks DEF Typed
  <2>2. after = OtherRanks
    <3>1. CommSize \in Nat
      BY ServerAssumption
    <3>2. Cardinality(after) = Cardinality(OtherRanks)
      <4>1. Cardinality(after) <= Cardinality(OtherRanks)
        BY <1>8, <1>9, FS_Subset
      <4> QED
        BY <1>8, <1>9, <1>12, <3>1, <4>1
    <3> QED
      BY <1>8, <1>9, <3>2, FS_Subset
  <2>3. ASSUME NEW d \in OtherRanks PROVE Follows(d)'
    <3>1. at[d] = "loop" /\ at'[d] = "loop" /\ rank_finished'[d] = <<>> /\ highest_sent_task_id[d] = task_id
      BY <1>10, <2>2
    <3>2. /\ highest_sent_task_id[d] <= highest_received_task_id[d]
          /\ highest_received_task_id[d] <= task_id
          /\ highest_sent_task_id[d] \in Nat /\ highest_received_task_id[d] \in Nat
      BY <1>3, <3>1 DEF OwnPart, Numbered, Reported, Typed
    <3>3. highest_received_task_id[d] = task_id
      BY <1>4, <3>1, <3>2
    <3>4. new_task[d] = <<>>
      <4>1. \A i \in DOMAIN new_task[d] : new_task[d][i].id <= task_id /\ new_task[d][i].id > task_id
        BY <1>3, <3>1, <3>3 DEF OwnPart, Numbered
      <4>2. new_task[d] \in Seq(NewTask)
        BY DEF Typed
      <4>3. \A i \in DOMAIN new_task[d] : new_task[d][i].id \in Nat
        <5>1. \A i \in DOMAIN new_task[d] : new_task[d][i] \in NewTask
          BY <4>2
        <5> QED
          BY <5>1 DEF NewTask
      <4>4. DOMAIN new_task[d] = {}
        BY <1>4, <4>1, <4>3
      <4>5. Len(new_task[d]) = 0
        <5>1. DOMAIN new_task[d] = 1 .. Len(new_task[d]) /\ Len(new_task[d]) \in Nat
          BY <4>2
        <5>2. ~ (1 \in 1 .. Len(new_task[d]))
          BY <4>4, <5>1
        <5> QED
          BY <5>1, <5>2
      <4> QED
        BY <4>2, <4>5
    <3>5. current_step[d] = current_step[0] /\ nsteps[d] = None
      BY <1>2, <1>3, <3>1 DEF OwnPart, Follows
    <3> QED
      BY <1>2, <1>4, <2>1, <3>1, <3>3, <3>4, <3>5 DEF Follows, HasAllTasks
  <2>4. Counts'
    BY <2>1 DEF Counts
  <2> QED
    BY <1>10, <1>11, <2>3, <2>4 DEF Agreement
<1>13. CASE finished_ranks' # CommSize - 1
  <2>1. UNCHANGED <<at, all_finished>>
    BY <1>1, <1>13
  <2>2. \A d \in OtherRanks : Follows(d)'
    BY <1>2, <1>3, <2>1 DEF OwnPart, Follows
  <2>3. Counted' = after
    BY <1>2, <2>1 DEF Counted
  <2>4. Counts'
    BY <1>2, <1>4, <1>9, <2>1, <2>3 DEF Counts
  <2> QED
    BY <1>10, <1>11, <2>2, <2>4 DEF Agreement
<1> QED
  BY <1>12, <1>13

(* The ensemble has members. *)
LEMMA SomeMember == Members # {}
<1>1. EnsembleSize \in Nat /\ EnsembleSize > 0
  BY ServerAssumption
<1>2. 0 \in 0 .. EnsembleSize - 1
  BY <1>1
<1> QED
  BY <1>2 DEF Members

(* After the update step rank 0 ends, or hands out the first members of    *)
(* the next step.                                                          *)
LEMMA FirstUpdates ==
  ASSUME Typed, Agreement, UpdateHasBarrier, UpdateFirst
  PROVE  Agreement'
<1>1. /\ \A s \in ServerRanks : at[s] = "update"
      /\ UNCHANGED <<phase, highest_received_task_id, highest_sent_task_id,
                     rank_finished, all_finished, kill_runner>>
  BY DEF UpdateFirst, registration
<1>2. phase = "simulation"
  BY <1>1, Ranks DEF Agreement, AtStart, Typed
<1>3. ASSUME NEW d \in OtherRanks
      PROVE  /\ OwnPart(d) /\ HasAllTasks(d) /\ d \notin all_finished
             /\ nsteps[d] = None /\ current_step[d] = current_step[0]
             /\ Kept(d, book[d]) /\ Done(book[d])
  <2>1. OwnPart(d)
    BY DEF Agreement, OwnPart
  <2>2. Kept(d, book[d]) /\ Done(book[d])
    BY <1>1, <1>2, Ranks DEF Agreement, BookKept
  <2>3. at[0] = "update" /\ at[d] = "update"
    BY <1>1, Ranks
  <2> QED
    BY <2>1, <2>2, <2>3 DEF OwnPart, Follows
<1>4. PICK n \in {do_update_step(current_step[0]), -2} :
        /\ NextStep(0, n)
        /\ nsteps' = [s \in OtherRanks |-> n]
        /\ IF n < 0
           THEN UNCHANGED <<book, scheduling, failcount>>
           ELSE LET b == init_new_timestep(book[0]) IN
                schedule_new_task(b, CompletelyIdle(b), 1, current_step[0] + n, {})
  BY DEF UpdateFirst
<1>5. n \in {-1, -2, NSteps}
  BY DEF do_update_step
<1>6. /\ at' = [at EXCEPT ![0] = IF n < 0 THEN "ended" ELSE "loop"]
      /\ current_step' = [current_step EXCEPT ![0] = IF n < 0 THEN @ ELSE @ + n]
  BY <1>4 DEF NextStep
<1>7. ASSUME NEW d \in OtherRanks
      PROVE  at'[d] = "update" /\ current_step'[d] = current_step[d] /\ nsteps'[d] = n
  BY <1>1, <1>4, <1>6, Ranks DEF Typed
<1>8. at'[0] = (IF n < 0 THEN "ended" ELSE "loop")
      /\ current_step'[0] = IF n < 0 THEN current_step[0] ELSE current_step[0] + n
  BY <1>6, Ranks DEF Typed
<1>9. AtStart'
  BY <1>1, <1>2 DEF AtStart
<1>10. CASE n < 0
  <2>1. n \in {-1, -2} /\ UNCHANGED <<book, task_id, finished_ranks, new_task>> /\ at'[0] = "ended"
    BY <1>4, <1>5, <1>8, <1>10 DEF NSteps, scheduling
  <2>2. ASSUME NEW d \in OtherRanks
        PROVE  /\ Follows(d)' /\ Numbered(d)' /\ Reported(d)'
               /\ Announced(d)' /\ TakenFrom(d)' /\ KillsKnown(d)'
    <3>1. Follows(d)'
      BY <1>1, <1>3, <1>7, <1>8, <1>10, <2>1 DEF Follows
    <3>2. Numbered(d)'
      BY <1>1, <1>3, <1>7, <2>1 DEF OwnPart, Numbered
    <3>3. Reported(d)'
      BY <1>1, <1>3, <1>7 DEF OwnPart, Reported, HasAllTasks, Increasing
    <3>4. Announced(d)' /\ TakenFrom(d)' /\ KillsKnown(d)'
      BY <1>1, <1>3, <1>7, <2>1 DEF OwnPart, Announced, TakenFrom, KillsKnown, Given
    <3> QED
      BY <3>1, <3>2, <3>3, <3>4
  <2>3. ASSUME NEW s \in ServerRanks PROVE BookKept(s)'
    <3>1. Kept(s, book[s]) /\ Done(book[s])
      BY <1>1, <1>2 DEF Agreement, BookKept
    <3> QED
      BY <2>1, <3>1 DEF BookKept, Kept, OfMember, SubTasks, Done
  <2>4. Counts'
    BY <2>1 DEF Counts
  <2> QED
    BY <1>9, <2>1, <2>2, <2>3, <2>4 DEF Agreement
<1>11. CASE ~ (n < 0)
  <2> DEFINE b == init_new_timestep(book[0])
  <2>1. n = NSteps /\ schedule_new_task(b, CompletelyIdle(b), 1, current_step[0] + n, {})
        /\ at'[0] = "loop"
    BY <1>4, <1>5, <1>8, <1>11 DEF NSteps
  <2>2. /\ b \in Book
        /\ Kept(0, b)
        /\ SubTasks(b) = {}
        /\ b.unscheduled = Members
        /\ b.killed = book[0].killed
    <3>1. book[0] \in Book /\ book[0].scheduled = {} /\ book[0].running = {}
      BY <1>1, Ranks DEF Typed, Agreement, BookKept, Done
    <3> QED
      BY <3>1, NewTimestep
  <2>3. CompletelyIdle(b) \in SUBSET Runners
    BY DEF CompletelyIdle
  <2> HIDE DEF b
  <2>4. PICK c \in Book, q \in Seq(NewTask) :
          /\ GivesOut(b, c, q, 1)
          /\ book' = [book EXCEPT ![0] = c]
          /\ new_task' = [d \in OtherRanks |-> new_task[d] \o q]
          /\ task_id' = 1 + Len(q)
          /\ finished_ranks' = IF q = <<>> THEN finished_ranks ELSE 0
    BY <2>1, <2>2, <2>3, Scheduled
  <2>5. /\ book'[0] = c /\ \A d \in OtherRanks : book'[d] = book[d] /\ new_task'[d] = q
        /\ DOMAIN q = 1 .. Len(q) /\ Len(q) \in Nat
    <3>1. \A d \in OtherRanks : new_task'[d] = <<>> \o q
      BY <1>3, <2>4 DEF HasAllTasks
    <3>2. <<>> \o q = q
      BY <2>4
    <3> QED
      BY <2>4, <3>1, <3>2, Ranks DEF Typed
  <2>6. ASSUME NEW d \in OtherRanks
        PROVE  /\ Follows(d)' /\ Numbered(d)' /\ Reported(d)'
               /\ Announced(d)' /\ TakenFrom(d)' /\ KillsKnown(d)' /\ LastWord(d)'
    <3>1. Follows(d)'
      BY <1>1, <1>3, <1>7, <1>8, <1>11, <2>1 DEF Follows
    <3>2. Numbered(d)'
      <4>1. \A i \in DOMAIN q : q[i].id = 1 + i /\ i \in 1 .. Len(q)
        BY <2>4, <2>5 DEF GivesOut
      <4>2. \A i \in DOMAIN q : q[i].id <= 1 + Len(q)
        BY <2>5, <4>1
      <4>3. \A i, j \in DOMAIN q : i < j => q[i].id < q[j].id
        <5> SUFFICES ASSUME NEW i \in DOMAIN q, NEW j \in DOMAIN q, i < j
                     PROVE  q[i].id < q[j].id
          OBVIOUS
        <5>1. i \in Int /\ j \in Int /\ q[i].id = 1 + i /\ q[j].id = 1 + j
          BY <2>5, <4>1
        <5> QED
          BY <5>1
      <4> QED
        BY <1>7, <2>4, <2>5, <4>2, <4>3 DEF Numbered
    <3>3. Reported(d)'
      BY <1>1, <1>3, <1>7 DEF OwnPart, Reported, HasAllTasks, Increasing
    <3>4. Announced(d)'
      <4>1. \A i \in 1 .. Len(q) : Task(q[i]) \in Given'
        <5>1. \A i \in 1 .. Len(q) : \E u \in SubTasks(c) : Task(u) = Task(q[i])
          BY <2>4 DEF GivesOut
        <5> QED
          BY <2>5, <5>1 DEF Given
      <4>2. \A i, j \in 1 .. Len(q) : i < j => q[i].state # q[j].state
        BY <2>4 DEF GivesOut
      <4> QED
        BY <2>5, <4>1, <4>2 DEF Announced
    <3>5. TakenFrom(d)'
      BY <1>7 DEF TakenFrom
    <3>6. KillsKnown(d)'
      <4>1. \A i \in DOMAIN kill_runner[d] : kill_runner[d][i] \in book[0].killed
        BY <1>3 DEF OwnPart, KillsKnown, Done
      <4>2. c.killed = book[0].killed
        BY <2>2, <2>4 DEF GivesOut
      <4> QED
        BY <1>1, <2>5, <4>1, <4>2 DEF KillsKnown
    <3>7. LastWord(d)'
      <4> SUFFICES ASSUME NEW t \in SubTasks(c) PROVE LastWordIs(t, q, book[d], FALSE)
        BY <1>7, <2>5 DEF LastWord
      <4>1. PICK i \in 1 .. Len(q) : q[i].state = t.state /\ Task(q[i]) = Task(t)
        BY <2>2, <2>4 DEF GivesOut
      <4>2. \A j \in DOMAIN q : i < j => q[j].state # t.state
        <5> SUFFICES ASSUME NEW j \in DOMAIN q, i < j, q[j].state = t.state PROVE FALSE
          OBVIOUS
        <5>1. \A k, l \in 1 .. Len(q) : q[k].state = q[l].state => k = l
          BY <2>4 DEF GivesOut
        <5>2. i = j
          BY <2>5, <4>1, <5>1
        <5> QED
          BY <2>5, <4>1, <5>2
      <4> QED
        BY <2>5, <4>1, <4>2 DEF LastWordIs
    <3> QED
      BY <3>1, <3>2, <3>3, <3>4, <3>5, <3>6, <3>7
  <2>7. ASSUME NEW s \in ServerRanks PROVE BookKept(s)'
    <3>1. CASE s = 0
      <4>1. Kept(0, c) /\ at'[0] = "loop"
        BY <2>1, <2>4 DEF GivesOut
      <4> QED
        BY <2>5, <3>1, <4>1 DEF BookKept, Kept, OfMember, SubTasks
    <3>2. CASE s # 0
      <4>1. Kept(s, book[s]) /\ Done(book[s]) /\ book'[s] = book[s]
        BY <1>3, <2>5, <3>2, Ranks
      <4> QED
        BY <4>1 DEF BookKept, Kept, OfMember, SubTasks, Done
    <3> QED
      BY <3>1, <3>2
  <2>8. Counts'
    <3>1. CASE q = <<>>
      <4>1. Len(q) = 0
        BY <3>1
      <4>2. task_id' = 1 + Len(q)
        BY <2>4
      <4>3. c.unscheduled = Members
        BY <2>2, <2>4, <3>1 DEF GivesOut
      <4> QED
        BY <2>5, <4>1, <4>2, <4>3, SomeMember DEF Counts
    <3>2. CASE q # <<>>
      <4>1. finished_ranks' = 0 /\ task_id' # 1
        <5>1. Len(q) # 0
          BY <2>4, <3>2, EmptyTail
        <5>2. finished_ranks' = 0
          BY <2>4, <3>2
        <5>3. task_id' = 1 + Len(q)
          BY <2>4
        <5> QED
          BY <2>5, <5>1, <5>2, <5>3
      <4>2. Cardinality(Counted') \in Nat
        <5>1. IsFiniteSet(OtherRanks)
          BY ServerAssumption, FS_Interval DEF OtherRanks
        <5>2. Counted' \in SUBSET OtherRanks
          BY DEF Counted
        <5> QED
          BY <5>1, <5>2, FS_Subset, FS_CardinalityType
      <4> QED
        BY <4>1, <4>2 DEF Counts
    <3> QED
      BY <3>1, <3>2
  <2> QED
    BY <1>9, <2>6, <2>7, <2>8 DEF Agreement
<1> QED
  BY <1>10, <1>11

(* Another rank leaves the update step. *)
LEMMA OtherUpdates ==
  ASSUME Typed, Agreement, NEW d \in OtherRanks, UpdateOther(d)
  PROVE  Agreement'
<1> DEFINE n == nsteps[d]
<1>1. /\ at[d] = "update" /\ n # None
      /\ UNCHANGED <<phase, task_id, finished_ranks, new_task, rank_finished, all_finished, kill_runner>>
      /\ at' = [at EXCEPT ![d] = IF n < 0 THEN "ended" ELSE "loop"]
      /\ current_step' = [current_step EXCEPT ![d] = IF n < 0 THEN @ ELSE @ + n]
      /\ nsteps' = [nsteps EXCEPT ![d] = None]
  BY DEF UpdateOther, NextStep, registration, scheduling
<1>2. IF n < 0
      THEN UNCHANGED <<book, highest_received_task_id, highest_sent_task_id>>
      ELSE /\ book' = [book EXCEPT ![d] = init_new_timestep(@)]
           /\ highest_received_task_id' = [highest_received_task_id EXCEPT ![d] = 0]
           /\ highest_sent_task_id' = [highest_sent_task_id EXCEPT ![d] = 0]
  BY DEF UpdateOther
<1>3. phase = "simulation"
  BY <1>1, Ranks DEF Agreement, AtStart, Typed
<1>4. /\ OwnPart(d) /\ Kept(d, book[d]) /\ Done(book[d]) /\ book[d] \in Book
      /\ d \in ServerRanks /\ d # 0
  BY <1>1, <1>3, Ranks DEF Typed, Agreement, BookKept, OwnPart
<1>5. \/ at[0] = "loop" /\ n = NSteps /\ current_step[d] + NSteps = current_step[0] /\ d \notin all_finished
      \/ at[0] = "ended" /\ n \in {-1, -2} /\ current_step[d] = current_step[0] /\ d \notin all_finished
  <2>1. at[0] \in {"loop", "update", "ended"}
    BY Ranks DEF Typed
  <2> QED
    BY <1>1, <1>4, <2>1 DEF OwnPart, Follows
<1>6. /\ at'[d] = IF n < 0 THEN "ended" ELSE "loop"
      /\ current_step'[d] = IF n < 0 THEN current_step[d] ELSE current_step[d] + n
      /\ nsteps'[d] = None
      /\ \A s \in ServerRanks : s # d => at'[s] = at[s] /\ current_step'[s] = current_step[s]
      /\ \A e \in OtherRanks : e # d => nsteps'[e] = nsteps[e]
      /\ at'[0] = at[0] /\ current_step'[0] = current_step[0]
  BY <1>1, Ranks DEF Typed
<1>7. /\ \A s \in ServerRanks : s # d => book'[s] = book[s]
      /\ \A e \in OtherRanks : e # d => /\ highest_received_task_id'[e] = highest_received_task_id[e]
                                        /\ highest_sent_task_id'[e] = highest_sent_task_id[e]
      /\ book'[d] = IF n < 0 THEN book[d] ELSE init_new_timestep(book[d])
      /\ highest_received_task_id'[d] = IF n < 0 THEN highest_received_task_id[d] ELSE 0
      /\ highest_sent_task_id'[d] = IF n < 0 THEN highest_sent_task_id[d] ELSE 0
  BY <1>2, <1>4 DEF Typed
<1> HIDE DEF n
<1>8. Counted' = Counted
  <2>1. d \notin Counted
    BY <1>1 DEF Counted
  <2>2. d \notin Counted'
    BY <1>1, <1>5, <1>6, <1>7 DEF Counted, NSteps, Typed
  <2>3. \A e \in OtherRanks : e # d => (e \in Counted <=> e \in Counted')
    BY <1>1, <1>6, <1>7, Ranks DEF Counted
  <2>4. Counted \subseteq OtherRanks /\ Counted' \subseteq OtherRanks
    BY DEF Counted
  <2> QED
    BY <2>1, <2>2, <2>3, <2>4
<1>9. Follows(d)'
  BY <1>1, <1>5, <1>6 DEF Follows, NSteps
<1>10. CASE n < 0
  <2>1. /\ book'[d] = book[d] /\ at'[d] = "ended"
        /\ highest_received_task_id'[d] = highest_received_task_id[d]
        /\ highest_sent_task_id'[d] = highest_sent_task_id[d]
        /\ at'[0] = "ended"
    BY <1>5, <1>6, <1>7, <1>10 DEF NSteps
  <2>2. Numbered(d)' /\ Reported(d)'
    BY <1>1, <1>4, <2>1 DEF OwnPart, Numbered, Reported, Increasing
  <2>3. Given' = Given => Announced(d)' /\ TakenFrom(d)' /\ KillsKnown(d)'
    BY <1>1, <1>4, <1>7, <2>1, Ranks DEF OwnPart, Announced, TakenFrom, KillsKnown
  <2>4. Given' = Given => OwnPart(d)'
    BY <1>9, <2>1, <2>2, <2>3 DEF OwnPart
  <2>5. Kept(d, book'[d]) /\ (at'[d] = "update" => Done(book'[d]))
    BY <1>4, <2>1
  <2> QED
    BY <1>1, <1>3, <1>6, <1>7, <1>8, <2>4, <2>5, OneRankSteps
<1>11. CASE ~ (n < 0)
  <2> DEFINE c == init_new_timestep(book[d])
  <2>1. /\ book'[d] = c /\ at'[d] = "loop"
        /\ highest_received_task_id'[d] = 0 /\ highest_sent_task_id'[d] = 0
        /\ at'[0] = "loop"
    BY <1>5, <1>6, <1>7, <1>11
  <2>2. Kept(d, c) /\ SubTasks(c) = {} /\ c.unscheduled = Members
    BY <1>4, NewTimestep DEF Done
  <2> HIDE DEF c
  <2>3. /\ new_task[d] \in Seq(NewTask) /\ task_id \in Nat
        /\ \A i \in DOMAIN new_task[d] : new_task[d][i] \in NewTask
        /\ kill_runner[d] \in Seq(Members \X Runners)
        /\ \A i \in DOMAIN kill_runner[d] : kill_runner[d][i] \in Members \X Runners
    BY DEF Typed
  <2>4. Numbered(d)'
    <3>1. \A i \in DOMAIN new_task[d] : new_task[d][i].id > 0
      BY <2>3 DEF NewTask
    <3> QED
      BY <1>1, <1>4, <2>1, <2>3, <3>1 DEF OwnPart, Numbered
  <2>5. Reported(d)'
    <3>1. rank_finished[d] = <<>>
      BY <1>1, <1>4 DEF OwnPart, Reported
    <3> QED
      BY <1>1, <2>1, <3>1 DEF Reported, Increasing
  <2>6. Given' = Given => Announced(d)' /\ TakenFrom(d)'
    BY <1>1, <1>4, <1>7, <2>1, <2>2, Ranks DEF OwnPart, Announced, TakenFrom
  <2>7. Given' = Given => KillsKnown(d)'
    <3>1. book'[0] = book[0]
      BY <1>4, <1>7, Ranks
    <3>2. \A i \in DOMAIN kill_runner[d] : kill_runner[d][i][1] \in Members
      BY <2>3
    <3> QED
      BY <1>1, <1>4, <2>1, <2>2, <3>1, <3>2 DEF OwnPart, KillsKnown
  <2>8. LastWord(d)'
    <3>0. book'[0] = book[0] /\ book[0] \in Book
      BY <1>4, <1>7, Ranks DEF Typed
    <3> SUFFICES ASSUME NEW t \in SubTasks(book[0]) PROVE LastWordIs(t, new_task[d], c, TRUE)
      BY <1>1, <2>1, <3>0 DEF LastWord
    <3>1. LastWordIs(t, new_task[d], book[d], at[d] = "loop")
      BY <1>4, <1>5, <1>11 DEF OwnPart, LastWord
    <3>2. t.state \in c.unscheduled
      BY <2>2, <3>0, SubTaskTypes
    <3> QED
      BY <3>1, <3>2 DEF LastWordIs
  <2>9. Given' = Given => OwnPart(d)'
    BY <1>9, <2>4, <2>5, <2>6, <2>7, <2>8 DEF OwnPart
  <2>10. Kept(d, book'[d]) /\ (at'[d] = "update" => Done(book'[d]))
    BY <2>1, <2>2
  <2> QED
    BY <1>1, <1>3, <1>6, <1>7, <1>8, <2>9, <2>10, OneRankSteps
<1> QED
  BY <1>10, <1>11

(* The study begins. *)
LEMMA FieldRegistered ==
  ASSUME Typed, Agreement, NEW r \in Runners, RegisterField(r)
  PROVE  Agreement'
<1>1. /\ phase = "init" /\ phase' = "simulation"
      /\ current_step' = [s \in ServerRanks |-> NSteps]
      /\ book' = [s \in ServerRanks |-> init_new_timestep(book[s])]
      /\ UNCHANGED <<at, scheduling, agreement, kill_runner>>
  BY DEF RegisterField
<1>2. /\ \A s \in ServerRanks : SubTasks(book[s]) = {} /\ at[s] = "loop" /\ current_step[s] = 0
      /\ \A d \in OtherRanks : /\ new_task[d] = <<>> /\ kill_runner[d] = <<>> /\ rank_finished[d] = <<>>
                               /\ highest_received_task_id[d] = 0 /\ highest_sent_task_id[d] = 0
  BY <1>1 DEF Agreement, AtStart
<1>3. ASSUME NEW s \in ServerRanks
      PROVE  /\ Kept(s, book'[s]) /\ SubTasks(book'[s]) = {} /\ book'[s].unscheduled = Members
             /\ at'[s] = "loop" /\ current_step'[s] = NSteps
  <2>1. book[s] \in Book /\ book[s].scheduled = {} /\ book[s].running = {}
    BY <1>2 DEF Typed, SubTasks
  <2> DEFINE c == init_new_timestep(book[s])
  <2>2. Kept(s, c) /\ SubTasks(c) = {} /\ c.unscheduled = Members
    BY <2>1, NewTimestep
  <2>3. book'[s] = c
    BY <1>1
  <2> HIDE DEF c
  <2> QED
    BY <1>1, <1>2, <2>2, <2>3
<1>4. AtStart'
  BY <1>1 DEF AtStart
<1>5. \A s \in ServerRanks : BookKept(s)'
  BY <1>3 DEF BookKept, Kept, OfMember, SubTasks
<1>6. Counts'
  <2>1. Members # {}
    BY SomeMember
  <2>2. Counted' = Counted
    BY <1>1 DEF Counted, scheduling, agreement
  <2> QED
    BY <1>1, <1>3, <2>1, <2>2, Ranks DEF Agreement, Counts, scheduling
<1>7. ASSUME NEW d \in OtherRanks
      PROVE  /\ Follows(d)' /\ Numbered(d)' /\ Reported(d)'
             /\ Announced(d)' /\ TakenFrom(d)' /\ KillsKnown(d)' /\ LastWord(d)'
  <2>0. at[0] = "loop" /\ at[d] = "loop" /\ current_step[d] = 0 /\ current_step[0] = 0
    BY <1>2, Ranks
  <2>1. Follows(d)'
    <3>1. d \notin all_finished /\ nsteps[d] = None
      BY <2>0 DEF Agreement, Follows
    <3> QED
      BY <1>1, <1>3, <2>0, <3>1, Ranks DEF Follows, agreement
  <2>2. Numbered(d)'
    BY <1>1, <2>0 DEF Agreement, Numbered, scheduling, agreement
  <2>3. Reported(d)'
    BY <1>1, <1>2, <2>0 DEF Reported, Increasing, agreement
  <2>4. Announced(d)' /\ KillsKnown(d)'
    BY <1>1, <1>2 DEF Announced, KillsKnown, scheduling
  <2>5. TakenFrom(d)' /\ LastWord(d)'
    BY <1>3, Ranks DEF TakenFrom, LastWord
  <2> QED
    BY <2>1, <2>2, <2>3, <2>4, <2>5
<1> QED
  BY <1>4, <1>5, <1>6, <1>7 DEF Agreement

-----------------------------------------------------------------------------
(***************************************************************************)
(* What the parts and the failures do.                                     *)
(***************************************************************************)

(* A part moves its subtask to the finished ones. *)
PartTaken(s, m) ==
  [book[s] EXCEPT !.running = @ \ Awaited(book[s], m), !.finished = @ \cup Awaited(book[s], m)]

(* The book stays in order. *)
LEMMA PartTakenIs ==
  ASSUME Typed, NEW s \in ServerRanks, Kept(s, book[s]), NEW m, NEW b, b = PartTaken(s, m)
  PROVE  /\ b \in Book
         /\ Kept(s, b)
         /\ SubTasks(b) = SubTasks(book[s])
         /\ b.finished = book[s].finished \cup Awaited(book[s], m)
         /\ b.unscheduled = book[s].unscheduled /\ b.killed = book[s].killed
         /\ Done(book[s]) => Done(b)
<1> DEFINE a == Awaited(book[s], m)
<1>1. book[s] \in Book
  BY DEF Typed
<1>2. a \subseteq book[s].running
  BY DEF Awaited
<1>3. /\ b.running = book[s].running \ a /\ b.finished = book[s].finished \cup a
      /\ b.scheduled = book[s].scheduled /\ b.unscheduled = book[s].unscheduled
      /\ b.idle = book[s].idle /\ b.killed = book[s].killed
      /\ b \in Book
  BY <1>1, <1>2 DEF PartTaken, Book
<1> HIDE DEF a
<1>4. SubTasks(b) = SubTasks(book[s])
  BY <1>2, <1>3 DEF SubTasks
<1>5. /\ b.scheduled \cap b.running = {}
      /\ (b.scheduled \cup b.running) \cap b.finished = {}
  BY <1>2, <1>3 DEF Kept
<1>6. Kept(s, b)
  BY <1>3, <1>4, <1>5, Moved
<1>7. Done(book[s]) => Done(b)
  BY <1>2, <1>3 DEF Done
<1> QED
  BY <1>3, <1>4, <1>6, <1>7 DEF a

(* A set of numbers that is not empty has a least one. *)
LEMMA LeastNat ==
  ASSUME NEW S \in SUBSET Nat, S # {}
  PROVE  \E n \in S : \A m \in S : n <= m
<1> DEFINE R == OpToRel(<, Nat)
<1>1. \A m, n \in Nat : m < n => <<m, n>> \in R
  BY DEF OpToRel
<1>2. IsWellFoundedOn(R, Nat)
  BY NatLessThanWellFounded
<1> HIDE DEF R
<1>3. PICK n \in S : \A m \in S : ~ (<<m, n>> \in R)
  BY <1>2, WFMin
<1>4. \A m \in S : ~ (m < n)
  BY <1>1, <1>3
<1> QED
  BY <1>4

(* The book of a rank after a part came back. *)
Exchanged(s, m, c) ==
  /\ c \in Book
  /\ Kept(s, c)
  /\ SubTasks(c) = SubTasks(book[s])
  /\ c.finished = book[s].finished \cup Awaited(book[s], m)
  /\ c.unscheduled = book[s].unscheduled /\ c.killed = book[s].killed
  /\ Done(book[s]) => Done(c)

(* Rank 0 may give out another member then. *)
LEMMA PartExchanged ==
  ASSUME Typed, Agreement, NEW s \in ServerRanks, NEW m, AcceptPart(s, m)
  PROVE  \E c \in Book :
           /\ Exchanged(s, m, c)
           /\ \/ book' = [book EXCEPT ![s] = c] /\ UNCHANGED scheduling
              \/ s = 0 /\ schedule_new_task(c, {m.runner}, task_id, current_step[0], {})
<1> DEFINE b == PartTaken(s, m)
           queue == Queued(b, m)
           idle == [b EXCEPT !.idle = @ \cup {<<m.runner, m.rank>>}]
<1>1. /\ phase = "simulation" /\ at[s] = "loop"
      /\ m.runner \in Runners /\ m.rank \in RunnerRanks
  BY DEF AcceptPart, Arrived, Runs, Typed
<1>2. Kept(s, book[s]) /\ book[s] \in Book
  BY <1>1 DEF Agreement, BookKept, Typed
<1>3. /\ b \in Book
      /\ Kept(s, b)
      /\ SubTasks(b) = SubTasks(book[s])
      /\ b.finished = book[s].finished \cup Awaited(book[s], m)
      /\ b.unscheduled = book[s].unscheduled /\ b.killed = book[s].killed
      /\ Done(book[s]) => Done(b)
  BY <1>2, PartTakenIs
<1>4. \/ /\ queue # {}
         /\ LET t == CHOOSE t \in queue : \A u \in queue : t.id <= u.id IN
            book' = [book EXCEPT ![s] = [b EXCEPT !.scheduled = @ \ {t}, !.running = @ \cup {t}]]
         /\ UNCHANGED scheduling
      \/ s = 0 /\ schedule_new_task(idle, {m.runner}, task_id, current_step[0], {})
      \/ book' = [book EXCEPT ![s] = idle] /\ UNCHANGED scheduling
  BY DEF AcceptPart, PartTaken
<1> HIDE DEF b
<1>5. Exchanged(s, m, idle)
  <2>1. /\ idle \in Book
        /\ idle.scheduled = b.scheduled /\ idle.running = b.running /\ idle.finished = b.finished
        /\ idle.unscheduled = b.unscheduled /\ idle.killed = b.killed
    BY <1>1, <1>3 DEF Book
  <2> HIDE DEF idle
  <2>2. SubTasks(idle) = SubTasks(b)
    BY <2>1 DEF SubTasks
  <2>3. Kept(s, idle)
    BY <1>3, <2>1, <2>2, Moved DEF Kept
  <2> QED
    BY <1>3, <2>1, <2>2, <2>3 DEF Exchanged, Done
<1>6. CASE queue # {} /\ UNCHANGED scheduling
           /\ LET t == CHOOSE t \in queue : \A u \in queue : t.id <= u.id IN
              book' = [book EXCEPT ![s] = [b EXCEPT !.scheduled = @ \ {t}, !.running = @ \cup {t}]]
  <2> DEFINE t == CHOOSE t \in queue : \A u \in queue : t.id <= u.id
             c == [b EXCEPT !.scheduled = @ \ {t}, !.running = @ \cup {t}]
  <2>1. t \in b.scheduled
    <3>1. queue \subseteq b.scheduled
      BY DEF Queued
    <3>2. \A u \in queue : u.id \in Nat
      BY <1>3, <3>1 DEF Book, SubTask
    <3>3. \E u \in queue : \A v \in queue : u.id <= v.id
      <4> DEFINE ids == {u.id : u \in queue}
      <4>1. ids \in SUBSET Nat /\ ids # {}
        BY <1>6, <3>2
      <4> HIDE DEF ids
      <4>2. PICK i \in ids : \A j \in ids : i <= j
        BY <4>1, LeastNat
      <4> QED
        BY <4>2 DEF ids
    <3>4. t \in queue
      BY <3>3
    <3> QED
      BY <3>1, <3>4
  <2>2. book' = [book EXCEPT ![s] = c]
    BY <1>6
  <2> HIDE DEF t
  <2>3. /\ c \in Book
        /\ c.scheduled = b.scheduled \ {t} /\ c.running = b.running \cup {t} /\ c.finished = b.finished
        /\ c.unscheduled = b.unscheduled /\ c.killed = b.killed
    BY <1>3, <2>1 DEF Book
  <2> HIDE DEF c
  <2>4. SubTasks(c) = SubTasks(b)
    BY <2>1, <2>3 DEF SubTasks
  <2>5. /\ c.scheduled \cap c.running = {}
        /\ (c.scheduled \cup c.running) \cap c.finished = {}
    BY <1>3, <2>1, <2>3 DEF Kept
  <2>6. Kept(s, c)
    BY <1>3, <2>3, <2>4, <2>5, Moved
  <2>7. Done(book[s]) => Done(c)
    BY <1>3, <2>1 DEF Done
  <2> QED
    BY <1>3, <1>6, <2>2, <2>3, <2>4, <2>6, <2>7 DEF Exchanged
<1> HIDE DEF idle, queue
<1>7. idle \in Book
  BY <1>5 DEF Exchanged
<1> QED
  BY <1>4, <1>5, <1>6, <1>7

(* The ranks still agree. *)
LEMMA PartAccepted ==
  ASSUME Typed, Agreement, NEW s \in ServerRanks, NEW m, AcceptPart(s, m)
  PROVE  Agreement'
<1>1. /\ phase = "simulation" /\ at[s] = "loop"
      /\ m.runner \in Runners
      /\ UNCHANGED <<phase, at, current_step, agreement, kill_runner>>
  BY DEF AcceptPart, Arrived, Runs, Typed
<1>2. PICK b \in Book :
        /\ Exchanged(s, m, b)
        /\ \/ book' = [book EXCEPT ![s] = b] /\ UNCHANGED scheduling
           \/ s = 0 /\ schedule_new_task(b, {m.runner}, task_id, current_step[0], {})
  BY PartExchanged
<1>3. CASE book' = [book EXCEPT ![s] = b] /\ UNCHANGED scheduling
  BY <1>1, <1>2, <1>3, BookMoves DEF Exchanged
<1>4. CASE s = 0 /\ schedule_new_task(b, {m.runner}, task_id, current_step[0], {})
  <2>1. TakesBack(b)
    BY <1>2, <1>4 DEF Exchanged, TakesBack
  <2>2. {m.runner} \in SUBSET Runners /\ task_id \in Nat /\ Kept(0, b)
    BY <1>1, <1>2, <1>4 DEF Typed, Exchanged
  <2>3. PICK c \in Book, q \in Seq(NewTask) :
          /\ GivesOut(b, c, q, task_id)
          /\ book' = [book EXCEPT ![0] = c]
          /\ new_task' = [d \in OtherRanks |-> new_task[d] \o q]
          /\ task_id' = task_id + Len(q)
          /\ finished_ranks' = IF q = <<>> THEN finished_ranks ELSE 0
    BY <1>4, <2>2, Scheduled
  <2>4. FewerKills
    BY <1>1 DEF FewerKills
  <2> QED
    BY <1>1, <1>4, <2>1, <2>3, <2>4, FirstGoesOn
<1> QED
  BY <1>2, <1>3, <1>4

(* The first idle runner is a runner. *)
LEMMA FirstIdleIs ==
  ASSUME NEW b \in Book
  PROVE  FirstIdle(b) \in SUBSET Runners
<1> DEFINE S == IdleRunners(b)
<1>1. S \in SUBSET Runners
  BY DEF IdleRunners, Book
<1>2. CASE CompletelyIdle(b) = {}
  BY <1>2 DEF FirstIdle
<1>3. CASE CompletelyIdle(b) # {}
  <2>1. S # {}
    <3>1. PICK r \in Runners : \A k \in Linked(0) : <<r, k>> \in b.idle
      BY <1>3 DEF CompletelyIdle
    <3>2. Linked(0) # {}
      BY EveryRankIsLinked, Ranks
    <3>3. PICK k \in Linked(0) : <<r, k>> \in b.idle
      BY <3>1, <3>2
    <3> QED
      BY <3>3 DEF IdleRunners
  <2> HIDE DEF S
  <2>2. Runners \subseteq Nat
    BY ServerAssumption
  <2>3. PICK n \in S : \A m \in S : n <= m
    BY <1>1, <2>1, <2>2, LeastNat
  <2>4. Least(S) \in S
    BY <2>3 DEF Least
  <2> QED
    BY <1>1, <2>4 DEF FirstIdle, S
<1> QED
  BY <1>2, <1>3

(* Rank 0 learns that a task failed: it gives up, or the member goes to    *)
(* another runner.                                                         *)
LEMMA TaskTakenBack ==
  ASSUME Typed, Agreement, phase = "simulation",
         NEW t \in SubTasks(book[0]), FailTask(Task(t))
  PROVE  \/ UNCHANGED <<book, scheduling>>
         \/ \E b \in Book, rs \in SUBSET Runners :
              /\ TakesBack(b)
              /\ b.finished = {u \in book[0].finished : u.state # t.state}
              /\ \E step, told_runners : schedule_new_task(b, rs, task_id, step, told_runners)
<1> DEFINE b == kill_task(book[0], Task(t))
<1>1. \/ UNCHANGED <<book, scheduling>>
      \/ schedule_new_task(b, FirstIdle(b), task_id, current_step[0],
                           Stop(0, book[0], Task(t)[2], "KILL_RUNNER"))
  BY DEF FailTask
<1>2. book[0] \in Book /\ Kept(0, book[0]) /\ task_id \in Nat
  BY Ranks DEF Typed, Agreement, BookKept
<1>3. /\ b \in Book
      /\ Kept(0, b)
      /\ SubTasks(b) = {u \in SubTasks(book[0]) : u.state # t.state}
      /\ b.finished = {u \in book[0].finished : u.state # t.state}
      /\ b.unscheduled = book[0].unscheduled \cup {t.state}
      /\ b.killed = book[0].killed \cup {Task(t)}
  BY <1>2, KillTask
<1>4. \A u \in SubTasks(book[0]) : u.state = t.state => Task(u) = Task(t)
  BY <1>2, OneRunner
<1>5. FirstIdle(b) \in SUBSET Runners
  BY <1>3, FirstIdleIs
<1> HIDE DEF b
<1>6. TakesBack(b)
  <2>1. \A u \in SubTasks(book[0]) : u \in SubTasks(b) \/ Task(u) \in b.killed
    BY <1>3, <1>4
  <2> QED
    BY <1>3, <2>1 DEF TakesBack
<1> QED
  BY <1>1, <1>3, <1>5, <1>6

(* The ranks still agree. *)
LEMMA TaskFails ==
  ASSUME Typed, Agreement, phase = "simulation", at[0] = "loop",
         NEW t \in SubTasks(book[0]), FailTask(Task(t)), FewerKills,
         UNCHANGED <<phase, at, current_step, agreement>>
  PROVE  Agreement'
<1>1. CASE UNCHANGED <<book, scheduling>>
  BY <1>1, OnlyRead
<1>2. ASSUME NEW b \in Book, NEW rs \in SUBSET Runners, NEW step, NEW told_runners,
             TakesBack(b), schedule_new_task(b, rs, task_id, step, told_runners)
      PROVE  Agreement'
  <2>1. task_id \in Nat /\ Kept(0, b)
    BY <1>2 DEF Typed, TakesBack
  <2>2. PICK c \in Book, q \in Seq(NewTask) :
          /\ GivesOut(b, c, q, task_id)
          /\ book' = [book EXCEPT ![0] = c]
          /\ new_task' = [d \in OtherRanks |-> new_task[d] \o q]
          /\ task_id' = task_id + Len(q)
          /\ finished_ranks' = IF q = <<>> THEN finished_ranks ELSE 0
    BY <1>2, <2>1, Scheduled
  <2> QED
    BY <1>2, <2>2, FirstGoesOn
<1> QED
  BY <1>1, <1>2, TaskTakenBack

(* The due date of a task passes. *)
LEMMA DueDatePasses ==
  ASSUME Typed, Agreement, NEW s \in ServerRanks, NEW task, check_due_dates(s, task)
  PROVE  Agreement'
<1>1. /\ phase = "simulation" /\ at[s] = "loop"
      /\ UNCHANGED <<phase, at, current_step, agreement>>
  BY DEF check_due_dates, TaskDue, Runs, registration
<1>2. PICK t \in book[s].scheduled \cup book[s].running : Task(t) = task
  BY DEF check_due_dates, TaskDue
<1>3. CASE s = 0
  <2>1. FailTask(Task(t)) /\ UNCHANGED kill_runner
    BY <1>2, <1>3 DEF check_due_dates
  <2>2. FewerKills
    BY <2>1 DEF FewerKills
  <2>3. t \in SubTasks(book[0])
    BY <1>2, <1>3 DEF SubTasks
  <2> QED
    BY <1>1, <1>3, <2>1, <2>2, <2>3, TaskFails
<1>4. CASE s # 0
  <2>1. /\ book' = [book EXCEPT ![s] = kill_task(@, Task(t))]
        /\ kill_runner' = [kill_runner EXCEPT ![s] = Append(@, Task(t))]
        /\ UNCHANGED scheduling
    BY <1>2, <1>4 DEF check_due_dates
  <2> QED
    BY <1>1, <1>4, <2>1, Ranks, OtherKills
<1> QED
  BY <1>3, <1>4

(* What is left of a list is in the list. *)
LEMMA TailIn ==
  ASSUME NEW S, NEW q \in Seq(S), q # <<>>
  PROVE  /\ Head(q) = q[1] /\ 1 \in DOMAIN q
         /\ \A i \in DOMAIN Tail(q) : i + 1 \in DOMAIN q /\ Tail(q)[i] = q[i + 1]
OBVIOUS

(* Another rank reports a task that failed. *)
LEMMA KillRequested ==
  ASSUME Typed, Agreement, NEW d \in OtherRanks, check_kill_requests(d)
  PROVE  Agreement'
<1> DEFINE task == Head(kill_runner[d])
<1>1. /\ phase = "simulation" /\ at[0] = "loop"
      /\ kill_runner[d] # <<>>
      /\ kill_runner' = [kill_runner EXCEPT ![d] = Tail(@)]
      /\ UNCHANGED <<phase, at, current_step, agreement>>
  BY DEF check_kill_requests, Runs, registration
<1>2. IF task \in book[0].killed THEN UNCHANGED <<book, scheduling>> ELSE FailTask(task)
  BY DEF check_kill_requests
<1>3. kill_runner[d] \in Seq(Members \X Runners) /\ kill_runner \in [OtherRanks -> Seq(Members \X Runners)]
  BY DEF Typed
<1>4. /\ task = kill_runner[d][1] /\ 1 \in DOMAIN kill_runner[d]
      /\ \A i \in DOMAIN Tail(kill_runner[d]) :
           i + 1 \in DOMAIN kill_runner[d] /\ Tail(kill_runner[d])[i] = kill_runner[d][i + 1]
  BY <1>1, <1>3, TailIn
<1>5. FewerKills
  <2> SUFFICES ASSUME NEW e \in OtherRanks, NEW i \in DOMAIN kill_runner'[e]
               PROVE  \E j \in DOMAIN kill_runner[e] : kill_runner'[e][i] = kill_runner[e][j]
    BY DEF FewerKills
  <2>1. CASE e = d
    <3>1. kill_runner'[e] = Tail(kill_runner[d])
      BY <1>1, <1>3, <2>1
    <3> QED
      BY <1>4, <2>1, <3>1
  <2>2. CASE e # d
    BY <1>1, <1>3, <2>2
  <2> QED
    BY <2>1, <2>2
<1> HIDE DEF task
<1>6. CASE task \in book[0].killed
  BY <1>1, <1>2, <1>5, <1>6, OnlyRead
<1>7. CASE task \notin book[0].killed
  <2>1. task \in Given
    BY <1>4, <1>7 DEF Agreement, KillsKnown
  <2>2. PICK t \in SubTasks(book[0]) : Task(t) = task
    BY <1>7, <2>1 DEF Given
  <2> QED
    BY <1>1, <1>2, <1>5, <1>7, <2>2, TaskFails
<1> QED
  BY <1>6, <1>7

(* A step that leaves the tasks and their messages alone. *)
LEMMA AgreementFramed ==
  ASSUME Agreement, UNCHANGED <<phase, at, current_step, book, scheduling, agreement, kill_runner>>
  PROVE  Agreement'
<1>1. /\ phase' = phase /\ at' = at /\ current_step' = current_step /\ book' = book
      /\ task_id' = task_id /\ finished_ranks' = finished_ranks /\ new_task' = new_task
      /\ highest_received_task_id' = highest_received_task_id
      /\ highest_sent_task_id' = highest_sent_task_id /\ rank_finished' = rank_finished
      /\ all_finished' = all_finished /\ nsteps' = nsteps /\ kill_runner' = kill_runner
  BY DEF scheduling, agreement
<1>2. AtStart' /\ Counts'
  BY <1>1 DEF Agreement, AtStart, Counts, Counted, SubTasks
<1>3. \A s \in ServerRanks : BookKept(s)'
  BY <1>1 DEF Agreement, BookKept, Kept, OfMember, SubTasks, Done
<1>4. ASSUME NEW d \in OtherRanks
      PROVE  /\ Follows(d)' /\ Numbered(d)' /\ Reported(d)'
             /\ Announced(d)' /\ TakenFrom(d)' /\ KillsKnown(d)'
             /\ at'[0] # "ended" => LastWord(d)'
  <2>1. Given' = Given
    BY <1>1 DEF Given, SubTasks
  <2>2. Follows(d)' /\ Numbered(d)' /\ Reported(d)'
    BY <1>1 DEF Agreement, Follows, HasAllTasks, Numbered, Reported, Increasing, Done
  <2>3. Announced(d)' /\ TakenFrom(d)' /\ KillsKnown(d)'
    BY <1>1, <2>1 DEF Agreement, Announced, TakenFrom, KillsKnown, SubTasks
  <2>4. at'[0] # "ended" => LastWord(d)'
    BY <1>1 DEF Agreement, LastWord, LastWordIs, SubTasks
  <2> QED
    BY <2>2, <2>3, <2>4
<1> QED
  BY <1>2, <1>3, <1>4 DEF Agreement

-----------------------------------------------------------------------------
(***************************************************************************)
(* Types.                                                                  *)
(***************************************************************************)

(* What a rank has, and what rank 0 tells of it. *)
BooksTyped ==
  /\ book \in [ServerRanks -> Book]
  /\ task_id \in Nat \ {0}
  /\ finished_ranks \in Int
  /\ new_task \in [OtherRanks -> Seq(NewTask)]

(* They are a part of the types. *)
LEMMA TypedBooks == Typed => BooksTyped
BY DEF Typed, BooksTyped

(* Rank 0 gives out members. *)
LEMMA ScheduledTyped ==
  ASSUME BooksTyped, NEW b \in Book, Kept(0, b), NEW rs \in SUBSET Runners, NEW id \in Nat \ {0},
         NEW step, NEW told_runners,
         schedule_new_task(b, rs, id, step, told_runners)
  PROVE  BooksTyped'
<1>1. PICK c \in Book, q \in Seq(NewTask) :
        /\ book' = [book EXCEPT ![0] = c]
        /\ new_task' = [d \in OtherRanks |-> new_task[d] \o q]
        /\ task_id' = id + Len(q)
        /\ finished_ranks' = IF q = <<>> THEN finished_ranks ELSE 0
  <2>1. id \in Nat
    OBVIOUS
  <2> QED
    BY <2>1, Scheduled
<1>2. Len(q) \in Nat
  OBVIOUS
<1>3. task_id' \in Nat \ {0}
  BY <1>1, <1>2
<1>4. finished_ranks' \in Int
  <2>1. CASE q = <<>>
    BY <1>1, <2>1 DEF BooksTyped
  <2>2. CASE q # <<>>
    BY <1>1, <2>2
  <2> QED
    BY <2>1, <2>2
<1>5. book' \in [ServerRanks -> Book]
  BY <1>1 DEF BooksTyped
<1>6. \A d \in OtherRanks : new_task[d] \o q \in Seq(NewTask)
  BY DEF BooksTyped
<1> QED
  BY <1>1, <1>3, <1>4, <1>5, <1>6 DEF BooksTyped

(* A part comes back. *)
LEMMA PartTyped ==
  ASSUME Typed, Agreement, NEW s \in ServerRanks, NEW m, AcceptPart(s, m)
  PROVE  BooksTyped'
<1>1. m.runner \in Runners
  BY DEF AcceptPart, Arrived, Typed
<1>2. BooksTyped
  BY TypedBooks
<1>3. PICK b \in Book :
        /\ Exchanged(s, m, b)
        /\ \/ book' = [book EXCEPT ![s] = b] /\ UNCHANGED scheduling
           \/ s = 0 /\ schedule_new_task(b, {m.runner}, task_id, current_step[0], {})
  BY PartExchanged
<1>4. CASE book' = [book EXCEPT ![s] = b] /\ UNCHANGED scheduling
  BY <1>2, <1>4 DEF BooksTyped, scheduling
<1>5. CASE s = 0 /\ schedule_new_task(b, {m.runner}, task_id, current_step[0], {})
  <2>1. {m.runner} \in SUBSET Runners /\ task_id \in Nat \ {0} /\ Kept(0, b)
    BY <1>1, <1>2, <1>3, <1>5 DEF BooksTyped, Exchanged
  <2> QED
    BY <1>2, <1>5, <2>1, ScheduledTyped
<1> QED
  BY <1>3, <1>4, <1>5

(* A task fails. *)
LEMMA FailTyped ==
  ASSUME Typed, Agreement, phase = "simulation", NEW t \in SubTasks(book[0]), FailTask(Task(t))
  PROVE  BooksTyped'
<1>1. BooksTyped /\ task_id \in Nat \ {0}
  BY TypedBooks DEF BooksTyped
<1>2. CASE UNCHANGED <<book, scheduling>>
  BY <1>1, <1>2 DEF BooksTyped, scheduling
<1>3. ASSUME NEW b \in Book, NEW rs \in SUBSET Runners, NEW step, NEW told_runners,
             TakesBack(b), schedule_new_task(b, rs, task_id, step, told_runners)
      PROVE  BooksTyped'
  BY <1>1, <1>3, ScheduledTyped DEF TakesBack
<1> QED
  BY <1>2, <1>3, TaskTakenBack

(* A due date passes. *)
LEMMA DueDateTyped ==
  ASSUME Typed, Agreement, NEW s \in ServerRanks, NEW task, check_due_dates(s, task)
  PROVE  Typed'
<1>1. /\ phase = "simulation"
      /\ UNCHANGED <<phase, at, current_step, wire>>
      /\ UNCHANGED <<highest_received_task_id, highest_sent_task_id, rank_finished,
                     all_finished, nsteps>>
  BY DEF check_due_dates, TaskDue, Runs, registration, agreement
<1>2. PICK t \in book[s].scheduled \cup book[s].running : Task(t) = task
  BY DEF check_due_dates, TaskDue
<1>3. t \in SubTasks(book[s])
  BY <1>2 DEF SubTasks
<1>4. BooksTyped' /\ kill_runner' \in [OtherRanks -> Seq(Members \X Runners)]
  <2>1. CASE s = 0
    <3>1. FailTask(Task(t)) /\ UNCHANGED kill_runner
      BY <1>2, <2>1 DEF check_due_dates
    <3> QED
      BY <1>1, <1>3, <2>1, <3>1, FailTyped DEF Typed
  <2>2. CASE s # 0
    <3>1. /\ book' = [book EXCEPT ![s] = kill_task(@, Task(t))]
          /\ kill_runner' = [kill_runner EXCEPT ![s] = Append(@, Task(t))]
          /\ UNCHANGED scheduling
      BY <1>2, <2>2 DEF check_due_dates
    <3>2. book[s] \in Book /\ Kept(s, book[s])
      BY <1>1 DEF Typed, Agreement, BookKept
    <3>3. kill_task(book[s], Task(t)) \in Book
      BY <1>3, <3>2, KillTask
    <3>4. Task(t) \in Members \X Runners
      BY <1>3, <3>2, SubTaskTypes
    <3>5. BooksTyped'
      BY <3>1, <3>3 DEF Typed, BooksTyped, scheduling
    <3>6. s \in OtherRanks
      BY <2>2, Ranks
    <3>7. Append(kill_runner[s], Task(t)) \in Seq(Members \X Runners)
      BY <3>4, <3>6 DEF Typed
    <3> QED
      BY <3>1, <3>5, <3>7 DEF Typed
  <2> QED
    BY <2>1, <2>2
<1> QED
  BY <1>1, <1>4 DEF Typed, BooksTyped

(* Rank 0 reads of a killed task. *)
LEMMA KillRequestTyped ==
  ASSUME Typed, Agreement, NEW d \in OtherRanks, check_kill_requests(d)
  PROVE  Typed'
<1> DEFINE task == Head(kill_runner[d])
<1>1. /\ phase = "simulation"
      /\ kill_runner[d] # <<>>
      /\ kill_runner' = [kill_runner EXCEPT ![d] = Tail(@)]
      /\ UNCHANGED <<phase, at, current_step, wire>>
      /\ UNCHANGED <<highest_received_task_id, highest_sent_task_id, rank_finished,
                     all_finished, nsteps>>
  BY DEF check_kill_requests, Runs, registration, agreement
<1>2. IF task \in book[0].killed THEN UNCHANGED <<book, scheduling>> ELSE FailTask(task)
  BY DEF check_kill_requests
<1>3. kill_runner[d] \in Seq(Members \X Runners) /\ Tail(kill_runner[d]) \in Seq(Members \X Runners)
  BY <1>1 DEF Typed
<1>4. kill_runner' \in [OtherRanks -> Seq(Members \X Runners)]
  BY <1>1, <1>3 DEF Typed
<1>5. task = kill_runner[d][1] /\ 1 \in DOMAIN kill_runner[d]
  BY <1>1, <1>3, TailIn
<1> HIDE DEF task
<1>6. BooksTyped'
  <2>1. CASE task \in book[0].killed
    BY <1>2, <2>1 DEF Typed, BooksTyped, scheduling
  <2>2. CASE task \notin book[0].killed
    <3>1. task \in Given
      BY <1>5, <2>2 DEF Agreement, KillsKnown
    <3>2. PICK t \in SubTasks(book[0]) : Task(t) = task
      BY <2>2, <3>1 DEF Given
    <3> QED
      BY <1>1, <1>2, <2>2, <3>2, FailTyped
  <2> QED
    BY <2>1, <2>2
<1> QED
  BY <1>1, <1>4, <1>6 DEF Typed, BooksTyped

(* A rank takes a new task. *)
LEMMA NewTaskTyped ==
  ASSUME Typed, Agreement, NEW d \in OtherRanks, check_schedule_new_tasks(d)
  PROVE  Typed'
<1> DEFINE task == Head(new_task[d])
           b == WithoutMember(d)
           high == highest_received_task_id[d]
<1>1. /\ phase = "simulation" /\ new_task[d] # <<>> /\ task.state \in b.unscheduled
      /\ new_task' = [new_task EXCEPT ![d] = Tail(@)]
      /\ highest_received_task_id' = [highest_received_task_id EXCEPT ![d] =
                                        IF task.id > high THEN task.id ELSE high]
      /\ book' = [book EXCEPT ![d] = add_sub_tasks(d, b, {task})]
      /\ UNCHANGED <<phase, at, current_step, task_id, finished_ranks, highest_sent_task_id,
                     kill_runner, rank_finished, all_finished, nsteps, wire>>
  BY DEF check_schedule_new_tasks, TaskUnexpected, Runs, registration
<1>2. d \in ServerRanks /\ Kept(d, book[d])
  BY <1>1, Ranks DEF Agreement, BookKept
<1>3. task \in NewTask /\ b \in Book /\ Kept(d, b)
  BY <1>1, <1>2, WithoutMemberIs
<1>4. add_sub_tasks(d, b, {task}) \in Book
  BY <1>1, <1>2, <1>3, AddSubTasks
<1>5. Tail(new_task[d]) \in Seq(NewTask)
  BY <1>1 DEF Typed
<1>6. task.id \in Nat
  BY <1>3 DEF NewTask
<1> HIDE DEF task, b
<1>7. highest_received_task_id' \in [OtherRanks -> Nat]
  BY <1>1, <1>6 DEF Typed
<1>8. book' \in [ServerRanks -> Book] /\ new_task' \in [OtherRanks -> Seq(NewTask)]
  BY <1>1, <1>4, <1>5 DEF Typed
<1> QED
  BY <1>1, <1>7, <1>8 DEF Typed

(* The end of a step. *)
LEMMA FinishTyped ==
  ASSUME Typed, NEW s \in ServerRanks, check_finished(s)
  PROVE  Typed'
<1>1. CASE s = 0
  <2>1. PICK got \in SUBSET {d \in OtherRanks : rank_finished[d] # <<>>} :
          LET count == finished_ranks + Cardinality({d \in got : IsUpToDate(d)})
              finished == count = CommSize - 1
          IN /\ rank_finished' = [d \in OtherRanks |-> IF d \in got THEN Tail(rank_finished[d])
                                                       ELSE rank_finished[d]]
             /\ finished_ranks' = count
             /\ all_finished' = IF finished THEN OtherRanks ELSE all_finished
             /\ at' = IF finished THEN [at EXCEPT ![0] = "update"] ELSE at
             /\ UNCHANGED <<phase, current_step, book, task_id, new_task, highest_received_task_id,
                            highest_sent_task_id, nsteps, kill_runner, wire>>
    BY <1>1 DEF check_finished, CheckFinishedFirst, registration, runners
  <2>2. \A d \in OtherRanks :
          /\ rank_finished[d] \in Seq(Nat)
          /\ rank_finished[d] # <<>> => Tail(rank_finished[d]) \in Seq(Nat)
    BY DEF Typed
  <2>3. rank_finished' \in [OtherRanks -> Seq(Nat)]
    BY <2>1, <2>2
  <2>4. all_finished' \subseteq OtherRanks /\ at' \in [ServerRanks -> {"loop", "update", "ended"}]
    BY <2>1 DEF Typed
  <2>5. finished_ranks' \in Int
    <3> DEFINE u == {d \in got : IsUpToDate(d)}
    <3>1. IsFiniteSet(OtherRanks)
      BY ServerAssumption, FS_Interval DEF OtherRanks
    <3>2. Cardinality(u) \in Nat
      <4>1. u \in SUBSET OtherRanks
        OBVIOUS
      <4> QED
        BY <3>1, <4>1, FS_Subset, FS_CardinalityType
    <3>3. finished_ranks' = finished_ranks + Cardinality(u)
      BY <2>1
    <3> HIDE DEF u
    <3> QED
      BY <3>2, <3>3 DEF Typed
  <2> QED
    BY <2>1, <2>3, <2>4, <2>5 DEF Typed
<1>2. CASE s # 0
  <2>1. /\ highest_sent_task_id' = [highest_sent_task_id EXCEPT ![s] = highest_received_task_id[s]]
        /\ rank_finished' = [rank_finished EXCEPT ![s] = Append(@, highest_received_task_id[s])]
           \/ rank_finished' = rank_finished
        /\ all_finished' = all_finished \ {s}
        /\ at' = IF s \in all_finished THEN [at EXCEPT ![s] = "update"] ELSE at
        /\ UNCHANGED <<phase, current_step, book, task_id, finished_ranks, new_task,
                       highest_received_task_id, nsteps, kill_runner, wire>>
    BY <1>2 DEF check_finished, CheckFinishedOther, registration, runners, scheduling
  <2>2. s \in OtherRanks
    BY <1>2, Ranks
  <2>3. highest_received_task_id[s] \in Nat /\ Append(rank_finished[s], highest_received_task_id[s]) \in Seq(Nat)
    BY <2>2 DEF Typed
  <2>4. /\ highest_sent_task_id' \in [OtherRanks -> Nat]
        /\ rank_finished' \in [OtherRanks -> Seq(Nat)]
        /\ all_finished' \subseteq OtherRanks
        /\ at' \in [ServerRanks -> {"loop", "update", "ended"}]
    BY <2>1, <2>3 DEF Typed
  <2> QED
    BY <2>1, <2>4 DEF Typed
<1> QED
  BY <1>1, <1>2

(* A rank leaves the update step. *)
LEMMA UpdateTyped ==
  ASSUME Typed, Agreement, NEW s \in ServerRanks, UpdateStep(s)
  PROVE  Typed'
<1>1. CASE s = 0
  <2>1. PICK n \in {do_update_step(current_step[0]), -2} :
          /\ at[0] = "update"
          /\ NextStep(0, n)
          /\ nsteps' = [d \in OtherRanks |-> n]
          /\ IF n < 0
             THEN UNCHANGED <<book, scheduling>>
             ELSE LET b == init_new_timestep(book[0]) IN
                  schedule_new_task(b, CompletelyIdle(b), 1, current_step[0] + n, {})
          /\ UNCHANGED <<phase, highest_received_task_id, highest_sent_task_id,
                         rank_finished, all_finished, kill_runner, wire>>
    BY <1>1 DEF UpdateStep, UpdateFirst, registration
  <2>2. n \in {-1, -2, NSteps}
    BY DEF do_update_step
  <2>3. nsteps' \in [OtherRanks -> StepCounts]
    BY <2>1, <2>2 DEF StepCounts
  <2>4. at' \in [ServerRanks -> {"loop", "update", "ended"}]
    BY <2>1 DEF Typed, NextStep
  <2>5. current_step' \in [ServerRanks -> Nat]
    <3>1. current_step[0] \in Nat /\ (~ (n < 0) => current_step[0] + n \in Nat)
      BY <2>2, Ranks DEF Typed, NSteps
    <3> QED
      BY <2>1, <3>1 DEF Typed, NextStep
  <2>6. BooksTyped'
    <3>1. CASE n < 0
      BY <2>1, <3>1 DEF Typed, BooksTyped, scheduling
    <3>2. CASE ~ (n < 0)
      <4> DEFINE b == init_new_timestep(book[0])
      <4>1. schedule_new_task(b, CompletelyIdle(b), 1, current_step[0] + n, {})
        BY <2>1, <3>2
      <4>2. b \in Book /\ Kept(0, b)
        <5>1. book[0] \in Book /\ book[0].scheduled = {} /\ book[0].running = {}
          BY <2>1, Ranks DEF Typed, Agreement, BookKept, Done
        <5> QED
          BY <5>1, NewTimestep
      <4>3. CompletelyIdle(b) \in SUBSET Runners /\ 1 \in Nat \ {0}
        BY DEF CompletelyIdle
      <4> HIDE DEF b
      <4> QED
        BY <4>1, <4>2, <4>3, ScheduledTyped, TypedBooks
    <3> QED
      BY <3>1, <3>2
  <2> QED
    BY <2>1, <2>3, <2>4, <2>5, <2>6 DEF Typed, BooksTyped
<1>2. CASE s # 0
  <2> DEFINE n == nsteps[s]
  <2>1. /\ at[s] = "update" /\ n # None
        /\ UNCHANGED <<phase, task_id, finished_ranks, new_task, rank_finished, all_finished,
                       kill_runner, wire>>
        /\ at' = [at EXCEPT ![s] = IF n < 0 THEN "ended" ELSE "loop"]
        /\ current_step' = [current_step EXCEPT ![s] = IF n < 0 THEN @ ELSE @ + n]
        /\ nsteps' = [nsteps EXCEPT ![s] = None]
        /\ IF n < 0
           THEN UNCHANGED <<book, highest_received_task_id, highest_sent_task_id>>
           ELSE /\ book' = [book EXCEPT ![s] = init_new_timestep(@)]
                /\ highest_received_task_id' = [highest_received_task_id EXCEPT ![s] = 0]
                /\ highest_sent_task_id' = [highest_sent_task_id EXCEPT ![s] = 0]
    BY <1>2 DEF UpdateStep, UpdateOther, NextStep, registration, scheduling
  <2>2. s \in OtherRanks
    BY <1>2, Ranks
  <2>3. n \in {-1, -2, NSteps}
    BY <2>1, <2>2 DEF Typed, StepCounts
  <2> HIDE DEF n
  <2>4. current_step[s] \in Nat /\ (~ (n < 0) => current_step[s] + n \in Nat)
    BY <2>3 DEF Typed, NSteps
  <2>5. init_new_timestep(book[s]) \in Book
    <3>1. book[s] \in Book /\ book[s].scheduled = {} /\ book[s].running = {}
      BY <2>1 DEF Typed, Agreement, BookKept, Done
    <3> QED
      BY <3>1, NewTimestep
  <2>6. current_step' \in [ServerRanks -> Nat]
    BY <2>1, <2>4 DEF Typed
  <2>7. at' \in [ServerRanks -> {"loop", "update", "ended"}] /\ nsteps' \in [OtherRanks -> StepCounts]
    BY <2>1 DEF Typed, StepCounts
  <2>8. /\ book' \in [ServerRanks -> Book]
        /\ highest_received_task_id' \in [OtherRanks -> Nat]
        /\ highest_sent_task_id' \in [OtherRanks -> Nat]
    <3>1. CASE n < 0
      BY <2>1, <3>1 DEF Typed
    <3>2. CASE ~ (n < 0)
      <4>1. book' = [book EXCEPT ![s] = init_new_timestep(book[s])]
        BY <2>1, <3>2
      <4>2. book' \in [ServerRanks -> Book]
        BY <2>5, <4>1 DEF Typed
      <4>3. /\ highest_received_task_id' = [highest_received_task_id EXCEPT ![s] = 0]
            /\ highest_sent_task_id' = [highest_sent_task_id EXCEPT ![s] = 0]
        BY <2>1, <3>2
      <4> QED
        BY <4>2, <4>3 DEF Typed
    <3> QED
      BY <3>1, <3>2
  <2> QED
    BY <2>1, <2>6, <2>7, <2>8 DEF Typed
<1> QED
  BY <1>1, <1>2

(* The study begins. *)
LEMMA FieldTyped ==
  ASSUME Typed, Agreement, NEW r \in Runners, RegisterField(r)
  PROVE  Typed'
<1>1. /\ phase = "init" /\ phase' = "simulation"
      /\ current_step' = [s \in ServerRanks |-> NSteps]
      /\ book' = [s \in ServerRanks |-> init_new_timestep(book[s])]
      /\ UNCHANGED <<at, scheduling, agreement, kill_runner, wire>>
  BY DEF RegisterField
<1>2. \A s \in ServerRanks : init_new_timestep(book[s]) \in Book
  <2> TAKE s \in ServerRanks
  <2>1. book[s] \in Book /\ book[s].scheduled = {} /\ book[s].running = {}
    BY <1>1 DEF Agreement, AtStart, Typed, SubTasks
  <2> QED
    BY <2>1, NewTimestep
<1> QED
  BY <1>1, <1>2 DEF Typed, NSteps, scheduling, agreement

(* A step that changes nothing but the parts under way. *)
LEMMA TypedFramed ==
  ASSUME Typed, UNCHANGED <<phase, at, current_step, book, scheduling, agreement, kill_runner>>,
         \A m \in wire' : m.runner \in Runners /\ m.rank \in RunnerRanks
  PROVE  Typed'
BY DEF Typed, scheduling, agreement

(* The other steps of the runners. *)
LEMMA RunnersFrame ==
  ASSUME Typed, NEW r \in Runners,
         \/ register_runner_id(r) \/ FirstExpose(r) \/ Expose(r)
         \/ Finalize(r) \/ MPI_Abort(r) \/ Crash(r) \/ LauncherRemoves(r)
  PROVE  /\ UNCHANGED <<phase, at, current_step, book, scheduling, agreement, kill_runner>>
         /\ \A m \in wire' : m.runner \in Runners /\ m.rank \in RunnerRanks
<1>1. UNCHANGED <<phase, at, current_step, book, scheduling, agreement, kill_runner>>
  BY DEF register_runner_id, FirstExpose, Expose, Finalize, MPI_Abort, Crash, LauncherRemoves,
         Leaves, registration
<1>2. wire' \subseteq wire \/ \A m \in wire' \ wire : m.runner \in Runners /\ m.rank \in RunnerRanks
  <2>1. CASE FirstExpose(r)
    BY <2>1 DEF FirstExpose, Part, RunnerRanks
  <2>2. CASE Expose(r)
    BY <2>2 DEF Expose, Part, RunnerRanks
  <2>3. CASE ~ FirstExpose(r) /\ ~ Expose(r)
    BY <2>3 DEF register_runner_id, Finalize, MPI_Abort, Crash, LauncherRemoves
  <2> QED
    BY <2>1, <2>2, <2>3
<1> QED
  BY <1>1, <1>2 DEF Typed

(***************************************************************************)
(* Every step keeps the types and the agreement of the ranks.              *)
(***************************************************************************)
LEMMA NextAgrees ==
  ASSUME Typed, Agreement, UpdateHasBarrier, [Next]_vars
  PROVE  Typed' /\ Agreement'
<1>1. CASE UNCHANGED vars
  <2>1. UNCHANGED <<phase, at, current_step, book, scheduling, agreement, kill_runner>> /\ wire' = wire
    BY <1>1 DEF vars, registration, runners
  <2>2. \A m \in wire' : m.runner \in Runners /\ m.rank \in RunnerRanks
    BY <2>1 DEF Typed
  <2> QED
    BY <2>1, <2>2, TypedFramed, AgreementFramed
<1>2. ASSUME NEW s \in ServerRanks, handle_data_response(s)
      PROVE  Typed' /\ Agreement'
  <2>1. PICK m \in wire : RefusePart(s, m) \/ AcceptPart(s, m)
    BY <1>2 DEF handle_data_response
  <2>2. wire' \subseteq wire
    BY <2>1 DEF RefusePart, AcceptPart
  <2>3. \A w \in wire' : w.runner \in Runners /\ w.rank \in RunnerRanks
    BY <2>2 DEF Typed
  <2>4. CASE RefusePart(s, m)
    <3>1. UNCHANGED <<phase, at, current_step, book, scheduling, agreement, kill_runner>>
      BY <2>4 DEF RefusePart
    <3> QED
      BY <2>3, <3>1, TypedFramed, AgreementFramed
  <2>5. CASE AcceptPart(s, m)
    <3>1. BooksTyped'
      BY <2>5, PartTyped
    <3>2. UNCHANGED <<phase, at, current_step, agreement, kill_runner>>
      BY <2>5 DEF AcceptPart
    <3>3. Typed'
      BY <2>3, <3>1, <3>2 DEF Typed, BooksTyped, agreement
    <3> QED
      BY <2>5, <3>3, PartAccepted
  <2> QED
    BY <2>1, <2>4, <2>5
<1>3. ASSUME NEW s \in ServerRanks, NEW task \in Members \X Runners, check_due_dates(s, task)
      PROVE  Typed' /\ Agreement'
  BY <1>3, DueDateTyped, DueDatePasses
<1>4. ASSUME NEW d \in OtherRanks, check_kill_requests(d)
      PROVE  Typed' /\ Agreement'
  BY <1>4, KillRequestTyped, KillRequested
<1>5. ASSUME NEW d \in OtherRanks, check_schedule_new_tasks(d)
      PROVE  Typed' /\ Agreement'
  <2>1. phase = "simulation"
    BY <1>5 DEF check_schedule_new_tasks, Runs
  <2> QED
    BY <1>5, <2>1, NewTaskTyped, OtherSchedules
<1>6. ASSUME NEW s \in ServerRanks, check_finished(s)
      PROVE  Typed' /\ Agreement'
  <2>1. phase = "simulation"
    BY <1>6 DEF check_finished, CheckFinishedFirst, CheckFinishedOther, WouldFinish, Runs
  <2> QED
    BY <1>6, <2>1, Ranks, FinishTyped, FirstFinishes, OtherFinishes DEF check_finished
<1>7. ASSUME NEW s \in ServerRanks, UpdateStep(s)
      PROVE  Typed' /\ Agreement'
  BY <1>7, Ranks, UpdateTyped, FirstUpdates, OtherUpdates DEF UpdateStep
<1>8. ASSUME NEW r \in Runners, RegisterField(r)
      PROVE  Typed' /\ Agreement'
  BY <1>8, FieldTyped, FieldRegistered
<1>9. ASSUME NEW r \in Runners,
             \/ register_runner_id(r) \/ FirstExpose(r) \/ Expose(r)
             \/ Finalize(r) \/ MPI_Abort(r) \/ Crash(r) \/ LauncherRemoves(r)
      PROVE  Typed' /\ Agreement'
  BY <1>9, RunnersFrame, TypedFramed, AgreementFramed
<1> QED
  BY <1>1, <1>2, <1>3, <1>4, <1>5, <1>6, <1>7, <1>8, <1>9, Ranks DEF Next, ServerStep, RunnerStep

(* The server starts without tasks and messages. *)
LEMMA InitAgrees == Init => Typed /\ Agreement
<1> SUFFICES ASSUME Init PROVE Typed /\ Agreement
  OBVIOUS
<1>1. \A s \in ServerRanks :
        /\ book[s] = [unscheduled |-> {}, scheduled |-> {}, running |-> {}, finished |-> {},
                      idle |-> {}, killed |-> {}]
        /\ at[s] = "loop" /\ current_step[s] = 0
  BY DEF Init
<1>2. \A d \in OtherRanks :
        /\ highest_received_task_id[d] = 0 /\ highest_sent_task_id[d] = 0
        /\ new_task[d] = <<>> /\ kill_runner[d] = <<>> /\ rank_finished[d] = <<>>
        /\ nsteps[d] = None
  BY DEF Init
<1>3. phase = "init" /\ task_id = 1 /\ finished_ranks = -1 /\ all_finished = {}
  BY DEF Init
<1>4. \A s \in ServerRanks : SubTasks(book[s]) = {} /\ book[s] \in Book
  BY <1>1 DEF SubTasks, Book
<1>5. Typed
  <2>1. book \in [ServerRanks -> Book]
    BY <1>4 DEF Init
  <2>2. /\ new_task \in [OtherRanks -> Seq(NewTask)]
        /\ kill_runner \in [OtherRanks -> Seq(Members \X Runners)]
        /\ rank_finished \in [OtherRanks -> Seq(Nat)]
    BY DEF Init
  <2> QED
    BY <2>1, <2>2 DEF Init, Typed, StepCounts
<1>6. AtStart /\ Counts
  <2>1. AtStart
    BY <1>1, <1>2, <1>4 DEF AtStart
  <2>2. Counts
    BY <1>3 DEF Counts
  <2> QED
    BY <2>1, <2>2
<1>7. \A s \in ServerRanks : BookKept(s)
  BY <1>1, <1>3 DEF BookKept
<1>8. ASSUME NEW d \in OtherRanks
      PROVE  /\ Follows(d) /\ Numbered(d) /\ Reported(d)
             /\ Announced(d) /\ TakenFrom(d) /\ KillsKnown(d) /\ LastWord(d)
  <2>1. Follows(d)
    BY <1>1, <1>2, <1>3, Ranks DEF Follows
  <2>2. Numbered(d) /\ Reported(d)
    BY <1>1, <1>2, <1>3 DEF Numbered, Reported, Increasing
  <2>3. Announced(d) /\ KillsKnown(d)
    BY <1>2 DEF Announced, KillsKnown
  <2>4. TakenFrom(d) /\ LastWord(d)
    BY <1>4, Ranks DEF TakenFrom, LastWord
  <2> QED
    BY <2>1, <2>2, <2>3, <2>4
<1> QED
  BY <1>5, <1>6, <1>7, <1>8 DEF Agreement

-----------------------------------------------------------------------------
(* The types and the agreement of the ranks, always. *)
LEMMA RanksAgree ==
  ASSUME UpdateHasBarrier
  PROVE  Spec => [](Typed /\ Agreement)
<1> DEFINE Inv == Typed /\ Agreement
<1>1. Init => Inv
  BY InitAgrees
<1>2. Inv /\ [Next]_vars => Inv'
  BY NextAgrees
<1> HIDE DEF Inv
<1>3. Spec => []Inv
  BY <1>1, <1>2, PTL DEF Spec
<1> QED
  BY <1>3 DEF Inv

(***************************************************************************)
(* Each rank keeps its tasks: a member waits, or one runner has all its    *)
(* subtasks, each in one of the three lists, whatever fails in between     *)
(* (server.cxx:1809).                                                      *)
(***************************************************************************)
THEOREM TasksAreConserved ==
  ASSUME UpdateHasBarrier
  PROVE  Spec => []TasksConserved
<1>1. Typed /\ Agreement => TasksConserved
  BY DEF Agreement, BookKept, Kept, OfMember, TasksConserved
<1> QED
  BY <1>1, RanksAgree, PTL

-----------------------------------------------------------------------------
(***************************************************************************)
(* The ranks implement EnsembleUpdate.  What a rank has of a member is     *)
(* seen in its finished subtasks.                                          *)
(***************************************************************************)
Complete(s, b, m) ==
  {r \in Runners : Linked(s) = {t.rank : t \in {t \in b.finished : t.state = m /\ t.runner = r}}}

(* The runner all parts are from, or None. *)
HasFrom(s, b, m) == IF Complete(s, b, m) = {} THEN None ELSE CHOOSE r \in Complete(s, b, m) : TRUE

(* The source of a member at a rank, by the book of the rank. *)
LEMMA SourceIs ==
  \A s, m : Source(s, m) = IF at[s] = "ended" THEN None ELSE HasFrom(s, book[s], m)
BY DEF Source, CompleteFrom, HasFrom, Complete

(* A member has one source, a runner, or none. *)
LEMMA OneSource ==
  ASSUME NEW s \in ServerRanks, NEW b \in Book, Kept(s, b), NEW m \in Members
  PROVE  /\ \A r \in Complete(s, b, m) : HasFrom(s, b, m) = r
         /\ HasFrom(s, b, m) \in Runners \cup {None}
         /\ None \notin Runners
<1>1. Linked(s) # {}
  BY EveryRankIsLinked
<1>2. \A r \in Complete(s, b, m) : \E t \in OfMember(b, m) : t.runner = r
  BY <1>1 DEF Complete, OfMember, SubTasks
<1>3. \A t, u \in OfMember(b, m) : t.runner = u.runner
  BY DEF Kept
<1>4. \A q, r \in Complete(s, b, m) : q = r
  BY <1>2, <1>3
<1>5. Complete(s, b, m) \subseteq Runners
  BY DEF Complete
<1>6. None \notin Runners
  BY ServerAssumption
<1> QED
  BY <1>4, <1>5, <1>6 DEF HasFrom

(* The finished subtasks decide. *)
LEMMA SameSource ==
  ASSUME NEW s, NEW b, NEW c, NEW m,
         \A t : t \in b.finished /\ t.state = m <=> t \in c.finished /\ t.state = m
  PROVE  HasFrom(s, c, m) = HasFrom(s, b, m)
<1>1. \A r : {t \in b.finished : t.state = m /\ t.runner = r} = {t \in c.finished : t.state = m /\ t.runner = r}
  OBVIOUS
<1>2. Complete(s, b, m) = Complete(s, c, m)
  BY <1>1 DEF Complete
<1> QED
  BY <1>2 DEF HasFrom

(* A member of which nothing is finished has no source. *)
LEMMA NoSource ==
  ASSUME NEW s \in ServerRanks, NEW b, NEW m, \A t \in b.finished : t.state # m
  PROVE  HasFrom(s, b, m) = None
<1>1. Linked(s) # {}
  BY EveryRankIsLinked
<1>2. Complete(s, b, m) = {}
  BY <1>1 DEF Complete
<1> QED
  BY <1>2 DEF HasFrom

(* A rank that finishes more keeps what it has. *)
LEMMA SourceKept ==
  ASSUME NEW s \in ServerRanks, NEW b \in Book, Kept(s, b), NEW c \in Book, Kept(s, c),
         SubTasks(c) = SubTasks(b), b.finished \subseteq c.finished, NEW m \in Members
  PROVE  HasFrom(s, b, m) = None \/ HasFrom(s, c, m) = HasFrom(s, b, m)
<1> SUFFICES ASSUME NEW r \in Complete(s, b, m) PROVE r \in Complete(s, c, m)
  <2>1. CASE Complete(s, b, m) = {}
    BY <2>1 DEF HasFrom
  <2>2. CASE Complete(s, b, m) # {}
    BY <2>2, OneSource
  <2> QED
    BY <2>1, <2>2
<1> DEFINE B == {t \in b.finished : t.state = m /\ t.runner = r}
           C == {t \in c.finished : t.state = m /\ t.runner = r}
<1>1. r \in Runners /\ Linked(s) = {t.rank : t \in B}
  BY DEF Complete
<1>2. B \subseteq C
  OBVIOUS
<1>3. \A t \in C : t.rank \in Linked(s)
  <2>1. C \subseteq OfMember(c, m)
    BY DEF OfMember, SubTasks
  <2>2. C # {} => {t.rank : t \in OfMember(c, m)} = Linked(s)
    BY <2>1 DEF Kept
  <2> QED
    BY <2>1, <2>2
<1> HIDE DEF B
<1>4. Linked(s) = {t.rank : t \in C}
  BY <1>1, <1>2, <1>3
<1> QED
  BY <1>1, <1>4 DEF Complete

-----------------------------------------------------------------------------
(***************************************************************************)
(* The mapped variables.                                                   *)
(***************************************************************************)
Sources == [s \in ServerRanks |-> [m \in Members |-> Source(s, m)]]

(* The ranks that have yet to leave the last update step. *)
Pending == {s \in ServerRanks : (at[0] # "loop" /\ at[s] # "ended") \/ current_step[s] < current_step[0]}

(* Nothing is seen. *)
LEMMA EnsembleStutters ==
  ASSUME Decided' = Decided, Sources' = Sources, Pending' = Pending
  PROVE  [Ensemble!Next]_(Ensemble!vars)
BY DEF Ensemble!vars, Sources, Pending

(* A rank gathers a member, or loses one. *)
LEMMA RankGathers ==
  ASSUME NEW s \in ServerRanks, s \notin Pending, Decided' = Decided, Pending' = Pending,
         NEW m \in Members, NEW x \in Runners \cup {None},
         Source(s, m) \in Runners \cup {None},
         Source(s, m) = None \/ x = None,
         Sources' = [Sources EXCEPT ![s] = [@ EXCEPT ![m] = x]]
  PROVE  [Ensemble!Next]_(Ensemble!vars)
<1>1. Sources[s][m] = Source(s, m) /\ Sources \in [ServerRanks -> [Members -> {Source(z, n) : z \in ServerRanks, n \in Members}]]
  BY DEF Sources
<1>2. CASE Source(s, m) = x
  <2>1. Sources' = Sources
    BY <1>1, <1>2
  <2> QED
    BY <2>1, EnsembleStutters
<1>3. CASE Source(s, m) # x
  <2>1. \E r \in Runners :
          \/ Sources[s][m] = None /\ Sources' = [Sources EXCEPT ![s] = [@ EXCEPT ![m] = r]]
          \/ Sources[s][m] = r /\ Sources' = [Sources EXCEPT ![s] = [@ EXCEPT ![m] = None]]
    BY <1>1, <1>3
  <2>2. Ensemble!Gather(s)
    BY <2>1 DEF Ensemble!Gather, Sources, Pending
  <2> QED
    BY <2>2 DEF Ensemble!Next
<1> QED
  BY <1>2, <1>3

(* A rank leaves the update step. *)
LEMMA RankLeaves ==
  ASSUME NEW s \in ServerRanks, s \in Pending, Decided' = Decided, Pending' = Pending \ {s},
         Sources' = [Sources EXCEPT ![s] = [m \in Members |-> None]]
  PROVE  [Ensemble!Next]_(Ensemble!vars)
<1>1. Ensemble!Leave(s)
  BY DEF Ensemble!Leave, Ensemble!Nothing, Sources, Pending
<1> QED
  BY <1>1 DEF Ensemble!Next

(* The ranks decide. *)
LEMMA RanksDecide ==
  ASSUME Pending = {}, Pending' = ServerRanks, Decided' = Decided + 1, Sources' = Sources,
         \A m \in Members : \E r \in Runners : \A s \in ServerRanks : Source(s, m) = r
  PROVE  [Ensemble!Next]_(Ensemble!vars)
<1>1. \A m \in Members : \E r \in Runners : \A s \in ServerRanks : Sources[s][m] = r
  BY DEF Sources
<1>2. Ensemble!Decide
  BY <1>1 DEF Ensemble!Decide, Sources, Pending
<1> QED
  BY <1>2 DEF Ensemble!Next

(***************************************************************************)
(* The steps of the ranks, seen there.                                     *)
(***************************************************************************)
LEMMA SourceNext ==
  \A s, m : Source(s, m)' = IF at'[s] = "ended" THEN None ELSE HasFrom(s, book'[s], m)
BY DEF Source, CompleteFrom, HasFrom, Complete

(* All sources after a step. *)
LEMMA SourcesNext ==
  Sources' = [s \in ServerRanks |-> [m \in Members |-> Source(s, m)']]
BY DEF Sources

(* Nobody goes anywhere. *)
LEMMA NobodyMoves ==
  ASSUME UNCHANGED <<phase, at, current_step>>
  PROVE  Decided' = Decided /\ Pending' = Pending
BY DEF Decided, Pending

(* The finished subtasks stay. *)
LEMMA SourcesStay ==
  ASSUME \A s \in ServerRanks : /\ book'[s].finished = book[s].finished
                                /\ at'[s] = "ended" <=> at[s] = "ended"
  PROVE  Sources' = Sources
<1>1. \A s \in ServerRanks, m \in Members : HasFrom(s, book'[s], m) = HasFrom(s, book[s], m)
  BY SameSource
<1>2. \A s \in ServerRanks, m \in Members : Source(s, m)' = Source(s, m)
  BY <1>1, SourceIs, SourceNext
<1> QED
  BY <1>2, SourcesNext DEF Sources

(* A rank that has something to do is not in the last update step. *)
LEMMA BusyRank ==
  ASSUME Typed, Agreement, NEW s \in ServerRanks, at[s] = "loop",
         \/ s = 0
         \/ ~ Done(book[s])
         \/ new_task[s] # <<>>
  PROVE  s \notin Pending
<1>1. CASE s = 0
  <2>1. current_step[0] \in Nat
    BY Ranks DEF Typed
  <2> QED
    BY <1>1, <2>1 DEF Pending
<1>2. CASE s # 0
  <2>1. s \in OtherRanks /\ at[0] \in {"loop", "update", "ended"} /\ current_step[s] \in Nat
    BY <1>2, Ranks DEF Typed
  <2>2. Follows(s) /\ Reported(s)
    BY <2>1 DEF Agreement
  <2>3. CASE at[0] = "loop"
    <3>1. current_step[s] = current_step[0]
      BY <2>2, <2>3 DEF Follows
    <3> QED
      BY <2>1, <2>3, <3>1 DEF Pending
  <2>4. CASE at[0] = "update"
    BY <1>2, <2>2, <2>4 DEF Follows, Reported, HasAllTasks
  <2>5. CASE at[0] = "ended"
    BY <2>2, <2>5 DEF Follows
  <2> QED
    BY <2>1, <2>3, <2>4, <2>5
<1> QED
  BY <1>1, <1>2

(* A rank gets or loses what it has of one member. *)
LEMMA OneMemberChanges ==
  ASSUME Typed, UNCHANGED <<phase, at, current_step>>,
         NEW s \in ServerRanks, at[s] = "loop", Kept(s, book[s]),
         NEW c \in Book, Kept(s, c), book' = [book EXCEPT ![s] = c],
         NEW m \in Members,
         \A n \in Members : n # m => HasFrom(s, c, n) = HasFrom(s, book[s], n),
         \/ HasFrom(s, c, m) = HasFrom(s, book[s], m)
         \/ s \notin Pending /\ (HasFrom(s, c, m) = None \/ HasFrom(s, book[s], m) = None)
  PROVE  [Ensemble!Next]_(Ensemble!vars)
<1>1. book'[s] = c /\ \A z \in ServerRanks : z # s => book'[z] = book[z]
  BY DEF Typed
<1>2. Decided' = Decided /\ Pending' = Pending
  BY NobodyMoves
<1>3. /\ \A z \in ServerRanks, n \in Members : z # s \/ n # m => Source(z, n)' = Source(z, n)
      /\ Source(s, m)' = HasFrom(s, c, m)
      /\ Source(s, m) = HasFrom(s, book[s], m)
  BY <1>1, SourceIs, SourceNext
<1>4. /\ HasFrom(s, c, m) \in Runners \cup {None}
      /\ HasFrom(s, book[s], m) \in Runners \cup {None}
  BY OneSource DEF Typed
<1> DEFINE x == HasFrom(s, c, m)
<1>5. Sources' = [Sources EXCEPT ![s] = [@ EXCEPT ![m] = x]]
  <2>1. \A z \in ServerRanks, n \in Members :
          Source(z, n)' = IF z = s /\ n = m THEN x ELSE Source(z, n)
    BY <1>3
  <2> HIDE DEF x
  <2>2. [Sources EXCEPT ![s] = [@ EXCEPT ![m] = x]] =
          [z \in ServerRanks |-> [n \in Members |-> IF z = s /\ n = m THEN x ELSE Source(z, n)]]
    BY DEF Sources
  <2> QED
    BY <2>1, <2>2, SourcesNext
<1>6. CASE HasFrom(s, c, m) = HasFrom(s, book[s], m)
  <2>1. \A z \in ServerRanks, n \in Members : Source(z, n)' = Source(z, n)
    BY <1>3, <1>6
  <2>2. Sources' = Sources
    BY <2>1, SourcesNext DEF Sources
  <2> QED
    BY <1>2, <2>2, EnsembleStutters
<1>7. CASE s \notin Pending /\ (HasFrom(s, c, m) = None \/ HasFrom(s, book[s], m) = None)
  <2> HIDE DEF x
  <2> QED
    BY <1>2, <1>3, <1>4, <1>5, <1>7, RankGathers DEF x
<1> QED
  BY <1>6, <1>7

(* A rank loses what it has of a member m. *)
LEMMA MemberLost ==
  ASSUME Typed, Agreement, phase = "simulation", UNCHANGED <<phase, at, current_step>>,
         NEW s \in ServerRanks, at[s] = "loop", s = 0 \/ ~ Done(book[s]) \/ new_task[s] # <<>>,
         NEW c \in Book, Kept(s, c), book' = [book EXCEPT ![s] = c],
         NEW m \in Members, c.finished = {t \in book[s].finished : t.state # m}
  PROVE  [Ensemble!Next]_(Ensemble!vars)
<1>1. Kept(s, book[s])
  BY DEF Agreement, BookKept
<1>2. ASSUME NEW n \in Members, n # m
      PROVE  HasFrom(s, c, n) = HasFrom(s, book[s], n)
  BY <1>2, SameSource
<1>3. HasFrom(s, c, m) = None
  BY NoSource
<1>4. s \notin Pending
  BY BusyRank
<1> QED
  BY <1>1, <1>2, <1>3, <1>4, OneMemberChanges

(* A part comes back. *)
LEMMA PartSeen ==
  ASSUME Typed, Agreement, NEW s \in ServerRanks, NEW w, AcceptPart(s, w)
  PROVE  [Ensemble!Next]_(Ensemble!vars)
<1> DEFINE a == Awaited(book[s], w)
<1>1. /\ phase = "simulation" /\ at[s] = "loop"
      /\ w.runner \in Runners
      /\ UNCHANGED <<phase, at, current_step>>
  BY DEF AcceptPart, Arrived, Runs, Typed
<1>2. PICK b \in Book :
        /\ Exchanged(s, w, b)
        /\ \/ book' = [book EXCEPT ![s] = b] /\ UNCHANGED scheduling
           \/ s = 0 /\ schedule_new_task(b, {w.runner}, task_id, current_step[0], {})
  BY PartExchanged
<1>3. PICK c \in Book : Kept(s, c) /\ c.finished = b.finished /\ book' = [book EXCEPT ![s] = c]
  <2>1. CASE book' = [book EXCEPT ![s] = b]
    BY <1>2, <2>1 DEF Exchanged
  <2>2. CASE s = 0 /\ schedule_new_task(b, {w.runner}, task_id, current_step[0], {})
    <3>1. {w.runner} \in SUBSET Runners /\ task_id \in Nat /\ Kept(0, b)
      BY <1>1, <1>2, <2>2 DEF Typed, Exchanged
    <3>2. \E c \in Book, q \in Seq(NewTask) :
            GivesOut(b, c, q, task_id) /\ book' = [book EXCEPT ![0] = c]
      BY <2>2, <3>1, Scheduled
    <3> QED
      BY <2>2, <3>2 DEF GivesOut
  <2> QED
    BY <1>2, <2>1, <2>2
<1>4. Kept(s, book[s]) /\ book[s] \in Book
  BY <1>1 DEF Agreement, BookKept, Typed
<1>5. b.finished = book[s].finished \cup a
  BY <1>2 DEF Exchanged
<1>6. a \subseteq book[s].running /\ \A t \in a : t.state = w.state
  BY DEF Awaited
<1> HIDE DEF a
<1>7. CASE a = {}
  <2>1. book'[s] = c /\ \A z \in ServerRanks : z # s => book'[z] = book[z]
    BY <1>3 DEF Typed
  <2>2. c.finished = book[s].finished
    BY <1>3, <1>5, <1>7
  <2>3. Sources' = Sources
    BY <1>1, <2>1, <2>2, SourcesStay
  <2> QED
    BY <1>1, <2>3, NobodyMoves, EnsembleStutters
<1>8. CASE a # {}
  <2>1. ~ Done(book[s])
    BY <1>6, <1>8 DEF Done
  <2> DEFINE m == w.state
  <2>2. m \in Members
    BY <1>4, <1>6, <1>8 DEF Book, SubTask
  <2>3. ASSUME NEW n \in Members, n # m
        PROVE  HasFrom(s, c, n) = HasFrom(s, book[s], n)
    BY <1>3, <1>5, <1>6, <2>3, SameSource
  <2> HIDE DEF m
  <2>4. HasFrom(s, c, m) = HasFrom(s, b, m)
    BY <1>3, SameSource
  <2>5. HasFrom(s, book[s], m) = None \/ HasFrom(s, b, m) = HasFrom(s, book[s], m)
    BY <1>2, <1>4, <1>5, <2>2, SourceKept DEF Exchanged
  <2>6. s \notin Pending
    BY <1>1, <2>1, BusyRank
  <2>7. \/ HasFrom(s, c, m) = HasFrom(s, book[s], m)
        \/ s \notin Pending /\ (HasFrom(s, c, m) = None \/ HasFrom(s, book[s], m) = None)
    BY <2>4, <2>5, <2>6
  <2> QED
    BY <1>1, <1>3, <1>4, <2>2, <2>3, <2>7, OneMemberChanges
<1> QED
  BY <1>7, <1>8

(* Rank 0 takes a task back. *)
LEMMA FailureSeen ==
  ASSUME Typed, Agreement, phase = "simulation", at[0] = "loop",
         NEW t \in SubTasks(book[0]), FailTask(Task(t)),
         UNCHANGED <<phase, at, current_step>>
  PROVE  [Ensemble!Next]_(Ensemble!vars)
<1>1. CASE UNCHANGED <<book, scheduling>>
  BY <1>1, SourcesStay, NobodyMoves, EnsembleStutters
<1>2. ASSUME NEW b \in Book, NEW rs \in SUBSET Runners, NEW step, NEW told_runners,
             TakesBack(b), b.finished = {u \in book[0].finished : u.state # t.state},
             schedule_new_task(b, rs, task_id, step, told_runners)
      PROVE  [Ensemble!Next]_(Ensemble!vars)
  <2>1. task_id \in Nat /\ Kept(0, b)
    BY <1>2 DEF Typed, TakesBack
  <2>2. PICK c \in Book, q \in Seq(NewTask) :
          GivesOut(b, c, q, task_id) /\ book' = [book EXCEPT ![0] = c]
    BY <1>2, <2>1, Scheduled
  <2>3. Kept(0, c) /\ c.finished = {u \in book[0].finished : u.state # t.state}
    BY <1>2, <2>2 DEF GivesOut
  <2>4. t.state \in Members /\ 0 \in ServerRanks
    BY Ranks, SubTaskTypes DEF Typed
  <2> QED
    BY <2>2, <2>3, <2>4, MemberLost
<1> QED
  BY <1>1, <1>2, TaskTakenBack

(* A due date passes. *)
LEMMA DueDateSeen ==
  ASSUME Typed, Agreement, NEW s \in ServerRanks, NEW task, check_due_dates(s, task)
  PROVE  [Ensemble!Next]_(Ensemble!vars)
<1>1. /\ phase = "simulation" /\ at[s] = "loop"
      /\ UNCHANGED <<phase, at, current_step>>
  BY DEF check_due_dates, TaskDue, Runs, registration
<1>2. PICK t \in book[s].scheduled \cup book[s].running : Task(t) = task
  BY DEF check_due_dates, TaskDue
<1>3. t \in SubTasks(book[s]) /\ ~ Done(book[s])
  BY <1>2 DEF SubTasks, Done
<1>4. CASE s = 0
  <2>1. FailTask(Task(t))
    BY <1>2, <1>4 DEF check_due_dates
  <2> QED
    BY <1>1, <1>3, <1>4, <2>1, FailureSeen
<1>5. CASE s # 0
  <2> DEFINE c == kill_task(book[s], Task(t))
  <2>1. book' = [book EXCEPT ![s] = c]
    BY <1>2, <1>5 DEF check_due_dates
  <2>2. book[s] \in Book /\ Kept(s, book[s])
    BY <1>1 DEF Typed, Agreement, BookKept
  <2>3. c \in Book /\ Kept(s, c) /\ c.finished = {u \in book[s].finished : u.state # t.state}
    BY <1>3, <2>2, KillTask
  <2>4. t.state \in Members
    BY <1>3, <2>2, SubTaskTypes
  <2> HIDE DEF c
  <2> QED
    BY <1>1, <1>3, <2>1, <2>3, <2>4, MemberLost
<1> QED
  BY <1>4, <1>5

(* Rank 0 reads of a killed task. *)
LEMMA KillRequestSeen ==
  ASSUME Typed, Agreement, NEW d \in OtherRanks, check_kill_requests(d)
  PROVE  [Ensemble!Next]_(Ensemble!vars)
<1> DEFINE task == Head(kill_runner[d])
<1>1. /\ phase = "simulation" /\ at[0] = "loop" /\ kill_runner[d] # <<>>
      /\ UNCHANGED <<phase, at, current_step>>
  BY DEF check_kill_requests, Runs, registration
<1>2. IF task \in book[0].killed THEN UNCHANGED <<book, scheduling>> ELSE FailTask(task)
  BY DEF check_kill_requests
<1>3. task = kill_runner[d][1] /\ 1 \in DOMAIN kill_runner[d]
  BY <1>1, TailIn DEF Typed
<1> HIDE DEF task
<1>4. CASE task \in book[0].killed
  BY <1>1, <1>2, <1>4, SourcesStay, NobodyMoves, EnsembleStutters
<1>5. CASE task \notin book[0].killed
  <2>1. task \in Given
    BY <1>3, <1>5 DEF Agreement, KillsKnown
  <2>2. PICK t \in SubTasks(book[0]) : Task(t) = task
    BY <1>5, <2>1 DEF Given
  <2> QED
    BY <1>1, <1>2, <1>5, <2>2, FailureSeen
<1> QED
  BY <1>4, <1>5

(* A rank takes a new task. *)
LEMMA NewTaskSeen ==
  ASSUME Typed, Agreement, NEW d \in OtherRanks, check_schedule_new_tasks(d)
  PROVE  [Ensemble!Next]_(Ensemble!vars)
<1> DEFINE task == Head(new_task[d])
           b == WithoutMember(d)
           c == add_sub_tasks(d, b, {task})
<1>1. /\ phase = "simulation" /\ at[d] = "loop"
      /\ new_task[d] # <<>> /\ task.state \in b.unscheduled
      /\ book' = [book EXCEPT ![d] = c]
      /\ UNCHANGED <<phase, at, current_step>>
  BY DEF check_schedule_new_tasks, TaskUnexpected, Runs, registration
<1>2. d \in ServerRanks /\ Kept(d, book[d])
  BY <1>1, Ranks DEF Agreement, BookKept
<1>3. /\ task \in NewTask /\ b \in Book /\ Kept(d, b)
      /\ b.finished = {u \in book[d].finished : u.state # task.state}
  BY <1>1, <1>2, WithoutMemberIs
<1>4. c \in Book /\ Kept(d, c) /\ c.finished = b.finished
  BY <1>1, <1>2, <1>3, AddSubTasks
<1> HIDE DEF task, b, c
<1> DEFINE m == task.state
<1>5. m \in Members
  BY <1>3 DEF NewTask
<1>6. c.finished = {u \in book[d].finished : u.state # m}
  BY <1>3, <1>4
<1> HIDE DEF m
<1> QED
  BY <1>1, <1>2, <1>4, <1>5, <1>6, MemberLost

(* A rank that has finished every member has each of one runner. *)
LEMMA DoneHasSource ==
  ASSUME NEW s \in ServerRanks, NEW b \in Book, Kept(s, b), Done(b), NEW m \in Members,
         NEW u \in SubTasks(b), u.state = m
  PROVE  HasFrom(s, b, m) = u.runner
<1>1. SubTasks(b) = b.finished
  BY DEF Done, SubTasks
<1>2. \A t \in OfMember(b, m) : t.runner = u.runner
  BY DEF Kept, OfMember
<1>3. {t \in b.finished : t.state = m /\ t.runner = u.runner} = OfMember(b, m)
  BY <1>1, <1>2 DEF OfMember
<1>4. {t.rank : t \in OfMember(b, m)} = Linked(s)
  BY DEF Kept, Done
<1>5. u.runner \in Runners
  BY SubTaskTypes
<1>6. u.runner \in Complete(s, b, m)
  BY <1>3, <1>4, <1>5 DEF Complete
<1> QED
  BY <1>6, OneSource

(* Rank 0 decides when all ranks have the same. *)
LEMMA DecisionSeen ==
  ASSUME Typed, Agreement, Agreement', WouldFinish(0),
         at' = [at EXCEPT ![0] = "update"], all_finished' = OtherRanks,
         UNCHANGED <<phase, current_step, book>>
  PROVE  [Ensemble!Next]_(Ensemble!vars)
<1>1. /\ phase = "simulation" /\ at[0] = "loop" /\ Done(book[0])
      /\ book[0] \in Book /\ Kept(0, book[0])
  BY Ranks DEF WouldFinish, Runs, Done, Typed, Agreement, BookKept
<1>2. at'[0] = "update" /\ \A d \in OtherRanks : at'[d] = at[d]
  BY Ranks DEF Typed
<1>3. ASSUME NEW d \in OtherRanks
      PROVE  /\ at[d] = "loop" /\ current_step[d] = current_step[0]
             /\ book[d] \in Book /\ Kept(d, book[d]) /\ Done(book[d])
             /\ \A t \in SubTasks(book[0]) : \E u \in SubTasks(book[d]) : Task(u) = Task(t)
  <2>1. Follows(d)' /\ Reported(d)' /\ LastWord(d)'
    BY <1>2 DEF Agreement
  <2>2. at'[d] = "loop" /\ current_step'[d] = current_step'[0] /\ HasAllTasks(d)'
    BY <1>2, <2>1 DEF Follows
  <2>3. Done(book[d])
    BY <2>1, <2>2 DEF Reported, HasAllTasks, Done
  <2>4. book[d] \in Book /\ Kept(d, book[d])
    BY <1>1, Ranks DEF Typed, Agreement, BookKept
  <2>5. ASSUME NEW t \in SubTasks(book[0]) PROVE \E u \in SubTasks(book[d]) : Task(u) = Task(t)
    <3>1. new_task'[d] = <<>>
      BY <2>2 DEF HasAllTasks
    <3>2. LastWordIs(t, <<>>, book[d], TRUE)
      BY <2>1, <2>2, <3>1 DEF LastWord, SubTasks
    <3> QED
      BY <2>3, <3>2 DEF LastWordIs, Done
  <2> QED
    BY <1>2, <2>2, <2>3, <2>4, <2>5
<1>4. ASSUME NEW m \in Members
      PROVE  \E r \in Runners : \A s \in ServerRanks : Source(s, m) = r
  <2>1. PICK t \in SubTasks(book[0]) : t.state = m
    <3>1. {t.rank : t \in OfMember(book[0], m)} = Linked(0)
      BY <1>1 DEF Kept, Done
    <3>2. Linked(0) # {}
      BY EveryRankIsLinked, Ranks
    <3> QED
      BY <3>1, <3>2 DEF OfMember
  <2>2. t.runner \in Runners
    BY <1>1, SubTaskTypes
  <2>3. ASSUME NEW s \in ServerRanks PROVE Source(s, m) = t.runner
    <3>1. /\ at[s] = "loop" /\ book[s] \in Book /\ Kept(s, book[s]) /\ Done(book[s])
          /\ \E u \in SubTasks(book[s]) : Task(u) = Task(t)
      <4>1. CASE s = 0
        BY <1>1, <4>1
      <4>2. CASE s # 0
        BY <1>3, <4>2, Ranks
      <4> QED
        BY <4>1, <4>2
    <3>2. PICK u \in SubTasks(book[s]) : Task(u) = Task(t)
      BY <3>1
    <3>3. u.state = m /\ u.runner = t.runner
      BY <2>1, <3>2 DEF Task
    <3>4. HasFrom(s, book[s], m) = u.runner
      BY <3>1, <3>3, DoneHasSource
    <3> QED
      BY <3>1, <3>3, <3>4, SourceIs
  <2> QED
    BY <2>2, <2>3
<1>5. \A s \in ServerRanks : at[s] = "loop" /\ at'[s] # "ended" /\ current_step[s] = current_step[0]
  BY <1>1, <1>2, <1>3, Ranks
<1>6. Pending = {} /\ Pending' = ServerRanks
  <2>1. current_step[0] \in Nat
    BY Ranks DEF Typed
  <2>2. Pending = {}
    BY <1>1, <1>5, <2>1 DEF Pending
  <2>3. Pending' = ServerRanks
    BY <1>2, <1>5 DEF Pending
  <2> QED
    BY <2>2, <2>3
<1>7. Decided' = Decided + 1
  <2>1. current_step[0] \in Nat
    BY Ranks DEF Typed
  <2>2. Decided' = current_step[0] /\ Decided = current_step[0] - NSteps
    BY <1>1, <1>2 DEF Decided
  <2> QED
    BY <2>1, <2>2 DEF NSteps
<1>8. Sources' = Sources
  <2>1. \A s \in ServerRanks : at'[s] = "ended" <=> at[s] = "ended"
    BY <1>5
  <2> QED
    BY <2>1, SourcesStay
<1> QED
  BY <1>4, <1>6, <1>7, <1>8, RanksDecide

(* A rank finishes, and may go into the update step. *)
LEMMA FinishSeen ==
  ASSUME Typed, Agreement, Agreement', NEW s \in ServerRanks, check_finished(s)
  PROVE  [Ensemble!Next]_(Ensemble!vars)
<1>1. CASE s = 0
  <2>1. /\ WouldFinish(0)
        /\ UNCHANGED <<phase, current_step, book>>
        /\ \/ at' = at
           \/ at' = [at EXCEPT ![0] = "update"] /\ all_finished' = OtherRanks
    BY <1>1 DEF check_finished, CheckFinishedFirst, registration
  <2>2. CASE at' = at
    BY <2>1, <2>2, SourcesStay, NobodyMoves, EnsembleStutters
  <2>3. CASE at' = [at EXCEPT ![0] = "update"] /\ all_finished' = OtherRanks
    BY <2>1, <2>3, DecisionSeen
  <2> QED
    BY <2>1, <2>2, <2>3
<1>2. CASE s # 0
  <2>1. /\ at[s] = "loop"
        /\ UNCHANGED <<phase, current_step, book>>
        /\ at' = IF s \in all_finished THEN [at EXCEPT ![s] = "update"] ELSE at
    BY <1>2 DEF check_finished, CheckFinishedOther, WouldFinish, Runs, registration
  <2>2. /\ at'[0] = at[0]
        /\ \A z \in ServerRanks : at'[z] = "ended" <=> at[z] = "ended"
    BY <1>2, <2>1, Ranks DEF Typed
  <2>3. Decided' = Decided /\ Pending' = Pending
    BY <2>1, <2>2 DEF Decided, Pending
  <2> QED
    BY <2>1, <2>2, <2>3, SourcesStay, EnsembleStutters
<1> QED
  BY <1>1, <1>2

(* A rank leaves the update step without anything finished. *)
LEMMA RankLeft ==
  ASSUME NEW s \in ServerRanks, at'[s] = "ended" \/ book'[s].finished = {},
         \A z \in ServerRanks : z # s => book'[z] = book[z] /\ at'[z] = at[z]
  PROVE  Sources' = [Sources EXCEPT ![s] = [m \in Members |-> None]]
<1>1. \A m \in Members : Source(s, m)' = None
  <2>1. \A m \in Members : book'[s].finished = {} => HasFrom(s, book'[s], m) = None
    BY NoSource
  <2> QED
    BY <2>1, SourceNext
<1>2. \A z \in ServerRanks, m \in Members : z # s => Source(z, m)' = Source(z, m)
  BY SourceIs, SourceNext
<1> QED
  BY <1>1, <1>2, SourcesNext DEF Sources

(* Rank 0 leaves it. *)
LEMMA FirstUpdateSeen ==
  ASSUME Typed, Agreement, UpdateHasBarrier, UpdateFirst
  PROVE  [Ensemble!Next]_(Ensemble!vars)
<1>1. (\A s \in ServerRanks : at[s] = "update") /\ phase' = phase
  BY DEF UpdateFirst, registration
<1>2. phase = "simulation"
  BY <1>1, Ranks DEF Agreement, AtStart, Typed
<1>3. \A d \in OtherRanks : current_step[d] = current_step[0]
  BY <1>1, Ranks DEF Agreement, Follows
<1>4. PICK n \in {do_update_step(current_step[0]), -2} :
        /\ NextStep(0, n)
        /\ IF n < 0
           THEN UNCHANGED book
           ELSE LET b == init_new_timestep(book[0]) IN
                schedule_new_task(b, CompletelyIdle(b), 1, current_step[0] + n, {})
  BY DEF UpdateFirst
<1>5. n \in {-1, -2, NSteps} /\ current_step[0] \in Nat
  BY Ranks DEF do_update_step, Typed
<1>6. /\ at'[0] = IF n < 0 THEN "ended" ELSE "loop"
      /\ current_step'[0] = IF n < 0 THEN current_step[0] ELSE current_step[0] + n
      /\ \A d \in OtherRanks : at'[d] = "update" /\ current_step'[d] = current_step[0]
  BY <1>1, <1>3, <1>4, Ranks DEF NextStep, Typed
<1>7. /\ at'[0] = "ended" \/ book'[0].finished = {}
      /\ \A z \in ServerRanks : z # 0 => book'[z] = book[z]
  <2>1. CASE n < 0
    BY <1>4, <1>6, <2>1
  <2>2. CASE ~ (n < 0)
    <3> DEFINE b == init_new_timestep(book[0])
    <3>1. schedule_new_task(b, CompletelyIdle(b), 1, current_step[0] + n, {})
      BY <1>4, <2>2
    <3>2. b \in Book /\ Kept(0, b) /\ b.finished = {}
      <4>1. book[0] \in Book /\ book[0].scheduled = {} /\ book[0].running = {}
        BY <1>1, Ranks DEF Typed, Agreement, BookKept, Done
      <4> QED
        BY <4>1, NewTimestep
    <3>3. CompletelyIdle(b) \in SUBSET Runners
      BY DEF CompletelyIdle
    <3> HIDE DEF b
    <3>4. PICK c \in Book, q \in Seq(NewTask) :
            GivesOut(b, c, q, 1) /\ book' = [book EXCEPT ![0] = c]
      BY <3>1, <3>2, <3>3, Scheduled
    <3>5. c.finished = {}
      BY <3>2, <3>4 DEF GivesOut
    <3> QED
      BY <3>4, <3>5, Ranks DEF Typed
  <2> QED
    BY <2>1, <2>2
<1>8. Sources' = [Sources EXCEPT ![0] = [m \in Members |-> None]]
  BY <1>1, <1>6, <1>7, Ranks, RankLeft
<1>9. Pending = ServerRanks
  BY <1>1, Ranks DEF Pending
<1>10. Pending' = ServerRanks \ {0}
  <2>1. 0 \notin Pending'
    <3>1. CASE n < 0
      BY <1>5, <1>6, <3>1 DEF Pending
    <3>2. CASE ~ (n < 0)
      BY <1>5, <1>6, <3>2 DEF Pending, NSteps
    <3> QED
      BY <3>1, <3>2
  <2>2. \A d \in OtherRanks : d \in Pending'
    <3>1. CASE n < 0
      BY <1>6, <3>1, Ranks DEF Pending
    <3>2. CASE ~ (n < 0)
      <4>1. n = NSteps
        BY <1>5, <3>2 DEF NSteps
      <4>2. \A d \in OtherRanks : current_step'[d] < current_step'[0]
        BY <1>5, <1>6, <3>2, <4>1 DEF NSteps
      <4> QED
        BY <4>2, Ranks DEF Pending
    <3> QED
      BY <3>1, <3>2
  <2>3. Pending' \subseteq ServerRanks
    BY DEF Pending
  <2> QED
    BY <2>1, <2>2, <2>3, Ranks
<1>11. Decided' = Decided
  <2>1. Decided = current_step[0]
    BY <1>1, Ranks DEF Decided
  <2>2. CASE n < 0
    BY <1>6, <2>1, <2>2 DEF Decided
  <2>3. CASE ~ (n < 0)
    <3>1. Decided' = current_step'[0] - NSteps
      BY <1>1, <1>2, <1>6, <2>3 DEF Decided
    <3> QED
      BY <1>5, <1>6, <2>1, <2>3, <3>1 DEF NSteps
  <2> QED
    BY <2>2, <2>3
<1> QED
  BY <1>8, <1>9, <1>10, <1>11, Ranks, RankLeaves

(* Another rank leaves it. *)
LEMMA OtherUpdateSeen ==
  ASSUME Typed, Agreement, NEW d \in OtherRanks, UpdateOther(d)
  PROVE  [Ensemble!Next]_(Ensemble!vars)
<1> DEFINE n == nsteps[d]
<1>1. /\ at[d] = "update" /\ n # None
      /\ UNCHANGED phase
      /\ at' = [at EXCEPT ![d] = IF n < 0 THEN "ended" ELSE "loop"]
      /\ current_step' = [current_step EXCEPT ![d] = IF n < 0 THEN @ ELSE @ + n]
  BY DEF UpdateOther, NextStep, registration
<1>2. IF n < 0 THEN UNCHANGED book ELSE book' = [book EXCEPT ![d] = init_new_timestep(@)]
  BY DEF UpdateOther
<1>3. /\ d \in ServerRanks /\ d # 0 /\ at[0] \in {"loop", "update", "ended"}
      /\ current_step[d] \in Nat /\ current_step[0] \in Nat
      /\ book[d] \in Book /\ Done(book[d])
  BY <1>1, Ranks DEF Typed, Agreement, BookKept
<1>4. \/ at[0] = "loop" /\ n = NSteps /\ current_step[d] + NSteps = current_step[0]
      \/ at[0] = "ended" /\ n \in {-1, -2} /\ current_step[d] = current_step[0]
  BY <1>1, <1>3 DEF Agreement, Follows
<1>5. /\ at'[d] = IF n < 0 THEN "ended" ELSE "loop"
      /\ current_step'[d] = IF n < 0 THEN current_step[d] ELSE current_step[d] + n
      /\ \A z \in ServerRanks : z # d => at'[z] = at[z] /\ current_step'[z] = current_step[z]
      /\ at'[0] = at[0] /\ current_step'[0] = current_step[0]
  BY <1>1, <1>3, Ranks DEF Typed
<1>6. /\ \A z \in ServerRanks : z # d => book'[z] = book[z]
      /\ n < 0 \/ book'[d].finished = {}
  <2>1. book[d].scheduled = {} /\ book[d].running = {}
    BY <1>3 DEF Done
  <2>2. init_new_timestep(book[d]).finished = {}
    BY <1>3, <2>1, NewTimestep
  <2> QED
    BY <1>2, <1>3, <2>2 DEF Typed
<1> HIDE DEF n
<1>7. Sources' = [Sources EXCEPT ![d] = [m \in Members |-> None]]
  BY <1>3, <1>5, <1>6, RankLeft
<1>8. Decided' = Decided
  BY <1>1, <1>5 DEF Decided
<1>9. d \in Pending
  BY <1>1, <1>3, <1>4 DEF Pending, NSteps
<1>10. d \notin Pending'
  BY <1>3, <1>4, <1>5 DEF Pending, NSteps
<1>11. Pending' = Pending \ {d}
  <2>1. \A z \in ServerRanks : z # d => (z \in Pending' <=> z \in Pending)
    BY <1>5 DEF Pending
  <2>2. Pending \subseteq ServerRanks /\ Pending' \subseteq ServerRanks
    BY DEF Pending
  <2> QED
    BY <1>10, <2>1, <2>2
<1> QED
  BY <1>3, <1>7, <1>8, <1>9, <1>11, RankLeaves

(* The start of the study is not seen. *)
LEMMA FieldSeen ==
  ASSUME Typed, Agreement, NEW r \in Runners, RegisterField(r)
  PROVE  [Ensemble!Next]_(Ensemble!vars)
<1>1. /\ phase = "init" /\ phase' = "simulation" /\ at' = at
      /\ current_step' = [s \in ServerRanks |-> NSteps]
      /\ book' = [s \in ServerRanks |-> init_new_timestep(book[s])]
  BY DEF RegisterField
<1>2. \A s \in ServerRanks : SubTasks(book[s]) = {} /\ at[s] = "loop" /\ current_step[s] = 0
  BY <1>1 DEF Agreement, AtStart
<1>3. \A s \in ServerRanks : book'[s].finished = book[s].finished
  <2> TAKE s \in ServerRanks
  <2>1. /\ book[s] \in Book
        /\ book[s].scheduled = {} /\ book[s].running = {} /\ book[s].finished = {}
    BY <1>2 DEF Typed, SubTasks
  <2>2. init_new_timestep(book[s]).finished = {}
    BY <2>1, NewTimestep
  <2> QED
    BY <1>1, <2>1, <2>2
<1>4. Sources' = Sources
  BY <1>1, <1>3, SourcesStay
<1>5. Decided' = Decided
  BY <1>1, <1>2, Ranks DEF Decided, NSteps
<1>6. Pending' = Pending
  <2>1. Pending = {}
    BY <1>2, Ranks DEF Pending
  <2>2. Pending' = {}
    BY <1>1, <1>2, Ranks DEF Pending, NSteps
  <2> QED
    BY <2>1, <2>2
<1> QED
  BY <1>4, <1>5, <1>6, EnsembleStutters

(* Every step of the server is a step of the ensemble, or not seen there. *)
LEMMA NextImplements ==
  ASSUME Typed, Agreement, Agreement', UpdateHasBarrier, [Next]_vars
  PROVE  [Ensemble!Next]_(Ensemble!vars)
<1>1. ASSUME UNCHANGED <<phase, at, current_step, book>>
      PROVE  [Ensemble!Next]_(Ensemble!vars)
  BY <1>1, SourcesStay, NobodyMoves, EnsembleStutters
<1>2. CASE UNCHANGED vars
  BY <1>1, <1>2 DEF vars, registration
<1>3. ASSUME NEW s \in ServerRanks, handle_data_response(s)
      PROVE  [Ensemble!Next]_(Ensemble!vars)
  BY <1>1, <1>3, PartSeen DEF handle_data_response, RefusePart
<1>4. ASSUME NEW s \in ServerRanks, NEW task \in Members \X Runners, check_due_dates(s, task)
      PROVE  [Ensemble!Next]_(Ensemble!vars)
  BY <1>4, DueDateSeen
<1>5. ASSUME NEW d \in OtherRanks, check_kill_requests(d) \/ check_schedule_new_tasks(d)
      PROVE  [Ensemble!Next]_(Ensemble!vars)
  BY <1>5, KillRequestSeen, NewTaskSeen
<1>6. ASSUME NEW s \in ServerRanks, check_finished(s)
      PROVE  [Ensemble!Next]_(Ensemble!vars)
  BY <1>6, FinishSeen
<1>7. ASSUME NEW s \in ServerRanks, UpdateStep(s)
      PROVE  [Ensemble!Next]_(Ensemble!vars)
  BY <1>7, Ranks, FirstUpdateSeen, OtherUpdateSeen DEF UpdateStep
<1>8. ASSUME NEW r \in Runners, RegisterField(r)
      PROVE  [Ensemble!Next]_(Ensemble!vars)
  BY <1>8, FieldSeen
<1>9. ASSUME NEW r \in Runners,
             \/ register_runner_id(r) \/ FirstExpose(r) \/ Expose(r)
             \/ Finalize(r) \/ MPI_Abort(r) \/ Crash(r) \/ LauncherRemoves(r)
      PROVE  [Ensemble!Next]_(Ensemble!vars)
  <2>1. UNCHANGED <<phase, at, current_step, book>>
    BY <1>9, RunnersFrame
  <2> QED
    BY <1>1, <2>1
<1> QED
  BY <1>2, <1>3, <1>4, <1>5, <1>6, <1>7, <1>8, <1>9, Ranks DEF Next, ServerStep, RunnerStep

(* The server starts with nothing decided and nothing finished. *)
LEMMA InitImplements == Init => Ensemble!Init
<1> SUFFICES ASSUME Init PROVE Ensemble!Init
  OBVIOUS
<1>1. \A s \in ServerRanks : at[s] = "loop" /\ current_step[s] = 0 /\ book[s].finished = {}
  BY DEF Init
<1>2. \A s \in ServerRanks, m \in Members : Source(s, m) = None
  BY <1>1, SourceIs, NoSource
<1>3. Decided = 0
  BY <1>1, Ranks DEF Init, Decided
<1>4. {s \in ServerRanks : (at[0] # "loop" /\ at[s] # "ended") \/ current_step[s] < current_step[0]} = {}
  BY <1>1, Ranks
<1> QED
  BY <1>2, <1>3, <1>4 DEF Ensemble!Init, Ensemble!Nothing

(***************************************************************************)
(* The update step is decided when every rank holds every member, all      *)
(* ranks hold a member from the same runner, and a rank keeps what it has  *)
(* until it has taken part (server.cxx:1263-1362, 1363-1454).              *)
(***************************************************************************)
THEOREM EnsembleImplemented ==
  ASSUME UpdateHasBarrier
  PROVE  Spec => ImplementsEnsembleUpdate
<1> DEFINE Inv == Typed /\ Agreement
           Step == [Ensemble!Next]_(Ensemble!vars)
<1>1. Init => Ensemble!Init
  BY InitImplements
<1>2. Inv /\ Inv' /\ [Next]_vars => Step
  BY NextImplements
<1>3. Spec => []Inv
  BY RanksAgree
<1> HIDE DEF Inv
<1> QED
  BY <1>1, <1>2, <1>3, PTL DEF Spec, ImplementsEnsembleUpdate, Ensemble!Spec
=============================================================================
