---------------------------- MODULE AnswersProof ----------------------------
(***************************************************************************)
(* What the ranks of the classic server and the runners say to each other, *)
(* proved for all numbers of ranks, members, runners and faults: a runner  *)
(* never has to put together parts of different tasks, and no assertion of *)
(* the server fails on what it gets.                                       *)
(***************************************************************************)
EXTENDS MelissaServerProof

-----------------------------------------------------------------------------
(***************************************************************************)
(* Giving out members.                                                     *)
(***************************************************************************)

(* Book b of rank 0 becomes c by new tasks T for some runners rs: no two   *)
(* for the same runner or member, and q tells of each of them once.        *)
Deals(b, c, T, q, rs) ==
  /\ T \subseteq NewTask
  /\ \A t \in T : t.runner \in rs /\ t.state \in b.unscheduled
  /\ \A t, u \in T : t.runner = u.runner \/ t.state = u.state => t = u
  /\ c = add_sub_tasks(0, b, T)
  /\ q \in Seq(NewTask)
  /\ \A i \in 1 .. Len(q) : q[i] \in T
  /\ \A i, j \in 1 .. Len(q) : q[i] = q[j] => i = j
  /\ \A t \in T : \E i \in 1 .. Len(q) : q[i] = t

(* What becomes of the state. *)
HandsOut(b, c, T, q, rs, step, told_runners) ==
  /\ Deals(b, c, T, q, rs)
  /\ book' = [book EXCEPT ![0] = c]
  /\ new_task' = [d \in OtherRanks |-> new_task[d] \o q]
  /\ answers' = answers \cup told_runners \cup launch_sub_task(0, Launched(0, b, T), step)

(* What schedule_new_task does, with the answers. *)
LEMMA Dealt ==
  ASSUME NEW b \in Book, NEW rs \in SUBSET Runners, NEW id \in Nat,
         NEW step, NEW told_runners,
         schedule_new_task(b, rs, id, step, told_runners)
  PROVE  \E T, q, c : HandsOut(b, c, T, q, rs, step, told_runners)
<1> DEFINE T == NewTasks(b, rs, id)
           c == add_sub_tasks(0, b, T)
           q == InOrder(T, id)
<1>1. NumberedTasks(T, b.unscheduled, id)
  BY NewTasksNumbered, SubTaskTypes
<1>2. /\ book' = [book EXCEPT ![0] = c]
      /\ new_task' = [d \in OtherRanks |-> new_task[d] \o q]
      /\ answers' = answers \cup told_runners \cup launch_sub_task(0, Launched(0, b, T), step)
  BY DEF schedule_new_task
<1>3. \A t \in T : t.runner \in rs /\ t.id = id + 1 + Position(t.runner, rs)
  <2> TAKE t \in T
  <2>1. PICK p \in rs \X b.unscheduled :
          /\ Position(p[1], rs) = Position(p[2], b.unscheduled)
          /\ t = [runner |-> p[1], state |-> p[2], id |-> id + 1 + Position(p[2], b.unscheduled)]
    BY DEF NewTasks
  <2> QED
    BY <2>1
<1> HIDE DEF T
<1>4. /\ T \subseteq NewTask
      /\ \A t \in T : t.state \in b.unscheduled
      /\ \A t, u \in T : t.state = u.state \/ t.id = u.id => t = u
  BY <1>1 DEF NumberedTasks
<1>5. \A t, u \in T : t.runner = u.runner => t = u
  <2> TAKE t \in T, u \in T
  <2>1. t.runner = u.runner => t.id = u.id
    BY <1>3
  <2> QED
    BY <1>4, <2>1
<1>6. /\ q \in Seq(NewTask)
      /\ Len(q) \in Nat
      /\ \A i \in 1 .. Len(q) : q[i] \in T /\ q[i].id = id + i
      /\ \A t \in T : \E i \in 1 .. Len(q) : q[i] = t
  BY <1>1, NewTasksListed
<1> HIDE DEF q
<1>7. \A i, j \in 1 .. Len(q) : q[i] = q[j] => i = j
  <2> TAKE i \in 1 .. Len(q), j \in 1 .. Len(q)
  <2>1. q[i] = q[j] => id + i = id + j
    BY <1>6
  <2> QED
    BY <1>6, <2>1
<1>8. Deals(b, c, T, q, rs)
  BY <1>3, <1>4, <1>5, <1>6, <1>7 DEF Deals
<1>9. HandsOut(b, c, T, q, rs, step, told_runners)
  BY <1>2, <1>8 DEF HandsOut
<1> HIDE DEF c
<1> QED
  BY <1>9

(* New subtasks start at once on the runner ranks that wait, and are       *)
(* scheduled for the others.                                               *)
Adds(s, b, T, c) ==
  /\ c.killed = b.killed
  /\ c.idle \subseteq b.idle
  /\ b.running \subseteq c.running
  /\ b.scheduled \subseteq c.scheduled
  /\ \A u \in c.scheduled : u \in b.scheduled \/ \E t \in T : u.runner = t.runner /\ u.state = t.state
  /\ \A t \in T, k \in Linked(s) :
       /\ <<t.runner, k>> \notin c.idle
       /\ \/ <<t.runner, k>> \in b.idle
          \/ \E u \in c.scheduled : u.runner = t.runner /\ u.rank = k
  /\ \A u \in Launched(s, b, T) :
       /\ u \in c.running /\ <<u.runner, u.rank>> \in b.idle
       /\ \E t \in T : u.runner = t.runner /\ u.state = t.state

(* So does add_sub_tasks. *)
LEMMA Added ==
  ASSUME NEW s \in ServerRanks, NEW b \in Book, NEW T, T \subseteq NewTask,
         NEW c, c = add_sub_tasks(s, b, T)
  PROVE  Adds(s, b, T, c)
<1> DEFINE new == AllSubTasks(s, T)
           now == Launched(s, b, T)
           N(t, k) == [runner |-> t.runner, rank |-> k, state |-> t.state, id |-> t.id]
<1>1. /\ c.scheduled = b.scheduled \cup (new \ now)
      /\ c.running = b.running \cup now
      /\ c.idle = b.idle \ {<<t.runner, t.rank>> : t \in now}
      /\ c.killed = b.killed
  BY DEF add_sub_tasks, Book
<1>2. \A u \in new : \E t \in T : u.runner = t.runner /\ u.state = t.state
  BY DEF AllSubTasks, NewSubTasks
<1>3. \A u : u \in now <=> u \in new /\ <<u.runner, u.rank>> \in b.idle
  BY DEF Launched
<1>4. \A t \in T, k \in Linked(s) : N(t, k) \in new /\ N(t, k).runner = t.runner /\ N(t, k).rank = k
  BY DEF AllSubTasks, NewSubTasks
<1> HIDE DEF new, now, N
<1>5. \A t \in T, k \in Linked(s) :
        /\ <<t.runner, k>> \notin c.idle
        /\ \/ <<t.runner, k>> \in b.idle
           \/ \E u \in c.scheduled : u.runner = t.runner /\ u.rank = k
  <2> TAKE t \in T, k \in Linked(s)
  <2>1. CASE <<t.runner, k>> \in b.idle
    <3>1. N(t, k) \in now
      BY <1>3, <1>4, <2>1
    <3> QED
      BY <1>1, <1>4, <2>1, <3>1
  <2>2. CASE <<t.runner, k>> \notin b.idle
    <3>1. N(t, k) \in new \ now
      BY <1>3, <1>4, <2>2
    <3> QED
      BY <1>1, <1>4, <2>2, <3>1
  <2> QED
    BY <2>1, <2>2
<1>6. \A u \in now : u \in c.running /\ <<u.runner, u.rank>> \in b.idle
                     /\ \E t \in T : u.runner = t.runner /\ u.state = t.state
  BY <1>1, <1>2, <1>3
<1>7. \A u \in c.scheduled : u \in b.scheduled \/ \E t \in T : u.runner = t.runner /\ u.state = t.state
  BY <1>1, <1>2
<1>8. c.idle \subseteq b.idle /\ b.running \subseteq c.running /\ b.scheduled \subseteq c.scheduled
  BY <1>1
<1> QED
  BY <1>1, <1>5, <1>6, <1>7, <1>8 DEF now, Adds

-----------------------------------------------------------------------------
(***************************************************************************)
(* Tasks are new.  No rank is told of a task that it has or had.           *)
(***************************************************************************)

(* A rank that killed a task of a runner has the runner not idle. *)
Sound(b) == \A r, k : <<r, k>> \in b.idle => r \notin KilledRunners(b)

(* A killed task has no subtasks. *)
NoneAgain(b) == \A t \in SubTasks(b) : Task(t) \notin b.killed

(* The messages of rank 0 are about different tasks, which the rank        *)
(* neither has nor killed.                                                 *)
NewsFresh(d) ==
  /\ \A i \in DOMAIN new_task[d] : Task(new_task[d][i]) \notin book[d].killed
  /\ \A i, j \in DOMAIN new_task[d] : Task(new_task[d][i]) = Task(new_task[d][j]) => i = j
  /\ at[d] = "loop" =>
       \A i \in DOMAIN new_task[d] : \A t \in SubTasks(book[d]) : Task(t) # Task(new_task[d][i])

(* Rank 0 knows of a task that was killed, or is told. *)
KillTold(d) ==
  outcome = "up" => \A x \in book[d].killed :
    x \in book[0].killed \/ \E i \in DOMAIN kill_runner[d] : kill_runner[d][i] = x

(* So it is on all ranks. *)
Fresh ==
  /\ \A s \in ServerRanks : Sound(book[s]) /\ NoneAgain(book[s])
  /\ \A d \in OtherRanks : NewsFresh(d) /\ KillTold(d)

(* The elements of two lists. *)
LEMMA Joined ==
  ASSUME NEW S, NEW p \in Seq(S), NEW q \in Seq(S)
  PROVE  /\ p \o q \in Seq(S)
         /\ \A i \in DOMAIN p : i \in DOMAIN (p \o q) /\ (p \o q)[i] = p[i]
         /\ \A i \in DOMAIN q : Len(p) + i \in DOMAIN (p \o q) /\ (p \o q)[Len(p) + i] = q[i]
         /\ \A i \in DOMAIN (p \o q) :
              \/ i \in DOMAIN p /\ (p \o q)[i] = p[i]
              \/ i - Len(p) \in DOMAIN q /\ (p \o q)[i] = q[i - Len(p)] /\ \A j \in DOMAIN p : j < i
OBVIOUS

(* A list that rank 0 sends to a rank. *)
LEMMA FirstDeals ==
  ASSUME Typed, Agreement', Fresh,
         NEW b \in Book, Kept(0, b), Sound(b), NoneAgain(b),
         NEW rs \in SUBSET Runners, \A r \in rs : r \notin KilledRunners(b),
         NEW T, NEW q, NEW c, Deals(b, c, T, q, rs),
         book' = [book EXCEPT ![0] = c],
         new_task' = [d \in OtherRanks |-> new_task[d] \o q],
         \A d \in OtherRanks : at'[d] = at[d],
         \A d \in OtherRanks : \A x \in book[d].killed :
           x \in b.killed \/ \E i \in DOMAIN kill_runner'[d] : kill_runner'[d][i] = x
  PROVE  Fresh'
<1>0. 0 \in ServerRanks /\ book \in [ServerRanks -> Book] /\ new_task \in [OtherRanks -> Seq(NewTask)]
  BY Ranks DEF Typed
<1>1. /\ c \in Book
      /\ SubTasks(c) = SubTasks(b) \cup AllSubTasks(0, T)
      /\ c.killed = b.killed
      /\ c.idle \subseteq b.idle
  <2>1. T \subseteq NewTask /\ c = add_sub_tasks(0, b, T)
    BY DEF Deals
  <2>2. c.killed = b.killed /\ c.idle \subseteq b.idle
    BY <1>0, <2>1, Added DEF Adds
  <2>3. /\ \A t \in T : t.state \in b.unscheduled
        /\ \A t, u \in T : t.state = u.state => t = u
    BY DEF Deals
  <2>4. c \in Book /\ SubTasks(c) = SubTasks(b) \cup AllSubTasks(0, T)
    BY <1>0, <2>1, <2>3, AddSubTasks
  <2> QED
    BY <2>2, <2>4
<1>2. book'[0] = c /\ \A s \in ServerRanks : s # 0 => book'[s] = book[s]
  BY <1>0
<1>3. \A t \in T : Task(t) \notin b.killed
  <2> TAKE t \in T
  <2>1. t.runner \notin KilledRunners(b)
    BY DEF Deals
  <2> QED
    BY <2>1 DEF KilledRunners, Task
<1>4. Sound(c)
  BY <1>1 DEF Sound, KilledRunners
<1>5. NoneAgain(c)
  <2>1. \A u \in AllSubTasks(0, T) : \E t \in T : Task(u) = Task(t)
    BY <1>0, NewSubTasksAre DEF Deals
  <2> QED
    BY <1>1, <1>3, <2>1 DEF NoneAgain
<1>6. ASSUME NEW d \in OtherRanks PROVE (NewsFresh(d) /\ KillTold(d))'
  <2> DEFINE p == new_task[d]
             n == p \o q
  <2>0. d \in ServerRanks /\ d # 0 /\ book'[d] = book[d] /\ at'[d] = at[d] /\ new_task'[d] = n
    BY <1>2, Ranks
  <2>1. /\ n \in Seq(NewTask)
        /\ \A i \in DOMAIN p : i \in DOMAIN n /\ n[i] = p[i]
        /\ \A i \in DOMAIN n :
             \/ i \in DOMAIN p /\ n[i] = p[i]
             \/ i - Len(p) \in DOMAIN q /\ n[i] = q[i - Len(p)] /\ \A j \in DOMAIN p : j < i
    BY <1>0, Joined DEF Deals
  <2>2. \A i \in DOMAIN q : q[i] \in T
    BY DEF Deals
  <2>3. Announced(d)' /\ TakenFrom(d)' /\ KillsKnown(d)'
    BY DEF Agreement
  <2>4. NewsFresh(d)
    BY DEF Fresh
  <2> HIDE DEF n
  <2>5. \A i \in DOMAIN n : Task(n[i]) \notin book[d].killed
    <3> SUFFICES ASSUME NEW i \in DOMAIN n, i \notin DOMAIN p, Task(n[i]) \in book[d].killed
                 PROVE  FALSE
      BY <2>1, <2>4 DEF NewsFresh
    <3>1. n[i] \in T
      BY <2>1, <2>2
    <3>2. Task(n[i]) \notin b.killed
      BY <1>3, <3>1
    <3>3. PICK j \in DOMAIN kill_runner'[d] : kill_runner'[d][j] = Task(n[i])
      BY <3>2
    <3>4. kill_runner'[d][j] \notin book'[0].killed
      BY <1>1, <1>2, <3>2, <3>3
    <3>5. \A k \in DOMAIN new_task'[d] : new_task'[d][k].state # kill_runner'[d][j][1]
      BY <2>3, <3>4 DEF KillsKnown
    <3>6. kill_runner'[d][j][1] = n[i].state
      BY <3>3 DEF Task
    <3> QED
      BY <2>0, <3>5, <3>6
  <2>6. ASSUME NEW i \in DOMAIN n, NEW j \in DOMAIN n, Task(n[i]) = Task(n[j]) PROVE i = j
    <3>1. n[i].state = n[j].state
      BY <2>6 DEF Task
    <3>2. CASE i \in DOMAIN p /\ j \in DOMAIN p
      BY <2>1, <2>4, <2>6, <3>2 DEF NewsFresh
    <3>3. ASSUME NEW k \in DOMAIN n, NEW l \in DOMAIN n, k < l, n[k].state = n[l].state, Task(n[k]) = Task(n[l]),
                 l \notin DOMAIN p
          PROVE  FALSE
      <4>1. n[l] \in T
        BY <2>1, <2>2, <3>3
      <4>2. Task(n[k]) \in b.killed
        BY <1>1, <1>2, <2>0, <2>3, <3>3 DEF Announced
      <4> QED
        BY <1>3, <3>3, <4>1, <4>2
    <3>4. i \in Int /\ j \in Int
      BY <2>1
    <3>5. CASE i \notin DOMAIN p /\ j \notin DOMAIN p
      <4>1. ~ i < j /\ ~ j < i
        BY <2>6, <3>1, <3>3, <3>5
      <4> QED
        BY <3>4, <4>1
    <3>6. CASE i \in DOMAIN p /\ j \notin DOMAIN p
      <4>1. i < j
        BY <2>1, <3>6
      <4> QED
        BY <2>6, <3>1, <3>3, <3>6, <4>1
    <3>7. CASE i \notin DOMAIN p /\ j \in DOMAIN p
      <4>1. j < i
        BY <2>1, <3>7
      <4> QED
        BY <2>6, <3>1, <3>3, <3>7, <4>1
    <3> QED
      BY <3>2, <3>5, <3>6, <3>7
  <2>7. ASSUME at[d] = "loop", NEW i \in DOMAIN n, NEW t \in SubTasks(book[d]), Task(t) = Task(n[i])
        PROVE  FALSE
    <3>1. CASE i \in DOMAIN p
      BY <2>1, <2>4, <2>7, <3>1 DEF NewsFresh
    <3>2. CASE i \notin DOMAIN p
      <4>1. n[i] \in T /\ n[i].state = t.state
        BY <2>1, <2>2, <2>7, <3>2 DEF Task
      <4>2. Task(t) \in b.killed
        BY <1>1, <1>2, <2>0, <2>3, <2>7, <4>1 DEF TakenFrom
      <4> QED
        BY <1>3, <2>7, <4>1, <4>2
    <3> QED
      BY <3>1, <3>2
  <2>8. NewsFresh(d)'
    BY <2>0, <2>5, <2>6, <2>7 DEF NewsFresh
  <2>9. KillTold(d)'
    <3>1. \A x \in book'[d].killed :
            x \in book'[0].killed \/ \E i \in DOMAIN kill_runner'[d] : kill_runner'[d][i] = x
      BY <1>1, <1>2, <2>0
    <3> QED
      BY <3>1 DEF KillTold
  <2> QED
    BY <2>8, <2>9
<1>7. \A s \in ServerRanks : Sound(book[s])' /\ NoneAgain(book[s])'
  <2>1. \A s \in ServerRanks : Sound(book'[s]) /\ NoneAgain(book'[s])
    BY <1>2, <1>4, <1>5 DEF Fresh
  <2> QED
    BY <2>1 DEF Sound, NoneAgain, SubTasks, KilledRunners, Task
<1> QED
  BY <1>6, <1>7 DEF Fresh

-----------------------------------------------------------------------------
(***************************************************************************)
(* What the other operations do with a book.                               *)
(***************************************************************************)

(* A killed task leaves the book, and its runner is not idle.              *)
LEMMA KilledIs ==
  ASSUME NEW b \in Book, NEW x \in Members \X Runners, NEW c, c = kill_task(b, x)
  PROVE  /\ c.scheduled = {t \in b.scheduled : Task(t) # x}
         /\ c.running = {t \in b.running : Task(t) # x}
         /\ c.finished = {t \in b.finished : Task(t) # x}
         /\ c.idle = {i \in b.idle : i[1] # x[2]}
         /\ c.killed = b.killed \cup {x}
  BY DEF kill_task, Forget, Drop, Book

(* The book stays sound. *)
LEMMA KilledSound ==
  ASSUME NEW b \in Book, NEW x \in Members \X Runners, NEW c, c = kill_task(b, x),
         Sound(b), NoneAgain(b)
  PROVE  /\ Sound(c) /\ NoneAgain(c)
         /\ \A t \in SubTasks(c) : t \in SubTasks(b)
<1>1. /\ c.scheduled = {t \in b.scheduled : Task(t) # x}
      /\ c.running = {t \in b.running : Task(t) # x}
      /\ c.finished = {t \in b.finished : Task(t) # x}
      /\ c.idle = {i \in b.idle : i[1] # x[2]}
      /\ c.killed = b.killed \cup {x}
  BY KilledIs
<1>2. Sound(c)
  BY <1>1 DEF Sound, KilledRunners
<1>3. \A t \in SubTasks(c) : t \in SubTasks(b) /\ Task(t) # x
  BY <1>1 DEF SubTasks
<1>4. NoneAgain(c)
  BY <1>1, <1>3 DEF NoneAgain
<1> QED
  BY <1>2, <1>3, <1>4

(* The runners that rank 0 chooses are idle.                               *)
LEMMA ChosenWait ==
  ASSUME NEW b \in Book
  PROVE  /\ FirstIdle(b) \in SUBSET Runners
         /\ CompletelyIdle(b) \in SUBSET Runners
         /\ \A r \in FirstIdle(b) \cup CompletelyIdle(b) : \E k \in RunnerRanks : <<r, k>> \in b.idle
<1>1. \A r \in CompletelyIdle(b) : r \in Runners /\ \E k \in RunnerRanks : <<r, k>> \in b.idle
  <2> TAKE r \in CompletelyIdle(b)
  <2>1. PICK k \in Linked(0) : TRUE
    BY EveryRankIsLinked, Ranks
  <2> QED
    BY <2>1 DEF CompletelyIdle, Linked
<1>2. \A r \in FirstIdle(b) : \E k \in RunnerRanks : <<r, k>> \in b.idle
  <2> DEFINE S == IdleRunners(b)
  <2>1. S \in SUBSET Runners
    BY DEF IdleRunners, Book
  <2>2. CASE CompletelyIdle(b) = {}
    BY <2>2 DEF FirstIdle
  <2>3. CASE CompletelyIdle(b) # {}
    <3>1. S # {}
      <4>1. PICK r \in CompletelyIdle(b) : TRUE
        BY <2>3
      <4>2. PICK k \in RunnerRanks : <<r, k>> \in b.idle
        BY <1>1
      <4> QED
        BY <4>2 DEF IdleRunners
    <3>2. S \in SUBSET Nat
      BY <2>1, ServerAssumption
    <3>3. \E n \in S : \A m \in S : n <= m
      <4> HIDE DEF S
      <4> QED
        BY <3>1, <3>2, LeastNat
    <3>4. Least(S) \in S
      BY <3>3 DEF Least
    <3>5. \A r \in S : \E k \in RunnerRanks : <<r, k>> \in b.idle
      BY DEF IdleRunners, Book
    <3> QED
      BY <2>3, <3>4, <3>5 DEF FirstIdle
  <2> QED
    BY <2>2, <2>3
<1> QED
  BY <1>1, <1>2, FirstIdleIs

(* Of a runner that is idle rank 0 killed no task. *)
LEMMA ChosenSound ==
  ASSUME NEW b \in Book, Sound(b)
  PROVE  \A r \in FirstIdle(b) \cup CompletelyIdle(b) : r \notin KilledRunners(b)
BY ChosenWait DEF Sound

(* Rank 0 learns that a task failed. *)
LEMMA FailFresh ==
  ASSUME Typed, Agreement, Agreement', Fresh, phase = "simulation", outcome = "up",
         NEW t \in SubTasks(book[0]), FailTask(Task(t)), UNCHANGED at,
         \A d \in OtherRanks : \A i \in DOMAIN kill_runner[d] :
           \/ kill_runner[d][i] \in book[0].killed \cup {Task(t)}
           \/ \E j \in DOMAIN kill_runner'[d] : kill_runner'[d][j] = kill_runner[d][i]
  PROVE  Fresh'
<1> DEFINE b == kill_task(book[0], Task(t))
<1>0. book[0] \in Book /\ task_id \in Nat /\ 0 \in ServerRanks /\ Kept(0, book[0])
  BY Ranks DEF Typed, Agreement, BookKept
<1>1. \/ UNCHANGED <<book, scheduling>> /\ outcome' = "gave_up"
      \/ schedule_new_task(b, FirstIdle(b), task_id, current_step[0],
                           Stop(0, book[0], Task(t)[2], "KILL_RUNNER"))
  BY DEF FailTask
<1>2. CASE UNCHANGED <<book, scheduling>> /\ outcome' = "gave_up"
  <2>1. \A d \in OtherRanks : (NewsFresh(d) /\ KillTold(d))'
    BY <1>2 DEF Fresh, NewsFresh, KillTold, scheduling
  <2>2. \A s \in ServerRanks : (Sound(book[s]) /\ NoneAgain(book[s]))'
    BY <1>2 DEF Fresh
  <2> QED
    BY <2>1, <2>2 DEF Fresh
<1>3. CASE schedule_new_task(b, FirstIdle(b), task_id, current_step[0],
                             Stop(0, book[0], Task(t)[2], "KILL_RUNNER"))
  <2>1. b \in Book /\ Kept(0, b) /\ b.killed = book[0].killed \cup {Task(t)}
    BY <1>0, KillTask
  <2>2. Sound(b) /\ NoneAgain(b)
    BY <1>0, SubTaskTypes, KilledSound DEF Fresh
  <2> HIDE DEF b
  <2>3. FirstIdle(b) \in SUBSET Runners /\ \A r \in FirstIdle(b) : r \notin KilledRunners(b)
    BY <2>1, <2>2, ChosenWait, ChosenSound
  <2>4. PICK a, rs, step, told_runners :
           /\ a \in Book /\ rs \in SUBSET Runners
           /\ schedule_new_task(a, rs, task_id, step, told_runners)
           /\ Kept(0, a) /\ Sound(a) /\ NoneAgain(a)
           /\ a.killed = book[0].killed \cup {Task(t)}
           /\ \A r \in rs : r \notin KilledRunners(a)
    BY <1>3, <2>1, <2>2, <2>3
  <2>5. PICK T, q, c : HandsOut(a, c, T, q, rs, step, told_runners)
    BY <1>0, <2>4, Dealt
  <2>6. \A d \in OtherRanks : \A x \in book[d].killed :
           x \in a.killed \/ \E i \in DOMAIN kill_runner'[d] : kill_runner'[d][i] = x
    <3> SUFFICES ASSUME NEW d \in OtherRanks, NEW x \in book[d].killed
                 PROVE  x \in a.killed \/ \E i \in DOMAIN kill_runner'[d] : kill_runner'[d][i] = x
      OBVIOUS
    <3>1. x \in book[0].killed \/ \E i \in DOMAIN kill_runner[d] : kill_runner[d][i] = x
      BY DEF Fresh, KillTold
    <3> QED
      BY <2>4, <3>1
  <2> QED
    BY <2>4, <2>5, <2>6, FirstDeals DEF HandsOut
<1> QED
  BY <1>1, <1>2, <1>3

(***************************************************************************)
(* A part comes back.  Then a scheduled subtask t starts, or the runner    *)
(* rank waits.                                                             *)
(***************************************************************************)
Starts(s, m, t, c) ==
  /\ t \in Queued(book[s], m)
  /\ c.scheduled = book[s].scheduled \ {t}
  /\ c.running = (book[s].running \ Awaited(book[s], m)) \cup {t}
  /\ c.idle = book[s].idle

(* The rank has nothing for it. *)
StaysIdle(s, m, c) ==
  /\ Queued(book[s], m) = {}
  /\ c.scheduled = book[s].scheduled
  /\ c.running = book[s].running \ Awaited(book[s], m)
  /\ c.idle = book[s].idle \cup {<<m.runner, m.rank>>}

(* Rank 0 may have a new task. *)
LEMMA PartHandled ==
  ASSUME Typed, Agreement, NEW s \in ServerRanks, NEW m, AcceptPart(s, m)
  PROVE  \E c \in Book :
           /\ Exchanged(s, m, c)
           /\ \/ \E t : /\ Starts(s, m, t, c)
                        /\ book' = [book EXCEPT ![s] = c] /\ UNCHANGED scheduling
                        /\ answers' = answers \cup launch_sub_task(s, {t}, current_step[s])
              \/ /\ StaysIdle(s, m, c)
                 /\ book' = [book EXCEPT ![s] = c] /\ UNCHANGED <<scheduling, answers>>
              \/ /\ s = 0 /\ StaysIdle(s, m, c)
                 /\ m.runner \in CompletelyIdle(c)
                 /\ schedule_new_task(c, {m.runner}, task_id, current_step[0], {})
<1> DEFINE b == PartTaken(s, m)
           queue == Queued(b, m)
           idle == [b EXCEPT !.idle = @ \cup {<<m.runner, m.rank>>}]
           t == CHOOSE t \in queue : \A u \in queue : t.id <= u.id
           next == [b EXCEPT !.scheduled = @ \ {t}, !.running = @ \cup {t}]
<1>1. /\ phase = "simulation" /\ at[s] = "loop"
      /\ m.runner \in Runners /\ m.rank \in RunnerRanks
  BY DEF AcceptPart, Arrived, Runs, Typed
<1>2. Kept(s, book[s]) /\ book[s] \in Book
  BY <1>1 DEF Agreement, BookKept, Typed
<1>3. /\ b \in Book
      /\ Kept(s, b)
      /\ SubTasks(b) = SubTasks(book[s])
      /\ b.finished = book[s].finished \cup Awaited(book[s], m)
      /\ b.unscheduled = book[s].unscheduled /\ b.killed = book[s].killed
      /\ Done(book[s]) => Done(b)
  BY <1>2, PartTakenIs
<1>4. /\ b.scheduled = book[s].scheduled /\ b.idle = book[s].idle
      /\ b.running = book[s].running \ Awaited(book[s], m)
  BY <1>2 DEF PartTaken, Book
<1>5. queue = Queued(book[s], m)
  BY <1>4 DEF Queued
<1>6. \/ /\ queue # {}
         /\ book' = [book EXCEPT ![s] = next]
         /\ UNCHANGED scheduling
         /\ answers' = answers \cup launch_sub_task(s, {t}, current_step[s])
      \/ /\ queue = {} /\ s = 0 /\ m.runner \in CompletelyIdle(idle)
         /\ schedule_new_task(idle, {m.runner}, task_id, current_step[0], {})
      \/ queue = {} /\ book' = [book EXCEPT ![s] = idle] /\ UNCHANGED <<scheduling, answers>>
  BY DEF AcceptPart, PartTaken
<1> HIDE DEF b
<1>7. (Exchanged(s, m, idle) /\ StaysIdle(s, m, idle)) \/ queue # {}
  <2>1. /\ idle \in Book
        /\ idle.scheduled = b.scheduled /\ idle.running = b.running /\ idle.finished = b.finished
        /\ idle.unscheduled = b.unscheduled /\ idle.killed = b.killed
        /\ idle.idle = b.idle \cup {<<m.runner, m.rank>>}
    BY <1>1, <1>3 DEF Book
  <2> HIDE DEF idle
  <2>2. SubTasks(idle) = SubTasks(b)
    BY <2>1 DEF SubTasks
  <2>3. Kept(s, idle)
    BY <1>3, <2>1, <2>2, Moved DEF Kept
  <2>4. Exchanged(s, m, idle)
    BY <1>3, <2>1, <2>2, <2>3 DEF Exchanged, Done
  <2>5. queue = {} => StaysIdle(s, m, idle)
    BY <1>4, <1>5, <2>1 DEF StaysIdle
  <2> QED
    BY <2>4, <2>5
<1>8. ASSUME queue # {} PROVE Exchanged(s, m, next) /\ Starts(s, m, t, next)
  <2>1. t \in queue /\ t \in b.scheduled
    <3>1. queue \subseteq b.scheduled
      BY DEF Queued
    <3>2. \A u \in queue : u.id \in Nat
      BY <1>3, <3>1 DEF Book, SubTask
    <3>3. \E u \in queue : \A v \in queue : u.id <= v.id
      <4> DEFINE ids == {u.id : u \in queue}
      <4>1. ids \in SUBSET Nat /\ ids # {}
        BY <1>8, <3>2
      <4> HIDE DEF ids
      <4>2. PICK i \in ids : \A j \in ids : i <= j
        BY <4>1, LeastNat
      <4> QED
        BY <4>2 DEF ids
    <3>4. t \in queue
      BY <3>3
    <3> QED
      BY <3>1, <3>4
  <2> HIDE DEF t
  <2>2. /\ next \in Book
        /\ next.scheduled = b.scheduled \ {t} /\ next.running = b.running \cup {t} /\ next.finished = b.finished
        /\ next.unscheduled = b.unscheduled /\ next.killed = b.killed /\ next.idle = b.idle
    BY <1>3, <2>1 DEF Book
  <2> HIDE DEF next
  <2>3. SubTasks(next) = SubTasks(b)
    BY <2>1, <2>2 DEF SubTasks
  <2>4. /\ next.scheduled \cap next.running = {}
        /\ (next.scheduled \cup next.running) \cap next.finished = {}
    BY <1>3, <2>1, <2>2 DEF Kept
  <2>5. Kept(s, next)
    BY <1>3, <2>2, <2>3, <2>4, Moved
  <2>6. Done(book[s]) => Done(next)
    BY <1>3, <2>1 DEF Done
  <2>7. Starts(s, m, t, next)
    BY <1>4, <1>5, <2>1, <2>2 DEF Starts
  <2> QED
    BY <1>3, <2>2, <2>3, <2>5, <2>6, <2>7 DEF Exchanged
<1> HIDE DEF idle, queue, t, next
<1>9. CASE queue # {}
  <2>1. next \in Book
    BY <1>8, <1>9 DEF Exchanged
  <2> QED
    BY <1>6, <1>8, <1>9, <2>1
<1>10. CASE queue = {}
  <2>1. idle \in Book
    BY <1>7, <1>10 DEF Exchanged
  <2> QED
    BY <1>6, <1>7, <1>10, <2>1
<1> QED
  BY <1>9, <1>10

(* The members of the book stay new. *)
LEMMA PartFresh ==
  ASSUME Typed, Agreement, Agreement', Fresh, NEW s \in ServerRanks, NEW m, AcceptPart(s, m)
  PROVE  Fresh'
<1>1. /\ phase = "simulation" /\ at[s] = "loop" /\ outcome = "up"
      /\ m.runner \in Runners /\ m.rank \in RunnerRanks /\ m.runner \notin KilledRunners(book[s])
      /\ UNCHANGED <<at, kill_runner, outcome>>
      /\ task_id \in Nat /\ book \in [ServerRanks -> Book]
  BY DEF AcceptPart, Arrived, Runs, Typed
<1>2. PICK c \in Book :
           /\ Exchanged(s, m, c)
           /\ \/ \E t : /\ Starts(s, m, t, c)
                        /\ book' = [book EXCEPT ![s] = c] /\ UNCHANGED scheduling
                        /\ answers' = answers \cup launch_sub_task(s, {t}, current_step[s])
              \/ /\ StaysIdle(s, m, c)
                 /\ book' = [book EXCEPT ![s] = c] /\ UNCHANGED <<scheduling, answers>>
              \/ /\ s = 0 /\ StaysIdle(s, m, c)
                 /\ m.runner \in CompletelyIdle(c)
                 /\ schedule_new_task(c, {m.runner}, task_id, current_step[0], {})
  BY PartHandled
<1>3. Sound(c) /\ NoneAgain(c)
  <2>1. c.killed = book[s].killed /\ SubTasks(c) = SubTasks(book[s])
    BY <1>2 DEF Exchanged
  <2>2. c.idle \subseteq book[s].idle \cup {<<m.runner, m.rank>>}
    BY <1>2 DEF Starts, StaysIdle
  <2>3. Sound(book[s]) /\ NoneAgain(book[s])
    BY DEF Fresh
  <2>4. KilledRunners(c) = KilledRunners(book[s])
    BY <2>1 DEF KilledRunners
  <2>5. Sound(c)
    BY <1>1, <2>2, <2>3, <2>4 DEF Sound
  <2> QED
    BY <2>1, <2>3, <2>5 DEF NoneAgain
<1>4. CASE book' = [book EXCEPT ![s] = c] /\ UNCHANGED scheduling
  <2>1. /\ book'[s] = c /\ \A z \in ServerRanks : z # s => book'[z] = book[z]
        /\ c.killed = book[s].killed /\ SubTasks(c) = SubTasks(book[s])
        /\ new_task' = new_task
    BY <1>1, <1>2, <1>4 DEF Exchanged, scheduling
  <2>2. \A z \in ServerRanks : book'[z].killed = book[z].killed /\ SubTasks(book'[z]) = SubTasks(book[z])
    BY <2>1
  <2>3. \A z \in ServerRanks : (Sound(book[z]) /\ NoneAgain(book[z]))'
    <3>1. \A z \in ServerRanks : Sound(book'[z]) /\ NoneAgain(book'[z])
      BY <1>3, <2>1 DEF Fresh
    <3> QED
      BY <3>1 DEF Sound, NoneAgain, SubTasks, KilledRunners
  <2>4. ASSUME NEW d \in OtherRanks PROVE (NewsFresh(d) /\ KillTold(d))'
    <3>1. d \in ServerRanks /\ 0 \in ServerRanks
      BY Ranks
    <3>2. SubTasks(book[d])' = SubTasks(book'[d])
      BY DEF SubTasks
    <3> QED
      BY <1>1, <2>1, <2>2, <3>1, <3>2 DEF Fresh, NewsFresh, KillTold
  <2> QED
    BY <2>3, <2>4 DEF Fresh
<1>5. CASE /\ s = 0
           /\ schedule_new_task(c, {m.runner}, task_id, current_step[0], {})
  <2>1. {m.runner} \in SUBSET Runners
    BY <1>1
  <2>2. PICK T, q, e : HandsOut(c, e, T, q, {m.runner}, current_step[0], {})
    BY <1>1, <1>5, <2>1, Dealt
  <2>3. Kept(0, c) /\ c.killed = book[0].killed
    BY <1>2, <1>5 DEF Exchanged
  <2>4. \A r \in {m.runner} : r \notin KilledRunners(c)
    BY <1>1, <1>5, <2>3 DEF KilledRunners
  <2>5. \A d \in OtherRanks : \A x \in book[d].killed :
           x \in c.killed \/ \E i \in DOMAIN kill_runner'[d] : kill_runner'[d][i] = x
    BY <1>1, <2>3 DEF Fresh, KillTold
  <2> QED
    BY <1>1, <1>3, <2>1, <2>2, <2>3, <2>4, <2>5, FirstDeals DEF HandsOut
<1> QED
  BY <1>2, <1>4, <1>5

(* A rank that is given a member again takes all of it from the runner     *)
(* that had it, and the member waits.                                      *)
LEMMA WithoutIs ==
  ASSUME Typed, Fresh, NEW d \in OtherRanks, Kept(d, book[d]), new_task[d] # <<>>,
         NEW m, m = Head(new_task[d]).state, NEW b, b = WithoutMember(d)
  PROVE  /\ m \in b.unscheduled
         /\ b.scheduled = {u \in book[d].scheduled : u.state # m}
         /\ b.running = {u \in book[d].running : u.state # m}
         /\ b.idle = {i \in book[d].idle : \A u \in SubTasks(book[d]) : u.state = m => i[1] # u.runner}
         /\ b.killed = book[d].killed \cup {Task(u) : u \in {v \in SubTasks(book[d]) : v.state = m}}
<1> DEFINE a == book[d]
           old == {Task(t) : t \in Superseded(d)}
<1>0. a \in Book /\ m \in Members /\ d \in ServerRanks
  <2>1. Head(new_task[d]) \in NewTask
    BY DEF Typed
  <2> QED
    BY <2>1, Ranks DEF Typed, NewTask
<1>1. Superseded(d) = {v \in SubTasks(a) : v.state = m}
  BY DEF Superseded
<1>2. NewlyKilled(d) = Superseded(d)
  BY <1>0, <1>1 DEF NewlyKilled, Fresh, NoneAgain
<1>3. \A u \in SubTasks(a) : Task(u) \in old <=> u.state = m
  BY <1>1 DEF Task
<1>4. /\ b.unscheduled = a.unscheduled \cup {t.state : t \in NewlyKilled(d)}
      /\ b.scheduled = {u \in a.scheduled : Task(u) \notin old}
      /\ b.running = {u \in a.running : Task(u) \notin old}
      /\ b.idle = {c \in a.idle : c[1] \notin {t.runner : t \in NewlyKilled(d)}}
      /\ b.killed = a.killed \cup old
  BY <1>0 DEF WithoutMember, Forget, Drop, Book
<1>5. m \in b.unscheduled
  <2>1. CASE m \in a.unscheduled
    BY <1>4, <2>1
  <2>2. CASE m \notin a.unscheduled
    <3>1. {t.rank : t \in OfMember(a, m)} = Linked(d)
      BY <1>0, <2>2 DEF Kept
    <3>2. PICK k \in Linked(d) : TRUE
      BY <1>0, EveryRankIsLinked
    <3>3. PICK t \in OfMember(a, m) : t.rank = k
      BY <3>1, <3>2
    <3>4. t \in NewlyKilled(d) /\ t.state = m
      BY <1>1, <1>2, <3>3 DEF OfMember
    <3> QED
      BY <1>4, <3>4
  <2> QED
    BY <2>1, <2>2
<1> HIDE DEF old
<1>6. /\ b.scheduled = {u \in a.scheduled : u.state # m}
      /\ b.running = {u \in a.running : u.state # m}
  BY <1>3, <1>4 DEF SubTasks
<1>7. b.idle = {i \in a.idle : \A u \in SubTasks(a) : u.state = m => i[1] # u.runner}
  BY <1>1, <1>2, <1>4
<1>8. b.killed = a.killed \cup {Task(u) : u \in {v \in SubTasks(a) : v.state = m}}
  BY <1>1, <1>4 DEF old
<1> QED
  BY <1>5, <1>6, <1>7, <1>8

(* A rank takes the next task from rank 0. *)
LEMMA OtherTakes ==
  ASSUME Typed, Agreement, NEW d \in OtherRanks, Fresh, check_schedule_new_tasks(d)
  PROVE  Fresh'
<1> DEFINE task == Head(new_task[d])
           m == task.state
           a == book[d]
           b == WithoutMember(d)
           c == add_sub_tasks(d, b, {task})
           p == new_task[d]
<1>0. /\ d \in ServerRanks /\ d # 0 /\ 0 \in ServerRanks
      /\ book \in [ServerRanks -> Book] /\ new_task \in [OtherRanks -> Seq(NewTask)]
  BY Ranks DEF Typed
<1>1. /\ phase = "simulation" /\ at[d] = "loop" /\ p # <<>>
      /\ book' = [book EXCEPT ![d] = c]
      /\ new_task' = [new_task EXCEPT ![d] = Tail(@)]
      /\ UNCHANGED <<at, kill_runner, outcome>>
  BY DEF check_schedule_new_tasks, Runs, registration
<1>2. Kept(d, a)
  BY <1>0, <1>1 DEF Agreement, BookKept
<1>3. /\ m \in b.unscheduled
      /\ b.idle = {i \in a.idle : \A u \in SubTasks(a) : u.state = m => i[1] # u.runner}
      /\ b.killed = a.killed \cup {Task(u) : u \in {v \in SubTasks(a) : v.state = m}}
  BY <1>1, <1>2, WithoutIs
<1>4. /\ task \in NewTask /\ b \in Book /\ Kept(d, b)
      /\ SubTasks(b) = {u \in SubTasks(a) : u.state # m}
  BY <1>1, <1>2, <1>3, WithoutMemberIs
<1>5. /\ task = p[1] /\ 1 \in DOMAIN p
      /\ \A i \in DOMAIN Tail(p) : i + 1 \in DOMAIN p /\ Tail(p)[i] = p[i + 1] /\ i \in Nat \ {0}
  BY <1>0, <1>1, TailIn
<1> HIDE DEF b
<1>6. c \in Book /\ SubTasks(c) = SubTasks(b) \cup AllSubTasks(d, {task})
  <2>1. d \in ServerRanks /\ b \in Book /\ Kept(d, b) /\ task \in NewTask /\ m \in b.unscheduled
    BY <1>0, <1>3, <1>4
  <2> QED
    BY <2>1, AddSubTasks
<1>7. c.killed = b.killed /\ c.idle \subseteq b.idle
  <2>1. d \in ServerRanks /\ b \in Book /\ task \in NewTask
    BY <1>0, <1>4
  <2> QED
    BY <2>1, Added DEF Adds
<1> HIDE DEF c
<1>8. \A u \in AllSubTasks(d, {task}) : Task(u) = Task(task)
  BY <1>0, <1>4, NewSubTasksAre
<1> HIDE DEF task
<1>9. NewsFresh(d) /\ NoneAgain(a) /\ Sound(a)
  BY <1>0 DEF Fresh
<1>10. \A i \in DOMAIN p : Task(p[i]) \notin b.killed
  <2> SUFFICES ASSUME NEW i \in DOMAIN p, Task(p[i]) \in b.killed PROVE FALSE
    OBVIOUS
  <2>1. Task(p[i]) \notin a.killed
    BY <1>9 DEF NewsFresh
  <2>2. PICK u \in SubTasks(a) : Task(p[i]) = Task(u)
    BY <1>3, <2>1
  <2> QED
    BY <1>1, <1>9, <2>2 DEF NewsFresh
<1>11. NoneAgain(c)
  <2>1. \A u \in SubTasks(b) : Task(u) \notin b.killed
    <3> SUFFICES ASSUME NEW u \in SubTasks(b), Task(u) \in b.killed PROVE FALSE
      OBVIOUS
    <3>1. u \in SubTasks(a) /\ u.state # m
      BY <1>4
    <3>2. Task(u) \notin a.killed
      BY <1>9, <3>1 DEF NoneAgain
    <3>3. PICK v \in SubTasks(a) : v.state = m /\ Task(u) = Task(v)
      BY <1>3, <3>2
    <3> QED
      BY <3>1, <3>3 DEF Task
  <2>2. Task(task) \notin b.killed
    BY <1>5, <1>10
  <2> QED
    BY <1>6, <1>7, <1>8, <2>1, <2>2 DEF NoneAgain
<1>12. Sound(c)
  <2> SUFFICES ASSUME NEW r, NEW k, <<r, k>> \in c.idle, r \in KilledRunners(c) PROVE FALSE
    BY DEF Sound
  <2>1. /\ <<r, k>> \in a.idle
        /\ \A u \in SubTasks(a) : u.state = m => r # u.runner
    BY <1>3, <1>7
  <2>2. r \notin KilledRunners(a)
    BY <1>9, <2>1 DEF Sound
  <2>3. PICK x \in b.killed : x[2] = r
    BY <1>7 DEF KilledRunners
  <2>4. x \notin a.killed
    BY <2>2, <2>3 DEF KilledRunners
  <2>5. PICK u \in SubTasks(a) : u.state = m /\ x = Task(u)
    BY <1>3, <2>3, <2>4
  <2> QED
    BY <2>1, <2>3, <2>5 DEF Task
<1>13. book'[d] = c /\ \A s \in ServerRanks : s # d => book'[s] = book[s]
  BY <1>0, <1>1
<1>14. new_task'[d] = Tail(p) /\ \A e \in OtherRanks : e # d => new_task'[e] = new_task[e]
  BY <1>0, <1>1
<1>15. \A s \in ServerRanks : (Sound(book[s]) /\ NoneAgain(book[s]))'
  <2>1. \A s \in ServerRanks : Sound(book'[s]) /\ NoneAgain(book'[s])
    BY <1>11, <1>12, <1>13 DEF Fresh
  <2> QED
    BY <2>1 DEF Sound, NoneAgain, SubTasks, KilledRunners
<1>16. ASSUME NEW e \in OtherRanks, e # d PROVE (NewsFresh(e) /\ KillTold(e))'
  <2>1. book'[e] = book[e] /\ book'[0] = book[0] /\ new_task'[e] = new_task[e]
    BY <1>0, <1>13, <1>14, <1>16, Ranks
  <2>2. SubTasks(book[e])' = SubTasks(book[e])
    BY <2>1 DEF SubTasks
  <2>3. KillTold(e)'
    BY <1>1, <2>1 DEF Fresh, KillTold
  <2>4. NewsFresh(e)
    BY DEF Fresh
  <2>5. NewsFresh(e)'
    BY <1>1, <2>1, <2>2, <2>4 DEF NewsFresh
  <2> QED
    BY <2>3, <2>5
<1>17. NewsFresh(d)'
  <2> DEFINE n == Tail(p)
  <2>1. \A i \in DOMAIN n : Task(n[i]) \notin c.killed
    BY <1>5, <1>7, <1>10
  <2>2. \A i, j \in DOMAIN n : Task(n[i]) = Task(n[j]) => i = j
    <3> TAKE i \in DOMAIN n, j \in DOMAIN n
    <3>1. Task(n[i]) = Task(n[j]) => i + 1 = j + 1
      BY <1>5, <1>9 DEF NewsFresh
    <3> QED
      BY <1>5, <3>1
  <2>3. \A i \in DOMAIN n : \A t \in SubTasks(c) : Task(t) # Task(n[i])
    <3> SUFFICES ASSUME NEW i \in DOMAIN n, NEW t \in SubTasks(c), Task(t) = Task(n[i]) PROVE FALSE
      OBVIOUS
    <3>1. i + 1 \in DOMAIN p /\ n[i] = p[i + 1] /\ i \in Nat \ {0}
      BY <1>5
    <3>2. CASE t \in SubTasks(b)
      BY <1>1, <1>4, <1>9, <3>1, <3>2 DEF NewsFresh
    <3>3. CASE t \in AllSubTasks(d, {task})
      <4>1. Task(p[i + 1]) = Task(p[1])
        BY <1>5, <1>8, <3>1, <3>3
      <4>2. i + 1 = 1
        BY <1>5, <1>9, <3>1, <4>1 DEF NewsFresh
      <4> QED
        BY <3>1, <4>2
    <3> QED
      BY <1>6, <3>2, <3>3
  <2>4. SubTasks(book[d])' = SubTasks(c)
    BY <1>13 DEF SubTasks
  <2> HIDE DEF n
  <2>5. new_task'[d] = n /\ book'[d] = c
    BY <1>13, <1>14 DEF n
  <2> QED
    BY <2>1, <2>2, <2>3, <2>4, <2>5 DEF NewsFresh
<1>18. KillTold(d)'
  <2> SUFFICES ASSUME outcome = "up", NEW x \in c.killed
               PROVE  x \in book[0].killed \/ \E i \in DOMAIN kill_runner[d] : kill_runner[d][i] = x
    BY <1>0, <1>1, <1>13 DEF KillTold
  <2>1. CASE x \in a.killed
    BY <2>1 DEF Fresh, KillTold
  <2>2. CASE x \notin a.killed
    <3>1. PICK u \in SubTasks(a) : u.state = m /\ x = Task(u)
      BY <1>3, <1>7, <2>2
    <3>2. TakenFrom(d)
      BY DEF Agreement
    <3> QED
      BY <1>1, <1>5, <3>1, <3>2 DEF TakenFrom
  <2> QED
    BY <2>1, <2>2
<1> QED
  BY <1>15, <1>16, <1>17, <1>18 DEF Fresh

(* A due date passes. *)
LEMMA DueDateFresh ==
  ASSUME Typed, Agreement, Agreement', Fresh, NEW s \in ServerRanks, NEW task, check_due_dates(s, task)
  PROVE  Fresh'
<1>1. /\ phase = "simulation" /\ at[s] = "loop" /\ outcome = "up"
      /\ UNCHANGED at
      /\ book \in [ServerRanks -> Book] /\ kill_runner \in [OtherRanks -> Seq(Members \X Runners)]
  BY DEF check_due_dates, TaskDue, Runs, Typed
<1>2. PICK t \in book[s].scheduled \cup book[s].running : Task(t) = task
  BY DEF check_due_dates, TaskDue
<1>3. t \in SubTasks(book[s]) /\ Task(t) \in Members \X Runners
  BY <1>1, <1>2, SubTaskTypes DEF SubTasks
<1>4. CASE s = 0
  <2>1. FailTask(Task(t)) /\ UNCHANGED kill_runner
    BY <1>2, <1>4 DEF check_due_dates
  <2>2. \A d \in OtherRanks : \A i \in DOMAIN kill_runner[d] :
          \/ kill_runner[d][i] \in book[0].killed \cup {Task(t)}
          \/ \E j \in DOMAIN kill_runner'[d] : kill_runner'[d][j] = kill_runner[d][i]
    BY <2>1
  <2> QED
    BY <1>1, <1>3, <1>4, <2>1, <2>2, FailFresh
<1>5. CASE s # 0
  <2> DEFINE c == kill_task(book[s], Task(t))
  <2>1. /\ book' = [book EXCEPT ![s] = c]
        /\ kill_runner' = [kill_runner EXCEPT ![s] = Append(@, Task(t))]
        /\ UNCHANGED scheduling /\ UNCHANGED outcome
    BY <1>2, <1>5 DEF check_due_dates
  <2>2. Sound(book[s]) /\ NoneAgain(book[s]) /\ s \in OtherRanks /\ book[s] \in Book /\ 0 \in ServerRanks
    BY <1>1, <1>5, Ranks DEF Fresh
  <2>3. /\ Sound(c) /\ NoneAgain(c) /\ c.killed = book[s].killed \cup {Task(t)}
        /\ \A u \in SubTasks(c) : u \in SubTasks(book[s])
    BY <1>3, <2>2, KilledIs, KilledSound
  <2> HIDE DEF c
  <2>4. /\ book'[s] = c /\ \A z \in ServerRanks : z # s => book'[z] = book[z]
        /\ new_task' = new_task
        /\ kill_runner'[s] = Append(kill_runner[s], Task(t))
        /\ \A d \in OtherRanks : d # s => kill_runner'[d] = kill_runner[d]
    BY <1>1, <2>1, <2>2 DEF scheduling
  <2>5. \A z \in ServerRanks : (Sound(book[z]) /\ NoneAgain(book[z]))'
    <3>1. \A z \in ServerRanks : Sound(book'[z]) /\ NoneAgain(book'[z])
      BY <2>3, <2>4 DEF Fresh
    <3> QED
      BY <3>1 DEF Sound, NoneAgain, SubTasks, KilledRunners
  <2>6. ASSUME NEW d \in OtherRanks, d # s PROVE (NewsFresh(d) /\ KillTold(d))'
    <3>1. book'[d] = book[d] /\ book'[0] = book[0] /\ new_task'[d] = new_task[d] /\ kill_runner'[d] = kill_runner[d]
      BY <1>5, <2>2, <2>4, <2>6, Ranks
    <3>2. SubTasks(book[d])' = SubTasks(book[d])
      BY <3>1 DEF SubTasks
    <3>3. NewsFresh(d)'
      BY <1>1, <3>1, <3>2 DEF Fresh, NewsFresh
    <3>4. KillTold(d)'
      BY <2>1, <3>1 DEF Fresh, KillTold
    <3> QED
      BY <3>3, <3>4
  <2>7. NewsFresh(s)'
    <3>1. SubTasks(book[s])' = SubTasks(c)
      BY <2>4 DEF SubTasks
    <3>2. NewsFresh(s)
      BY <2>2 DEF Fresh
    <3>3. \A i \in DOMAIN new_task[s] : Task(new_task[s][i]) \notin c.killed
      BY <1>1, <1>3, <2>3, <3>2 DEF NewsFresh
    <3> QED
      BY <1>1, <2>3, <2>4, <3>1, <3>2, <3>3 DEF NewsFresh
  <2>8. KillTold(s)'
    <3> SUFFICES ASSUME NEW x \in c.killed
                 PROVE  x \in book[0].killed \/ \E i \in DOMAIN kill_runner'[s] : kill_runner'[s][i] = x
      BY <1>5, <2>2, <2>4 DEF KillTold
    <3> DEFINE k == kill_runner[s]
               l == Append(k, Task(t))
    <3>1. /\ Len(k) + 1 \in DOMAIN l /\ l[Len(k) + 1] = Task(t)
          /\ \A i \in DOMAIN k : i \in DOMAIN l /\ l[i] = k[i]
      BY <1>1, <2>2
    <3>2. CASE x = Task(t)
      BY <2>4, <3>1, <3>2
    <3>3. CASE x \in book[s].killed
      <4>1. x \in book[0].killed \/ \E i \in DOMAIN k : k[i] = x
        BY <1>1, <2>2, <3>3 DEF Fresh, KillTold
      <4> QED
        BY <2>4, <3>1, <4>1
    <3> QED
      BY <2>3, <3>2, <3>3
  <2> QED
    BY <2>5, <2>6, <2>7, <2>8 DEF Fresh
<1> QED
  BY <1>4, <1>5

(* A step that leaves the tasks and their messages alone. *)
LEMMA FreshFramed ==
  ASSUME Fresh, UNCHANGED <<book, new_task, kill_runner, outcome>>,
         \A d \in OtherRanks : at'[d] = "loop" => at[d] = "loop"
  PROVE  Fresh'
<1>1. \A s \in ServerRanks : (Sound(book[s]) /\ NoneAgain(book[s]))'
  BY DEF Fresh
<1>2. ASSUME NEW d \in OtherRanks PROVE (NewsFresh(d) /\ KillTold(d))'
  <2>1. NewsFresh(d)'
    <3>1. NewsFresh(d) /\ SubTasks(book[d])' = SubTasks(book[d])
      BY DEF Fresh
    <3> QED
      BY <3>1 DEF NewsFresh
  <2>2. KillTold(d)'
    BY DEF Fresh, KillTold
  <2> QED
    BY <2>1, <2>2
<1> QED
  BY <1>1, <1>2 DEF Fresh

(* What is in a list is its head or is left of it. *)
LEMMA InTail ==
  ASSUME NEW S, NEW q \in Seq(S), q # <<>>
  PROVE  \A i \in DOMAIN q : i = 1 \/ (i - 1 \in DOMAIN Tail(q) /\ Tail(q)[i - 1] = q[i])
<1>1. DOMAIN q = 1 .. Len(q) /\ Len(q) \in Nat /\ Len(q) > 0
  OBVIOUS
<1>2. Tail(q) \in Seq(S) /\ Len(Tail(q)) = Len(q) - 1 /\ DOMAIN Tail(q) = 1 .. Len(q) - 1
  BY <1>1
<1>3. \A i \in 1 .. Len(q) - 1 : Tail(q)[i] = q[i + 1]
  BY <1>1
<1> QED
  BY <1>1, <1>2, <1>3

(* Rank 0 reads that a task failed. *)
LEMMA KillRequestFresh ==
  ASSUME Typed, Agreement, Agreement', Fresh, NEW d \in OtherRanks, check_kill_requests(d)
  PROVE  Fresh'
<1> DEFINE task == Head(kill_runner[d])
           k == kill_runner[d]
<1>1. /\ phase = "simulation" /\ at[0] = "loop" /\ outcome = "up"
      /\ k # <<>>
      /\ kill_runner' = [kill_runner EXCEPT ![d] = Tail(@)]
      /\ UNCHANGED at
      /\ kill_runner \in [OtherRanks -> Seq(Members \X Runners)]
  BY DEF check_kill_requests, Runs, registration, Typed
<1>2. IF task \in book[0].killed THEN UNCHANGED <<book, scheduling, outcome>> ELSE FailTask(task)
  BY DEF check_kill_requests
<1>3. /\ task = k[1] /\ 1 \in DOMAIN k
      /\ kill_runner'[d] = Tail(k)
      /\ \A e \in OtherRanks : e # d => kill_runner'[e] = kill_runner[e]
  BY <1>1
<1>4. \A i \in DOMAIN k : k[i] = task \/ \E j \in DOMAIN Tail(k) : Tail(k)[j] = k[i]
  <2>1. k \in Seq(Members \X Runners)
    BY <1>1
  <2> HIDE DEF k, task
  <2>2. \A i \in DOMAIN k : i = 1 \/ (i - 1 \in DOMAIN Tail(k) /\ Tail(k)[i - 1] = k[i])
    BY <1>1, <2>1, InTail
  <2> QED
    BY <1>3, <2>2
<1> HIDE DEF task, k
<1>5. \A e \in OtherRanks : \A i \in DOMAIN kill_runner[e] :
        \/ kill_runner[e][i] = task
        \/ \E j \in DOMAIN kill_runner'[e] : kill_runner'[e][j] = kill_runner[e][i]
  <2> TAKE e \in OtherRanks
  <2>1. CASE e = d
    BY <1>3, <1>4, <2>1 DEF k
  <2>2. CASE e # d
    BY <1>3, <2>2
  <2> QED
    BY <2>1, <2>2
<1>6. CASE task \in book[0].killed
  <2>1. book' = book /\ new_task' = new_task /\ outcome' = outcome /\ at' = at
    BY <1>1, <1>2, <1>6 DEF scheduling
  <2>2. \A s \in ServerRanks : (Sound(book[s]) /\ NoneAgain(book[s]))'
    BY <2>1 DEF Fresh
  <2>3. ASSUME NEW e \in OtherRanks PROVE (NewsFresh(e) /\ KillTold(e))'
    <3>1. NewsFresh(e)'
      <4>1. NewsFresh(e) /\ SubTasks(book[e])' = SubTasks(book[e])
        BY <2>1 DEF Fresh
      <4> QED
        BY <2>1, <4>1 DEF NewsFresh
    <3>2. \A x \in book[e].killed :
            x \in book[0].killed \/ \E i \in DOMAIN kill_runner'[e] : kill_runner'[e][i] = x
      <4> TAKE x \in book[e].killed
      <4>1. x \in book[0].killed \/ \E i \in DOMAIN kill_runner[e] : kill_runner[e][i] = x
        BY <1>1 DEF Fresh, KillTold
      <4> QED
        BY <1>5, <1>6, <4>1
    <3>3. KillTold(e)'
      BY <2>1, <3>2 DEF KillTold
    <3> QED
      BY <3>1, <3>3
  <2> QED
    BY <2>2, <2>3 DEF Fresh
<1>7. CASE task \notin book[0].killed
  <2>1. task \in Given
    BY <1>3, <1>7 DEF Agreement, KillsKnown, k
  <2>2. PICK t \in SubTasks(book[0]) : Task(t) = task
    BY <1>7, <2>1 DEF Given
  <2>3. FailTask(Task(t))
    BY <1>2, <1>7, <2>2
  <2>4. \A e \in OtherRanks : \A i \in DOMAIN kill_runner[e] :
           \/ kill_runner[e][i] \in book[0].killed \cup {Task(t)}
           \/ \E j \in DOMAIN kill_runner'[e] : kill_runner'[e][j] = kill_runner[e][i]
    BY <1>5, <2>2
  <2> QED
    BY <1>1, <2>2, <2>3, <2>4, FailFresh
<1> QED
  BY <1>6, <1>7

(* A new step begins: nothing is idle that was not, and no task is left. *)
LEMMA NewStepSound ==
  ASSUME NEW b \in Book, b.scheduled = {}, b.running = {}, Sound(b), NEW c, c = init_new_timestep(b)
  PROVE  /\ Sound(c) /\ NoneAgain(c) /\ SubTasks(c) = {}
         /\ c.scheduled = {} /\ c.running = {} /\ c.idle = b.idle /\ c.killed = b.killed
<1>1. c.scheduled = {} /\ c.running = {} /\ c.finished = {} /\ c.idle = b.idle /\ c.killed = b.killed
  BY DEF init_new_timestep, Book
<1> QED
  BY <1>1 DEF Sound, NoneAgain, SubTasks, KilledRunners

(* Rank 0 leaves the update step. *)
LEMMA FirstUpdateFresh ==
  ASSUME Typed, Agreement, Agreement', Fresh, UpdateFirst
  PROVE  Fresh'
<1>1. PICK n \in {do_update_step(current_step[0]), -2} :
        /\ at[0] = "update" /\ at' = [at EXCEPT ![0] = IF n < 0 THEN "ended" ELSE "loop"]
        /\ UNCHANGED <<kill_runner, outcome>>
        /\ outcome = "up"
        /\ IF n < 0 THEN UNCHANGED <<book, scheduling>>
           ELSE schedule_new_task(init_new_timestep(book[0]), CompletelyIdle(init_new_timestep(book[0])), 1,
                                  current_step[0] + n, {})
  BY DEF UpdateFirst, NextStep
<1>2. \A d \in OtherRanks : at'[d] = at[d]
  BY <1>1, Ranks DEF Typed
<1>3. CASE n < 0
  <2>1. UNCHANGED <<book, new_task, kill_runner, outcome>>
    BY <1>1, <1>3 DEF scheduling
  <2> QED
    BY <1>2, <2>1, FreshFramed
<1>4. CASE ~ n < 0
  <2> DEFINE b == init_new_timestep(book[0])
  <2>1. book[0] \in Book /\ book[0].scheduled = {} /\ book[0].running = {} /\ Sound(book[0])
    BY <1>1, Ranks DEF Typed, Agreement, BookKept, Done, Fresh
  <2>2. b \in Book /\ Kept(0, b) /\ Sound(b) /\ NoneAgain(b) /\ b.killed = book[0].killed
    BY <2>1, NewTimestep, NewStepSound
  <2>3. schedule_new_task(b, CompletelyIdle(b), 1, current_step[0] + n, {})
    BY <1>1, <1>4
  <2> HIDE DEF b
  <2>4. CompletelyIdle(b) \in SUBSET Runners /\ \A r \in CompletelyIdle(b) : r \notin KilledRunners(b)
    BY <2>2, ChosenWait, ChosenSound
  <2>5. PICK a, rs, step :
           /\ a \in Book /\ rs \in SUBSET Runners
           /\ schedule_new_task(a, rs, 1, step, {})
           /\ Kept(0, a) /\ Sound(a) /\ NoneAgain(a)
           /\ a.killed = book[0].killed
           /\ \A r \in rs : r \notin KilledRunners(a)
    BY <2>2, <2>3, <2>4
  <2>6. PICK T, q, c : HandsOut(a, c, T, q, rs, step, {})
    BY <2>5, Dealt
  <2>7. \A d \in OtherRanks : \A x \in book[d].killed :
           x \in a.killed \/ \E i \in DOMAIN kill_runner'[d] : kill_runner'[d][i] = x
    BY <1>1, <2>5 DEF Fresh, KillTold
  <2> QED
    BY <1>2, <2>5, <2>6, <2>7, FirstDeals DEF HandsOut
<1> QED
  BY <1>3, <1>4

(* Another rank leaves it. *)
LEMMA OtherUpdateFresh ==
  ASSUME Typed, Agreement, Fresh, NEW d \in OtherRanks, UpdateOther(d)
  PROVE  Fresh'
<1>1. /\ at[d] = "update" /\ at' = [at EXCEPT ![d] = IF nsteps[d] < 0 THEN "ended" ELSE "loop"]
      /\ UNCHANGED <<kill_runner, outcome, new_task>>
      /\ IF nsteps[d] < 0 THEN UNCHANGED book
         ELSE book' = [book EXCEPT ![d] = init_new_timestep(@)]
  BY DEF UpdateOther, NextStep, scheduling
<1>2. /\ book \in [ServerRanks -> Book] /\ d \in ServerRanks /\ d # 0 /\ 0 \in ServerRanks
      /\ at \in [ServerRanks -> {"loop", "update", "ended"}]
  BY Ranks DEF Typed
<1>3. CASE nsteps[d] < 0
  <2>1. \A e \in OtherRanks : at'[e] = "loop" => at[e] = "loop"
    BY <1>1, <1>2, <1>3
  <2> QED
    BY <1>1, <1>3, <2>1, FreshFramed
<1>4. CASE ~ nsteps[d] < 0
  <2> DEFINE c == init_new_timestep(book[d])
  <2>1. book[d] \in Book /\ book[d].scheduled = {} /\ book[d].running = {} /\ Sound(book[d])
    BY <1>1, <1>2 DEF Agreement, BookKept, Done, Fresh
  <2>2. Sound(c) /\ NoneAgain(c) /\ SubTasks(c) = {} /\ c.killed = book[d].killed
    BY <2>1, NewStepSound
  <2>3. book' = [book EXCEPT ![d] = c]
    BY <1>1, <1>4
  <2> HIDE DEF c
  <2>4. book'[d] = c /\ \A z \in ServerRanks : z # d => book'[z] = book[z] /\ at'[z] = at[z]
    BY <1>1, <1>2, <2>3
  <2>5. \A z \in ServerRanks : (Sound(book[z]) /\ NoneAgain(book[z]))'
    <3>1. \A z \in ServerRanks : Sound(book'[z]) /\ NoneAgain(book'[z])
      BY <2>2, <2>4 DEF Fresh
    <3> QED
      BY <3>1 DEF Sound, NoneAgain, SubTasks, KilledRunners
  <2>6. ASSUME NEW e \in OtherRanks PROVE (NewsFresh(e) /\ KillTold(e))'
    <3>1. e \in ServerRanks /\ book'[0] = book[0] /\ book'[e].killed = book[e].killed
      BY <1>2, <2>2, <2>4, Ranks
    <3>2. KillTold(e)'
      BY <1>1, <3>1 DEF Fresh, KillTold
    <3>3. NewsFresh(e)
      BY DEF Fresh
    <3>4. CASE e = d
      <4>1. SubTasks(book[e])' = {}
        BY <2>2, <2>4, <3>4 DEF SubTasks
      <4>2. NewsFresh(e)'
        BY <1>1, <3>1, <3>3, <4>1 DEF NewsFresh
      <4> QED
        BY <3>2, <4>2
    <3>5. CASE e # d
      <4>1. SubTasks(book[e])' = SubTasks(book[e]) /\ at'[e] = at[e]
        BY <2>4, <3>1, <3>5 DEF SubTasks
      <4>2. NewsFresh(e)'
        BY <1>1, <3>1, <3>3, <4>1 DEF NewsFresh
      <4> QED
        BY <3>2, <4>2
    <3> QED
      BY <3>4, <3>5
  <2> QED
    BY <2>5, <2>6 DEF Fresh
<1> QED
  BY <1>3, <1>4

(* The study begins. *)
LEMMA FieldFresh ==
  ASSUME Typed, Agreement, Fresh, NEW r \in Runners, RegisterField(r)
  PROVE  Fresh'
<1>1. /\ phase = "init"
      /\ book' = [s \in ServerRanks |-> init_new_timestep(book[s])]
      /\ UNCHANGED <<at, new_task, kill_runner, outcome>>
  BY DEF RegisterField, scheduling
<1>2. ASSUME NEW s \in ServerRanks
      PROVE  /\ Sound(book'[s]) /\ NoneAgain(book'[s]) /\ SubTasks(book'[s]) = {}
             /\ book'[s].killed = book[s].killed
  <2>1. book[s] \in Book /\ book[s].scheduled = {} /\ book[s].running = {} /\ Sound(book[s])
    BY <1>1 DEF Typed, Agreement, AtStart, SubTasks, Fresh
  <2>2. book'[s] = init_new_timestep(book[s])
    BY <1>1
  <2> QED
    BY <2>1, <2>2, NewStepSound
<1>3. \A z \in ServerRanks : (Sound(book[z]) /\ NoneAgain(book[z]))'
  BY <1>2 DEF Sound, NoneAgain, SubTasks, KilledRunners
<1>4. ASSUME NEW e \in OtherRanks PROVE (NewsFresh(e) /\ KillTold(e))'
  <2>1. /\ e \in ServerRanks /\ 0 \in ServerRanks
        /\ book'[e].killed = book[e].killed /\ book'[0].killed = book[0].killed
        /\ new_task' = new_task /\ kill_runner' = kill_runner /\ outcome' = outcome
    BY <1>1, <1>2, Ranks
  <2>2. SubTasks(book[e])' = {}
    BY <1>2, <2>1 DEF SubTasks
  <2>3. NewsFresh(e) /\ KillTold(e)
    BY DEF Fresh
  <2>4. KillTold(e)'
    BY <2>1, <2>3 DEF KillTold
  <2>5. NewsFresh(e)'
    BY <2>1, <2>2, <2>3 DEF NewsFresh
  <2> QED
    BY <2>4, <2>5
<1> QED
  BY <1>3, <1>4 DEF Fresh

(* Every step keeps the tasks new. *)
LEMMA NextFresh ==
  ASSUME Typed, Agreement, Typed', Agreement', Fresh, [Next]_vars
  PROVE  Fresh'
<1>1. CASE UNCHANGED vars
  <2>1. UNCHANGED <<book, new_task, kill_runner, outcome, at>>
    BY <1>1 DEF vars, scheduling
  <2> QED
    BY <2>1, FreshFramed
<1>2. ASSUME NEW s \in ServerRanks, handle_data_response(s)
      PROVE  Fresh'
  <2>1. PICK m \in wire : RefusePart(s, m) \/ AcceptPart(s, m)
    BY <1>2 DEF handle_data_response
  <2>2. CASE RefusePart(s, m)
    <3>1. UNCHANGED <<book, new_task, kill_runner, outcome, at>>
      BY <2>2 DEF RefusePart, scheduling
    <3> QED
      BY <3>1, FreshFramed
  <2> QED
    BY <2>1, <2>2, PartFresh
<1>3. ASSUME NEW s \in ServerRanks, NEW task \in Members \X Runners, check_due_dates(s, task)
      PROVE  Fresh'
  BY <1>3, DueDateFresh
<1>4. ASSUME NEW d \in OtherRanks, check_kill_requests(d)
      PROVE  Fresh'
  BY <1>4, KillRequestFresh
<1>5. ASSUME NEW d \in OtherRanks, check_schedule_new_tasks(d)
      PROVE  Fresh'
  BY <1>5, OtherTakes
<1>6. ASSUME NEW s \in ServerRanks, check_finished(s)
      PROVE  Fresh'
  <2>1. UNCHANGED <<book, new_task, kill_runner, outcome>>
    BY <1>6 DEF check_finished, CheckFinishedFirst, CheckFinishedOther, scheduling
  <2>2. \A d \in OtherRanks : at'[d] = "loop" => at[d] = "loop"
    BY <1>6, Ranks DEF check_finished, CheckFinishedFirst, CheckFinishedOther, Typed
  <2> QED
    BY <2>1, <2>2, FreshFramed
<1>7. ASSUME NEW s \in ServerRanks, UpdateStep(s)
      PROVE  Fresh'
  BY <1>7, Ranks, FirstUpdateFresh, OtherUpdateFresh DEF UpdateStep
<1>8. ASSUME NEW r \in Runners, RegisterField(r)
      PROVE  Fresh'
  BY <1>8, FieldFresh
<1>9. ASSUME NEW r \in Runners,
             \/ register_runner_id(r) \/ FirstExpose(r) \/ Expose(r)
             \/ Finalize(r) \/ MPI_Abort(r) \/ Crash(r) \/ LauncherRemoves(r)
      PROVE  Fresh'
  <2>1. UNCHANGED <<book, new_task, kill_runner, at>>
    BY <1>9, RunnersFrame DEF scheduling
  <2>2. outcome' = outcome
    BY <1>9 DEF register_runner_id, FirstExpose, Expose, Finalize, MPI_Abort, Crash, LauncherRemoves, Leaves
  <2> QED
    BY <2>1, <2>2, FreshFramed
<1> QED
  BY <1>1, <1>2, <1>3, <1>4, <1>5, <1>6, <1>7, <1>8, <1>9, Ranks DEF Next, ServerStep, RunnerStep

(* The server starts without tasks. *)
LEMMA InitFresh == Init => Fresh
<1> SUFFICES ASSUME Init PROVE Fresh
  OBVIOUS
<1>1. \A s \in ServerRanks :
        book[s] = [unscheduled |-> {}, scheduled |-> {}, running |-> {}, finished |-> {},
                   idle |-> {}, killed |-> {}]
  BY DEF Init
<1>2. \A s \in ServerRanks : Sound(book[s]) /\ NoneAgain(book[s])
  BY <1>1 DEF Sound, NoneAgain, SubTasks
<1>3. \A d \in OtherRanks : NewsFresh(d) /\ KillTold(d)
  BY <1>1, Ranks DEF Init, NewsFresh, KillTold
<1> QED
  BY <1>2, <1>3 DEF Fresh

(* A rank can always take the task that rank 0 tells it of. *)
LEMMA TaskExpected ==
  ASSUME Typed, Agreement, Fresh, phase = "simulation", NEW d \in OtherRanks, new_task[d] # <<>>
  PROVE  ~ TaskUnexpected(d)
<1>1. Kept(d, book[d])
  BY Ranks DEF Agreement, BookKept
<1> QED
  BY <1>1, WithoutIs DEF TaskUnexpected

-----------------------------------------------------------------------------
(***************************************************************************)
(* The exchange of parts.  It is said of books bk, messages nt of rank 0   *)
(* to the other ranks, answers C that carry a state, parts wr, steps st of *)
(* the ranks and runners N that have not started, to be able to split an   *)
(* action of the server.                                                   *)
(***************************************************************************)

(* A rank is told of a task for r. *)
Listed(nt, d, r) == d \in OtherRanks /\ \E i \in DOMAIN nt[d] : nt[d][i].runner = r

(* A subtask is scheduled for r. *)
Queues(b, r, k) == \E t \in b.scheduled : t.runner = r /\ t.rank = k

(* Runner r was given state m, which it has not received on all links. *)
Has(bk, nt, C, r, m) ==
  \/ \E a \in C : a.runner = r /\ a.state = m
  \/ \E s \in ServerRanks : \E t \in bk[s].scheduled : t.runner = r /\ t.state = m
  \/ \E d \in OtherRanks : \E i \in DOMAIN nt[d] : nt[d][i].runner = r /\ nt[d][i].state = m

(* Some of it was not sent. *)
Waits(bk, nt, r) ==
  \/ \E s \in ServerRanks : \E t \in bk[s].scheduled : t.runner = r
  \/ \E d \in OtherRanks : Listed(nt, d, r)

(* On a link between a runner and the server there is one part, or one     *)
(* answer, or the runner rank is idle.                                     *)
Places(bk, C, wr) ==
  /\ \A s \in ServerRanks : \A r, k : <<r, k>> \in bk[s].idle =>
       /\ <<k, s>> \in Links
       /\ r \notin KilledRunners(bk[s])
       /\ \A p \in wr : ~ (p.to = s /\ p.runner = r /\ p.rank = k)
       /\ \A a \in C : ~ (a.from = s /\ a.runner = r /\ a.rank = k)
  /\ \A a \in C : /\ <<a.rank, a.from>> \in Links
                  /\ \A p \in wr : ~ (p.to = a.from /\ p.runner = a.runner /\ p.rank = a.rank)
  /\ \A p \in wr : <<p.rank, p.to>> \in Links
  /\ \A p, n \in wr : p.to = n.to /\ p.runner = n.runner /\ p.rank = n.rank => p = n

(* A runner is given one state at a time, for one step. *)
OneTask(bk, nt, C, st) ==
  /\ \A r, m, n : Has(bk, nt, C, r, m) /\ Has(bk, nt, C, r, n) => m = n
  /\ \A a, e \in C : a.runner = e.runner => a.step = e.step
  /\ \A a \in C : Waits(bk, nt, a.runner) => a.step = st[0]

(* A runner is given a state on all links on which it is not killed: what  *)
(* it has not got is on the way.                                           *)
Reached(bk, nt, C, wr) ==
  \A r, m : Has(bk, nt, C, r, m) =>
    /\ \A s \in ServerRanks : \A k : <<r, k>> \in bk[s].idle => Listed(nt, s, r)
    /\ \A p \in wr : p.runner = r =>
         \/ r \in KilledRunners(bk[p.to])
         \/ Listed(nt, p.to, r)
         \/ Queues(bk[p.to], r, p.rank)

(* A subtask of a rank for member m runs at r. *)
RunsAt(b, r, k, m) == \E t \in b.running : t.runner = r /\ t.rank = k /\ t.state = m

(* The task of an answer runs, or was killed. *)
Held(bk, C, st) ==
  \A a \in C : \/ <<a.state, a.runner>> \in bk[a.from].killed
               \/ a.step = st[a.from] /\ RunsAt(bk[a.from], a.runner, a.rank, a.state)

(* So it is with the part that comes of it. *)
Expected(bk, wr, st) ==
  \A p \in wr : p.step # 0 =>
    \/ <<p.state, p.runner>> \in bk[p.to].killed
    \/ p.step = st[p.to] /\ RunsAt(bk[p.to], p.runner, p.rank, p.state)

(* A runner that has not started is not idle, and has no task. *)
Absent(bk, nt, C, wr, N) ==
  \A r \in N :
    /\ \A p \in wr : p.runner # r
    /\ \A s \in ServerRanks : \A k : <<r, k>> \notin bk[s].idle
    /\ \A m : ~ Has(bk, nt, C, r, m)

(* All of this. *)
Exchange(bk, nt, C, wr, st, N) ==
  /\ Places(bk, C, wr) /\ OneTask(bk, nt, C, st) /\ Reached(bk, nt, C, wr)
  /\ Held(bk, C, st) /\ Expected(bk, wr, st) /\ Absent(bk, nt, C, wr, N)

(***************************************************************************)
(* Tasks are killed; parts and answers are lost.                           *)
(***************************************************************************)
Less(b, c) ==
  /\ c.idle \subseteq b.idle /\ c.scheduled \subseteq b.scheduled /\ b.killed \subseteq c.killed
  /\ Sound(c)
  /\ \A t \in b.running : t \in c.running \/ Task(t) \in c.killed
  /\ \A t \in b.scheduled : t \in c.scheduled \/ t.runner \in KilledRunners(c)

(* The exchange stays in order. *)
LEMMA ExchangeLess ==
  ASSUME NEW bk, NEW nt, NEW C, NEW wr, NEW st, NEW N, Exchange(bk, nt, C, wr, st, N),
         NEW bk2, \A s \in ServerRanks : Less(bk[s], bk2[s]),
         NEW C2 \in SUBSET C, NEW wr2 \in SUBSET wr, NEW N2 \in SUBSET N
  PROVE  Exchange(bk2, nt, C2, wr2, st, N2)
<1>0. /\ Places(bk, C, wr) /\ OneTask(bk, nt, C, st) /\ Reached(bk, nt, C, wr)
      /\ Held(bk, C, st) /\ Expected(bk, wr, st) /\ Absent(bk, nt, C, wr, N)
  BY DEF Exchange
<1>1. \A s \in ServerRanks :
        /\ bk2[s].idle \subseteq bk[s].idle /\ bk2[s].scheduled \subseteq bk[s].scheduled
        /\ bk[s].killed \subseteq bk2[s].killed
        /\ \A r, k : <<r, k>> \in bk2[s].idle => r \notin KilledRunners(bk2[s])
        /\ KilledRunners(bk[s]) \subseteq KilledRunners(bk2[s])
  BY DEF Less, Sound, KilledRunners
<1>2. \A r, m : Has(bk2, nt, C2, r, m) => Has(bk, nt, C, r, m)
  BY <1>1 DEF Has
<1>3. \A r : Waits(bk2, nt, r) => Waits(bk, nt, r)
  BY <1>1 DEF Waits
<1>4. \A l \in Links : l[2] \in ServerRanks
  BY ServerAssumption
<1>5. /\ \A a \in C2 : a.from \in ServerRanks
      /\ \A p \in wr2 : p.to \in ServerRanks
  <2>1. /\ \A a \in C : a.from \in ServerRanks
        /\ \A p \in wr : p.to \in ServerRanks
    BY <1>0, <1>4 DEF Places
  <2> QED
    BY <2>1
<1>6. Places(bk2, C2, wr2)
  BY <1>0, <1>1 DEF Places
<1>7. OneTask(bk2, nt, C2, st)
  BY <1>0, <1>2, <1>3 DEF OneTask
<1>8. Reached(bk2, nt, C2, wr2)
  <2> SUFFICES ASSUME NEW r, NEW m, Has(bk, nt, C, r, m)
               PROVE  /\ \A s \in ServerRanks : \A k : <<r, k>> \in bk2[s].idle => Listed(nt, s, r)
                      /\ \A p \in wr2 : p.runner = r =>
                           \/ r \in KilledRunners(bk2[p.to])
                           \/ Listed(nt, p.to, r)
                           \/ Queues(bk2[p.to], r, p.rank)
    BY <1>2 DEF Reached
  <2>1. \A s \in ServerRanks : \A k : <<r, k>> \in bk2[s].idle => Listed(nt, s, r)
    BY <1>0, <1>1 DEF Reached
  <2>2. ASSUME NEW p \in wr2, p.runner = r, Queues(bk[p.to], r, p.rank)
        PROVE  r \in KilledRunners(bk2[p.to]) \/ Queues(bk2[p.to], r, p.rank)
    BY <1>5, <2>2 DEF Queues, Less
  <2>3. \A p \in wr2 : p.runner = r =>
          \/ r \in KilledRunners(bk[p.to]) \/ Listed(nt, p.to, r) \/ Queues(bk[p.to], r, p.rank)
    BY <1>0 DEF Reached
  <2> QED
    BY <1>1, <1>5, <2>1, <2>2, <2>3
<1>9. \A s \in ServerRanks : \A r, k, m :
        RunsAt(bk[s], r, k, m) => RunsAt(bk2[s], r, k, m) \/ <<m, r>> \in bk2[s].killed
  BY DEF RunsAt, Less, Task
<1>10. Held(bk2, C2, st)
  BY <1>0, <1>1, <1>5, <1>9 DEF Held
<1>11. Expected(bk2, wr2, st)
  BY <1>0, <1>1, <1>5, <1>9 DEF Expected
<1>12. Absent(bk2, nt, C2, wr2, N2)
  BY <1>0, <1>1, <1>2 DEF Absent
<1> QED
  BY <1>6, <1>7, <1>8, <1>10, <1>11, <1>12 DEF Exchange

(***************************************************************************)
(* A rank goes to another step, with nothing running and, if it is rank 0, *)
(* nothing that waits.                                                     *)
(***************************************************************************)
LEMMA ExchangeSteps ==
  ASSUME NEW bk, NEW nt, NEW C, NEW wr, NEW st, NEW N, Exchange(bk, nt, C, wr, st, N),
         NEW bk2, NEW st2,
         \A s \in ServerRanks : /\ bk2[s].idle = bk[s].idle /\ bk2[s].killed = bk[s].killed
                                /\ bk2[s].scheduled = bk[s].scheduled /\ bk2[s].running = bk[s].running
                                /\ st2[s] = st[s] \/ bk[s].running = {},
         st2[0] = st[0] \/ \A r : ~ Waits(bk, nt, r)
  PROVE  Exchange(bk2, nt, C, wr, st2, N)
<1>0. /\ Places(bk, C, wr) /\ OneTask(bk, nt, C, st) /\ Reached(bk, nt, C, wr)
      /\ Held(bk, C, st) /\ Expected(bk, wr, st) /\ Absent(bk, nt, C, wr, N)
  BY DEF Exchange
<1>1. \A r, m : Has(bk2, nt, C, r, m) <=> Has(bk, nt, C, r, m)
  BY DEF Has
<1>2. \A r : Waits(bk2, nt, r) <=> Waits(bk, nt, r)
  BY DEF Waits
<1>3. \A s \in ServerRanks : KilledRunners(bk2[s]) = KilledRunners(bk[s])
  BY DEF KilledRunners
<1>4. \A l \in Links : l[2] \in ServerRanks
  BY ServerAssumption
<1>5. /\ \A a \in C : a.from \in ServerRanks
      /\ \A p \in wr : p.to \in ServerRanks
  BY <1>0, <1>4 DEF Places
<1>6. Places(bk2, C, wr)
  BY <1>0, <1>3 DEF Places
<1>7. OneTask(bk2, nt, C, st2)
  BY <1>0, <1>1, <1>2 DEF OneTask
<1>8. Reached(bk2, nt, C, wr)
  <2>1. \A s \in ServerRanks : \A r, k : Queues(bk2[s], r, k) <=> Queues(bk[s], r, k)
    BY DEF Queues
  <2> QED
    BY <1>0, <1>1, <1>3, <1>5, <2>1 DEF Reached
<1>9. \A s \in ServerRanks : \A r, k, m :
        RunsAt(bk[s], r, k, m) => RunsAt(bk2[s], r, k, m) /\ st2[s] = st[s]
  BY DEF RunsAt
<1>10. Held(bk2, C, st2)
  BY <1>0, <1>5, <1>9 DEF Held
<1>11. Expected(bk2, wr, st2)
  BY <1>0, <1>5, <1>9 DEF Expected
<1>12. Absent(bk2, nt, C, wr, N)
  BY <1>0, <1>1 DEF Absent
<1> QED
  BY <1>6, <1>7, <1>8, <1>10, <1>11, <1>12 DEF Exchange

(***************************************************************************)
(* A rank s with book bk[s] gets a part p, and has book c.                 *)
(***************************************************************************)

(* Nothing is scheduled, and the runner rank waits. *)
LEMMA ExchangeWaits ==
  ASSUME NEW bk, NEW nt, NEW C, NEW wr, NEW st, NEW N, Exchange(bk, nt, C, wr, st, N),
         NEW p \in wr, NEW s, s = p.to, p.runner \notin KilledRunners(bk[s]),
         ~ Queues(bk[s], p.runner, p.rank),
         NEW bk2, \A z \in ServerRanks : z # s => bk2[z] = bk[z],
         bk2[s].killed = bk[s].killed,
         bk2[s].scheduled = bk[s].scheduled,
         bk2[s].running = bk[s].running \ Awaited(bk[s], p),
         bk2[s].idle = bk[s].idle \cup {<<p.runner, p.rank>>},
         NEW wr2, wr2 = wr \ {p}
  PROVE  Exchange(bk2, nt, C, wr2, st, N)
<1>0. /\ Places(bk, C, wr) /\ OneTask(bk, nt, C, st) /\ Reached(bk, nt, C, wr)
      /\ Held(bk, C, st) /\ Expected(bk, wr, st) /\ Absent(bk, nt, C, wr, N)
  BY DEF Exchange
<1>1. \A l \in Links : l[2] \in ServerRanks
  BY ServerAssumption
<1>2. /\ s \in ServerRanks
      /\ \A a \in C : a.from \in ServerRanks
      /\ \A q \in wr : q.to \in ServerRanks
  BY <1>0, <1>1 DEF Places
<1>3. \A z \in ServerRanks : /\ bk2[z].scheduled = bk[z].scheduled /\ bk2[z].killed = bk[z].killed
                             /\ KilledRunners(bk2[z]) = KilledRunners(bk[z])
  BY <1>2 DEF KilledRunners
<1>4. \A r, m : Has(bk2, nt, C, r, m) <=> Has(bk, nt, C, r, m)
  BY <1>3 DEF Has
<1>5. \A r : Waits(bk2, nt, r) <=> Waits(bk, nt, r)
  BY <1>3 DEF Waits
<1>6. \A z \in ServerRanks : \A r, k : <<r, k>> \in bk2[z].idle =>
        <<r, k>> \in bk[z].idle \/ (z = s /\ r = p.runner /\ k = p.rank)
  <2> TAKE z \in ServerRanks
  <2> TAKE r, k
  <2>1. CASE z = s
    <3>1. <<r, k>> \in bk2[z].idle => <<r, k>> \in bk[z].idle \/ <<r, k>> = <<p.runner, p.rank>>
      BY <2>1
    <3> QED
      BY <2>1, <3>1
  <2>2. CASE z # s
    BY <2>2
  <2> QED
    BY <2>1, <2>2
<1>7. Places(bk2, C, wr2)
  <2>1. ASSUME NEW z \in ServerRanks, NEW r, NEW k, <<r, k>> \in bk2[z].idle
        PROVE  /\ <<k, z>> \in Links
               /\ r \notin KilledRunners(bk2[z])
               /\ \A n \in wr2 : ~ (n.to = z /\ n.runner = r /\ n.rank = k)
               /\ \A a \in C : ~ (a.from = z /\ a.runner = r /\ a.rank = k)
    <3>1. CASE <<r, k>> \in bk[z].idle
      BY <1>0, <1>3, <3>1 DEF Places
    <3>2. CASE z = s /\ r = p.runner /\ k = p.rank
      BY <1>0, <1>3, <3>2 DEF Places
    <3> QED
      BY <1>6, <2>1, <3>1, <3>2
  <2> QED
    BY <1>0, <2>1 DEF Places
<1>8. OneTask(bk2, nt, C, st)
  BY <1>0, <1>4, <1>5 DEF OneTask
<1>9. Reached(bk2, nt, C, wr2)
  <2> SUFFICES ASSUME NEW r, NEW m, Has(bk, nt, C, r, m)
               PROVE  /\ \A z \in ServerRanks : \A k : <<r, k>> \in bk2[z].idle => Listed(nt, z, r)
                      /\ \A n \in wr2 : n.runner = r =>
                           \/ r \in KilledRunners(bk2[n.to])
                           \/ Listed(nt, n.to, r)
                           \/ Queues(bk2[n.to], r, n.rank)
    BY <1>4 DEF Reached
  <2>1. r = p.runner => Listed(nt, s, r)
    BY <1>0 DEF Reached
  <2>2. \A z \in ServerRanks : \A k : <<r, k>> \in bk[z].idle => Listed(nt, z, r)
    BY <1>0 DEF Reached
  <2>3. \A z \in ServerRanks : \A k : Queues(bk2[z], r, k) <=> Queues(bk[z], r, k)
    BY <1>3 DEF Queues
  <2>4. \A n \in wr : n.runner = r =>
           \/ r \in KilledRunners(bk[n.to])
           \/ Listed(nt, n.to, r)
           \/ Queues(bk[n.to], r, n.rank)
    BY <1>0 DEF Reached
  <2> QED
    BY <1>2, <1>3, <1>6, <2>1, <2>2, <2>3, <2>4
<1>10. \A z \in ServerRanks : \A r, k, m :
        RunsAt(bk[z], r, k, m) => RunsAt(bk2[z], r, k, m) \/ (z = s /\ r = p.runner /\ k = p.rank)
  BY DEF RunsAt, Awaited
<1>11. Held(bk2, C, st)
  <2>1. \A a \in C : ~ (a.from = s /\ a.runner = p.runner /\ a.rank = p.rank)
    BY <1>0 DEF Places
  <2>2. ASSUME NEW a \in C
        PROVE  \/ <<a.state, a.runner>> \in bk2[a.from].killed
               \/ a.step = st[a.from] /\ RunsAt(bk2[a.from], a.runner, a.rank, a.state)
    <3>1. a.from \in ServerRanks /\ bk2[a.from].killed = bk[a.from].killed
      BY <1>2, <1>3
    <3>2. \/ <<a.state, a.runner>> \in bk[a.from].killed
          \/ a.step = st[a.from] /\ RunsAt(bk[a.from], a.runner, a.rank, a.state)
      BY <1>0 DEF Held
    <3> QED
      BY <1>10, <2>1, <3>1, <3>2
  <2> QED
    BY <2>2 DEF Held
<1>12. Expected(bk2, wr2, st)
  <2>1. \A n \in wr2 : ~ (n.to = s /\ n.runner = p.runner /\ n.rank = p.rank)
    BY <1>0 DEF Places
  <2> QED
    BY <1>0, <1>2, <1>3, <1>10, <2>1 DEF Expected
<1>13. Absent(bk2, nt, C, wr2, N)
  BY <1>0, <1>4, <1>6 DEF Absent
<1> QED
  BY <1>7, <1>8, <1>9, <1>11, <1>12, <1>13 DEF Exchange

(* A scheduled subtask t starts. *)
LEMMA ExchangeStarts ==
  ASSUME NEW bk, NEW nt, NEW C, NEW wr, NEW st, NEW N, Exchange(bk, nt, C, wr, st, N),
         NEW p \in wr, NEW s, s = p.to, st[s] = st[0],
         NEW t \in bk[s].scheduled, t.runner = p.runner, t.rank = p.rank,
         NEW bk2, \A z \in ServerRanks : z # s => bk2[z] = bk[z],
         bk2[s].killed = bk[s].killed,
         bk2[s].scheduled = bk[s].scheduled \ {t},
         bk2[s].running = (bk[s].running \ Awaited(bk[s], p)) \cup {t},
         bk2[s].idle = bk[s].idle,
         NEW wr2, wr2 = wr \ {p},
         NEW x, x.from = s, x.runner = t.runner, x.rank = t.rank, x.state = t.state, x.step = st[s],
         NEW C2, C2 = C \cup {x}
  PROVE  Exchange(bk2, nt, C2, wr2, st, N)
<1>0. /\ Places(bk, C, wr) /\ OneTask(bk, nt, C, st) /\ Reached(bk, nt, C, wr)
      /\ Held(bk, C, st) /\ Expected(bk, wr, st) /\ Absent(bk, nt, C, wr, N)
  BY DEF Exchange
<1>1. \A l \in Links : l[2] \in ServerRanks
  BY ServerAssumption
<1>2. /\ s \in ServerRanks
      /\ \A a \in C : a.from \in ServerRanks
      /\ \A q \in wr : q.to \in ServerRanks
  <2>1. /\ \A a \in C : a.from \in ServerRanks
        /\ \A q \in wr : q.to \in ServerRanks
    BY <1>0, <1>1 DEF Places
  <2> QED
    BY <2>1
<1>3. \A z \in ServerRanks : /\ bk2[z].idle = bk[z].idle /\ bk2[z].killed = bk[z].killed
                             /\ bk2[z].scheduled \subseteq bk[z].scheduled
                             /\ KilledRunners(bk2[z]) = KilledRunners(bk[z])
  BY <1>2 DEF KilledRunners
<1>4. \A r, m : Has(bk2, nt, C2, r, m) => Has(bk, nt, C, r, m)
  <2>1. Has(bk, nt, C, x.runner, x.state)
    BY <1>2 DEF Has
  <2> QED
    BY <1>3, <2>1 DEF Has
<1>5. \A r : Waits(bk2, nt, r) => Waits(bk, nt, r)
  BY <1>3 DEF Waits
<1>6. Waits(bk, nt, x.runner)
  BY <1>2 DEF Waits
<1>7. \A n \in wr2 : ~ (n.to = s /\ n.runner = p.runner /\ n.rank = p.rank)
  <2>1. \A n \in wr : p.to = n.to /\ p.runner = n.runner /\ p.rank = n.rank => p = n
    BY <1>0 DEF Places
  <2> QED
    BY <2>1
<1>8. \A a \in C : ~ (a.from = s /\ a.runner = p.runner /\ a.rank = p.rank)
  <2>1. \A a \in C : ~ (p.to = a.from /\ p.runner = a.runner /\ p.rank = a.rank)
    BY <1>0 DEF Places
  <2> QED
    BY <2>1
<1>9. Places(bk2, C2, wr2)
  <2>1. ASSUME NEW z \in ServerRanks, NEW r, NEW k, <<r, k>> \in bk2[z].idle
        PROVE  /\ <<k, z>> \in Links
               /\ r \notin KilledRunners(bk2[z])
               /\ \A n \in wr2 : ~ (n.to = z /\ n.runner = r /\ n.rank = k)
               /\ \A a \in C2 : ~ (a.from = z /\ a.runner = r /\ a.rank = k)
    <3>1. /\ <<k, z>> \in Links
          /\ r \notin KilledRunners(bk[z])
          /\ \A n \in wr : ~ (n.to = z /\ n.runner = r /\ n.rank = k)
          /\ \A a \in C : ~ (a.from = z /\ a.runner = r /\ a.rank = k)
      BY <1>0, <1>3, <2>1 DEF Places
    <3> QED
      BY <1>3, <3>1
  <2>2. \A a \in C2 : /\ <<a.rank, a.from>> \in Links
                      /\ \A n \in wr2 : ~ (n.to = a.from /\ n.runner = a.runner /\ n.rank = a.rank)
    <3> SUFFICES ASSUME NEW a \in C2
                 PROVE  /\ <<a.rank, a.from>> \in Links
                        /\ \A n \in wr2 : ~ (n.to = a.from /\ n.runner = a.runner /\ n.rank = a.rank)
      OBVIOUS
    <3>1. <<p.rank, p.to>> \in Links
      BY <1>0 DEF Places
    <3>2. CASE a = x
      BY <1>7, <3>1, <3>2
    <3>3. CASE a \in C
      BY <1>0, <3>3 DEF Places
    <3> QED
      BY <3>2, <3>3
  <2> QED
    BY <1>0, <2>1, <2>2 DEF Places
<1>10. OneTask(bk2, nt, C2, st)
  <2>1. \A a \in C : a.runner = x.runner => a.step = x.step
    BY <1>0, <1>6 DEF OneTask
  <2>2. \A a, e \in C2 : a.runner = e.runner => a.step = e.step
    BY <1>0, <2>1 DEF OneTask
  <2>3. \A a \in C2 : Waits(bk2, nt, a.runner) => a.step = st[0]
    BY <1>0, <1>5 DEF OneTask
  <2> QED
    BY <1>0, <1>4, <2>2, <2>3 DEF OneTask
<1>11. Reached(bk2, nt, C2, wr2)
  <2> SUFFICES ASSUME NEW r, NEW m, Has(bk, nt, C, r, m)
               PROVE  /\ \A z \in ServerRanks : \A k : <<r, k>> \in bk2[z].idle => Listed(nt, z, r)
                      /\ \A n \in wr2 : n.runner = r =>
                           \/ r \in KilledRunners(bk2[n.to])
                           \/ Listed(nt, n.to, r)
                           \/ Queues(bk2[n.to], r, n.rank)
    BY <1>4 DEF Reached
  <2>1. \A z \in ServerRanks : \A k : <<r, k>> \in bk2[z].idle => Listed(nt, z, r)
    BY <1>0, <1>3 DEF Reached
  <2>2. ASSUME NEW n \in wr2, n.runner = r, Queues(bk[n.to], r, n.rank)
        PROVE  Queues(bk2[n.to], r, n.rank)
    <3>1. PICK u \in bk[n.to].scheduled : u.runner = r /\ u.rank = n.rank
      BY <2>2 DEF Queues
    <3>2. n.to = s => u # t
      BY <1>7, <2>2, <3>1
    <3>3. u \in bk2[n.to].scheduled
      BY <1>2, <3>1, <3>2
    <3> QED
      BY <3>1, <3>3 DEF Queues
  <2>3. \A n \in wr : n.runner = r =>
           \/ r \in KilledRunners(bk[n.to])
           \/ Listed(nt, n.to, r)
           \/ Queues(bk[n.to], r, n.rank)
    BY <1>0 DEF Reached
  <2> QED
    BY <1>2, <1>3, <2>1, <2>2, <2>3
<1>12. \A z \in ServerRanks : \A r, k, m :
        RunsAt(bk[z], r, k, m) => RunsAt(bk2[z], r, k, m) \/ (z = s /\ r = p.runner /\ k = p.rank)
  BY DEF RunsAt, Awaited
<1>13. Held(bk2, C2, st)
  <2>1. ASSUME NEW a \in C
        PROVE  \/ <<a.state, a.runner>> \in bk2[a.from].killed
               \/ a.step = st[a.from] /\ RunsAt(bk2[a.from], a.runner, a.rank, a.state)
    <3>1. a.from \in ServerRanks /\ bk2[a.from].killed = bk[a.from].killed
      BY <1>2, <1>3
    <3>2. \/ <<a.state, a.runner>> \in bk[a.from].killed
          \/ a.step = st[a.from] /\ RunsAt(bk[a.from], a.runner, a.rank, a.state)
      BY <1>0 DEF Held
    <3> QED
      BY <1>8, <1>12, <3>1, <3>2
  <2>2. RunsAt(bk2[s], x.runner, x.rank, x.state)
    BY DEF RunsAt
  <2> QED
    BY <2>1, <2>2 DEF Held
<1>14. Expected(bk2, wr2, st)
  <2> SUFFICES ASSUME NEW n \in wr2, n.step # 0
               PROVE  \/ <<n.state, n.runner>> \in bk2[n.to].killed
                      \/ n.step = st[n.to] /\ RunsAt(bk2[n.to], n.runner, n.rank, n.state)
    BY DEF Expected
  <2>1. n.to \in ServerRanks /\ bk2[n.to].killed = bk[n.to].killed
    BY <1>2, <1>3
  <2>2. \/ <<n.state, n.runner>> \in bk[n.to].killed
        \/ n.step = st[n.to] /\ RunsAt(bk[n.to], n.runner, n.rank, n.state)
    BY <1>0 DEF Expected
  <2> QED
    BY <1>7, <1>12, <2>1, <2>2
<1>15. Absent(bk2, nt, C2, wr2, N)
  BY <1>0, <1>3, <1>4 DEF Absent
<1> QED
  BY <1>9, <1>10, <1>11, <1>13, <1>14, <1>15 DEF Exchange

(***************************************************************************)
(* Rank 0 gives new tasks T to runners that are idle there, and tells the  *)
(* other ranks by q.                                                       *)
(***************************************************************************)

(* What the other ranks have still to read, nt, gets q at its end. *)
Appended(nt, nt2, q) == \A d \in OtherRanks : nt2[d] = nt[d] \o q

(* The exchange is in order after that: nothing was meant for these runners. *)
LEMMA ExchangeGives ==
  ASSUME NEW bk, NEW nt \in [OtherRanks -> Seq(NewTask)], NEW C, NEW wr, NEW st, NEW N,
         Exchange(bk, nt, C, wr, st, N),
         NEW b \in Book, b = bk[0],
         NEW T, NEW q, NEW c, NEW rs, Deals(b, c, T, q, rs),
         \A r \in rs : \E k : <<r, k>> \in b.idle,
         NEW bk2, bk2[0] = c, \A z \in ServerRanks : z # 0 => bk2[z] = bk[z],
         NEW nt2, Appended(nt, nt2, q),
         NEW C2, C2 = C \cup launch_sub_task(0, Launched(0, b, T), st[0])
  PROVE  Exchange(bk2, nt2, C2, wr, st, N)
<1>0. /\ Places(bk, C, wr) /\ OneTask(bk, nt, C, st) /\ Reached(bk, nt, C, wr)
      /\ Held(bk, C, st) /\ Expected(bk, wr, st) /\ Absent(bk, nt, C, wr, N)
  BY DEF Exchange
<1>1. \A l \in Links : l[2] \in ServerRanks
  BY ServerAssumption
<1>2. /\ 0 \in ServerRanks /\ 0 \notin OtherRanks
      /\ \A z \in ServerRanks : z # 0 => z \in OtherRanks
      /\ \A a \in C : a.from \in ServerRanks
      /\ \A n \in wr : n.to \in ServerRanks
      /\ \A k : <<k, 0>> \in Links => k \in Linked(0)
  <2>1. /\ \A a \in C : a.from \in ServerRanks
        /\ \A n \in wr : n.to \in ServerRanks
    BY <1>0, <1>1 DEF Places
  <2>2. \A k : <<k, 0>> \in Links => k \in Linked(0)
    BY DEF Linked, RunnerRanks
  <2>3. 0 \notin OtherRanks
    BY DEF OtherRanks
  <2> QED
    BY <2>1, <2>2, <2>3, Ranks
<1>3. /\ T \subseteq NewTask /\ c = add_sub_tasks(0, b, T)
      /\ q \in Seq(NewTask)
      /\ \A t \in T : t.runner \in rs
      /\ \A t, u \in T : t.runner = u.runner => t = u
      /\ \A i \in DOMAIN q : q[i] \in T
      /\ \A t \in T : \E i \in DOMAIN q : q[i] = t
  <2>1. q \in Seq(NewTask) /\ DOMAIN q = 1 .. Len(q)
    BY DEF Deals
  <2> QED
    BY <2>1 DEF Deals
<1>4. /\ c.killed = b.killed
      /\ c.idle \subseteq b.idle
      /\ b.running \subseteq c.running
      /\ b.scheduled \subseteq c.scheduled
      /\ \A u \in c.scheduled : u \in b.scheduled \/ \E t \in T : u.runner = t.runner /\ u.state = t.state
      /\ \A t \in T, k \in Linked(0) :
           /\ <<t.runner, k>> \notin c.idle
           /\ \/ <<t.runner, k>> \in b.idle
              \/ \E u \in c.scheduled : u.runner = t.runner /\ u.rank = k
      /\ \A u \in Launched(0, b, T) :
           /\ u \in c.running /\ <<u.runner, u.rank>> \in b.idle
           /\ \E t \in T : u.runner = t.runner /\ u.state = t.state
  BY <1>2, <1>3, Added DEF Adds
<1>5. ASSUME NEW d \in OtherRanks
      PROVE  /\ \A i \in DOMAIN nt[d] : i \in DOMAIN nt2[d] /\ nt2[d][i] = nt[d][i]
             /\ \A i \in DOMAIN q : \E j \in DOMAIN nt2[d] : nt2[d][j] = q[i]
             /\ \A i \in DOMAIN nt2[d] : \/ i \in DOMAIN nt[d] /\ nt2[d][i] = nt[d][i]
                                         \/ \E j \in DOMAIN q : nt2[d][i] = q[j]
  <2>1. nt[d] \in Seq(NewTask) /\ nt2[d] = nt[d] \o q
    BY DEF Appended
  <2>2. /\ \A i \in DOMAIN nt[d] : i \in DOMAIN nt2[d] /\ nt2[d][i] = nt[d][i]
        /\ \A i \in DOMAIN q : Len(nt[d]) + i \in DOMAIN nt2[d] /\ nt2[d][Len(nt[d]) + i] = q[i]
        /\ \A i \in DOMAIN nt2[d] :
             \/ i \in DOMAIN nt[d] /\ nt2[d][i] = nt[d][i]
             \/ i - Len(nt[d]) \in DOMAIN q /\ nt2[d][i] = q[i - Len(nt[d])]
    <3>0. q \in Seq(NewTask)
      BY <1>3
    <3>1. \A l, n : l \in Seq(NewTask) /\ n = l \o q =>
            /\ \A i \in DOMAIN l : i \in DOMAIN n /\ n[i] = l[i]
            /\ \A i \in DOMAIN q : Len(l) + i \in DOMAIN n /\ n[Len(l) + i] = q[i]
            /\ \A i \in DOMAIN n : \/ i \in DOMAIN l /\ n[i] = l[i]
                                   \/ i - Len(l) \in DOMAIN q /\ n[i] = q[i - Len(l)]
      BY <3>0, Joined
    <3> QED
      BY <2>1, <3>1
  <2> QED
    BY <2>2
<1>6. \A d, r : Listed(nt2, d, r) <=> Listed(nt, d, r) \/ (d \in OtherRanks /\ \E t \in T : t.runner = r)
  <2> TAKE d, r
  <2>1. Listed(nt2, d, r) => Listed(nt, d, r) \/ (d \in OtherRanks /\ \E t \in T : t.runner = r)
    <3> SUFFICES ASSUME Listed(nt2, d, r), d \in OtherRanks
                 PROVE  Listed(nt, d, r) \/ \E t \in T : t.runner = r
      BY DEF Listed
    <3>1. PICK i \in DOMAIN nt2[d] : nt2[d][i].runner = r
      BY DEF Listed
    <3> QED
      BY <1>3, <1>5, <3>1 DEF Listed
  <2>2. Listed(nt, d, r) => Listed(nt2, d, r)
    BY <1>5 DEF Listed
  <2>3. ASSUME d \in OtherRanks, NEW t \in T, t.runner = r PROVE Listed(nt2, d, r)
    <3>1. PICK i \in DOMAIN q : q[i] = t
      BY <1>3
    <3>2. PICK j \in DOMAIN nt2[d] : nt2[d][j] = q[i]
      BY <1>5, <2>3
    <3> QED
      BY <2>3, <3>1, <3>2 DEF Listed
  <2> QED
    BY <2>1, <2>2, <2>3
<1>7. \A z \in ServerRanks : /\ bk2[z].killed = bk[z].killed /\ bk2[z].idle \subseteq bk[z].idle
                             /\ bk[z].running \subseteq bk2[z].running
                             /\ bk[z].scheduled \subseteq bk2[z].scheduled
                             /\ \A u \in bk2[z].scheduled :
                                  u \in bk[z].scheduled \/ \E t \in T : u.runner = t.runner /\ u.state = t.state
                             /\ KilledRunners(bk2[z]) = KilledRunners(bk[z])
  BY <1>2, <1>4 DEF KilledRunners
<1>8. ASSUME NEW a \in C2, a \notin C
      PROVE  /\ a.from = 0 /\ a.step = st[0]
             /\ \E t \in T : a.runner = t.runner /\ a.state = t.state
             /\ <<a.runner, a.rank>> \in b.idle
             /\ RunsAt(c, a.runner, a.rank, a.state)
  <2>1. PICK u \in Launched(0, b, T) : a = Answer(0, u.runner, u.rank, "CHANGE_STATE", u.state, st[0])
    BY <1>8 DEF launch_sub_task
  <2>2. /\ a.from = 0 /\ a.step = st[0] /\ a.runner = u.runner /\ a.rank = u.rank /\ a.state = u.state
    BY <2>1 DEF Answer
  <2> QED
    BY <1>4, <2>2 DEF RunsAt
<1>9. \A t \in T : \A m : ~ Has(bk, nt, C, t.runner, m)
  <2> SUFFICES ASSUME NEW t \in T, NEW m, Has(bk, nt, C, t.runner, m) PROVE FALSE
    OBVIOUS
  <2>1. PICK k : <<t.runner, k>> \in b.idle
    BY <1>3
  <2>2. Listed(nt, 0, t.runner)
    BY <1>0, <1>2, <2>1 DEF Reached
  <2> QED
    BY <1>2, <2>2 DEF Listed
<1>10. \A r, m : Has(bk2, nt2, C2, r, m) => Has(bk, nt, C, r, m) \/ \E t \in T : t.runner = r /\ t.state = m
  <2> SUFFICES ASSUME NEW r, NEW m, Has(bk2, nt2, C2, r, m)
               PROVE  Has(bk, nt, C, r, m) \/ \E t \in T : t.runner = r /\ t.state = m
    OBVIOUS
  <2>1. CASE \E a \in C2 : a.runner = r /\ a.state = m
    <3>1. PICK a \in C2 : a.runner = r /\ a.state = m
      BY <2>1
    <3>2. CASE a \in C
      BY <3>1, <3>2 DEF Has
    <3>3. CASE a \notin C
      BY <1>8, <3>1, <3>3
    <3> QED
      BY <3>2, <3>3
  <2>2. CASE \E s \in ServerRanks : \E t \in bk2[s].scheduled : t.runner = r /\ t.state = m
    <3>0. PICK s \in ServerRanks : \E u \in bk2[s].scheduled : u.runner = r /\ u.state = m
      BY <2>2
    <3>1. PICK u \in bk2[s].scheduled : u.runner = r /\ u.state = m
      BY <3>0
    <3>2. CASE u \in bk[s].scheduled
      BY <3>1, <3>2 DEF Has
    <3>3. CASE u \notin bk[s].scheduled
      BY <1>7, <3>1, <3>3
    <3> QED
      BY <3>2, <3>3
  <2>3. CASE \E d \in OtherRanks : \E i \in DOMAIN nt2[d] : nt2[d][i].runner = r /\ nt2[d][i].state = m
    BY <1>3, <1>5, <2>3 DEF Has
  <2> QED
    BY <2>1, <2>2, <2>3 DEF Has
<1>11. \A r : Waits(bk2, nt2, r) => Waits(bk, nt, r) \/ \E t \in T : t.runner = r
  <2> SUFFICES ASSUME NEW r, Waits(bk2, nt2, r) PROVE Waits(bk, nt, r) \/ \E t \in T : t.runner = r
    OBVIOUS
  <2>1. CASE \E s \in ServerRanks : \E u \in bk2[s].scheduled : u.runner = r
    <3>0. PICK s \in ServerRanks : \E u \in bk2[s].scheduled : u.runner = r
      BY <2>1
    <3>1. PICK u \in bk2[s].scheduled : u.runner = r
      BY <3>0
    <3>2. CASE u \in bk[s].scheduled
      BY <3>1, <3>2 DEF Waits
    <3>3. CASE u \notin bk[s].scheduled
      BY <1>7, <3>1, <3>3
    <3> QED
      BY <3>2, <3>3
  <2>2. CASE \E d \in OtherRanks : Listed(nt2, d, r)
    BY <1>6, <2>2 DEF Waits
  <2> QED
    BY <2>1, <2>2 DEF Waits
<1>12. Places(bk2, C2, wr)
  <2>1. ASSUME NEW z \in ServerRanks, NEW r, NEW k, <<r, k>> \in bk2[z].idle
        PROVE  /\ <<k, z>> \in Links
               /\ r \notin KilledRunners(bk2[z])
               /\ \A n \in wr : ~ (n.to = z /\ n.runner = r /\ n.rank = k)
               /\ \A a \in C2 : ~ (a.from = z /\ a.runner = r /\ a.rank = k)
    <3>1. /\ <<k, z>> \in Links
          /\ r \notin KilledRunners(bk2[z])
          /\ \A n \in wr : ~ (n.to = z /\ n.runner = r /\ n.rank = k)
          /\ \A a \in C : ~ (a.from = z /\ a.runner = r /\ a.rank = k)
      BY <1>0, <1>7, <2>1 DEF Places
    <3>2. ASSUME NEW a \in C2, a \notin C, a.from = z, a.runner = r, a.rank = k PROVE FALSE
      <4>1. z = 0 /\ k \in Linked(0) /\ \E t \in T : t.runner = r
        BY <1>2, <1>8, <3>1, <3>2
      <4> QED
        BY <1>4, <2>1, <4>1
    <3> QED
      BY <3>1, <3>2
  <2>2. ASSUME NEW a \in C2
        PROVE  /\ <<a.rank, a.from>> \in Links
               /\ \A n \in wr : ~ (n.to = a.from /\ n.runner = a.runner /\ n.rank = a.rank)
    <3>1. CASE a \in C
      BY <1>0, <3>1 DEF Places
    <3>2. CASE a \notin C
      <4>1. a.from = 0 /\ <<a.runner, a.rank>> \in bk[0].idle
        BY <1>8, <3>2
      <4> QED
        BY <1>0, <1>2, <4>1 DEF Places
    <3> QED
      BY <3>1, <3>2
  <2> QED
    BY <1>0, <2>1, <2>2 DEF Places
<1>13. OneTask(bk2, nt2, C2, st)
  <2>1. \A r, m, n : Has(bk2, nt2, C2, r, m) /\ Has(bk2, nt2, C2, r, n) => m = n
    <3> SUFFICES ASSUME NEW r, NEW m, NEW n, Has(bk2, nt2, C2, r, m), Has(bk2, nt2, C2, r, n)
                 PROVE  m = n
      OBVIOUS
    <3>1. CASE \E t \in T : t.runner = r
      <4>1. \A x : ~ Has(bk, nt, C, r, x)
        BY <1>9, <3>1
      <4>2. \A x : Has(bk2, nt2, C2, r, x) => \E t \in T : t.runner = r /\ t.state = x
        BY <1>10, <4>1
      <4>3. PICK t \in T : t.runner = r /\ t.state = m
        BY <4>2
      <4>4. PICK u \in T : u.runner = r /\ u.state = n
        BY <4>2
      <4> QED
        BY <1>3, <4>3, <4>4
    <3>2. CASE ~ \E t \in T : t.runner = r
      <4>1. Has(bk, nt, C, r, m) /\ Has(bk, nt, C, r, n)
        BY <1>10, <3>2
      <4> QED
        BY <1>0, <4>1 DEF OneTask
    <3> QED
      BY <3>1, <3>2
  <2>2. ASSUME NEW a \in C, NEW t \in T, a.runner = t.runner PROVE FALSE
    <3>1. Has(bk, nt, C, t.runner, a.state)
      BY <2>2 DEF Has
    <3> QED
      BY <1>9, <3>1
  <2>3. ASSUME NEW a \in C2, NEW e \in C2, a.runner = e.runner PROVE a.step = e.step
    <3>1. CASE a \in C /\ e \in C
      BY <1>0, <2>3, <3>1 DEF OneTask
    <3>2. CASE a \notin C /\ e \notin C
      BY <1>8, <3>2
    <3>3. CASE a \in C /\ e \notin C
      <4>1. \E t \in T : e.runner = t.runner
        BY <1>8, <3>3
      <4> QED
        BY <2>2, <2>3, <3>3, <4>1
    <3>4. CASE a \notin C /\ e \in C
      <4>1. \E t \in T : a.runner = t.runner
        BY <1>8, <3>4
      <4> QED
        BY <2>2, <2>3, <3>4, <4>1
    <3> QED
      BY <3>1, <3>2, <3>3, <3>4
  <2>4. ASSUME NEW a \in C2, Waits(bk2, nt2, a.runner) PROVE a.step = st[0]
    <3>1. CASE a \in C
      BY <1>0, <1>11, <2>2, <2>4, <3>1 DEF OneTask
    <3>2. CASE a \notin C
      BY <1>8, <3>2
    <3> QED
      BY <3>1, <3>2
  <2> QED
    BY <2>1, <2>3, <2>4 DEF OneTask
<1>14. Reached(bk2, nt2, C2, wr)
  <2> SUFFICES ASSUME NEW r, NEW m, Has(bk2, nt2, C2, r, m)
               PROVE  /\ \A z \in ServerRanks : \A k : <<r, k>> \in bk2[z].idle => Listed(nt2, z, r)
                      /\ \A n \in wr : n.runner = r =>
                           \/ r \in KilledRunners(bk2[n.to])
                           \/ Listed(nt2, n.to, r)
                           \/ Queues(bk2[n.to], r, n.rank)
    BY DEF Reached
  <2>1. CASE Has(bk, nt, C, r, m)
    <3>1. \A z \in ServerRanks : \A k : <<r, k>> \in bk2[z].idle => Listed(nt2, z, r)
      BY <1>0, <1>6, <1>7, <2>1 DEF Reached
    <3>2. \A z \in ServerRanks : \A k : Queues(bk[z], r, k) => Queues(bk2[z], r, k)
      BY <1>7 DEF Queues
    <3>3. \A n \in wr : n.runner = r =>
             r \in KilledRunners(bk[n.to]) \/ Listed(nt, n.to, r) \/ Queues(bk[n.to], r, n.rank)
      BY <1>0, <2>1 DEF Reached
    <3> QED
      BY <1>2, <1>6, <1>7, <3>1, <3>2, <3>3
  <2>2. ASSUME NEW t \in T, t.runner = r
        PROVE  /\ \A z \in ServerRanks : \A k : <<r, k>> \in bk2[z].idle => Listed(nt2, z, r)
               /\ \A n \in wr : n.runner = r => Listed(nt2, n.to, r) \/ Queues(bk2[n.to], r, n.rank)
    <3>1. \A d \in OtherRanks : Listed(nt2, d, r)
      BY <1>6, <2>2
    <3>2. \A k : <<r, k>> \notin bk2[0].idle
      <4> SUFFICES ASSUME NEW k, <<r, k>> \in bk2[0].idle PROVE FALSE
        OBVIOUS
      <4>1. k \in Linked(0)
        BY <1>0, <1>2, <1>7 DEF Places
      <4> QED
        BY <1>4, <2>2, <4>1
    <3>3. ASSUME NEW n \in wr, n.runner = r, n.to = 0 PROVE Queues(bk2[0], r, n.rank)
      <4>1. n.rank \in Linked(0) /\ <<r, n.rank>> \notin bk[0].idle
        BY <1>0, <1>2, <3>3 DEF Places
      <4> QED
        BY <1>4, <2>2, <4>1 DEF Queues
    <3> QED
      BY <1>2, <3>1, <3>2, <3>3
  <2> QED
    BY <1>10, <2>1, <2>2
<1>15. \A z \in ServerRanks : \A r, k, m : RunsAt(bk[z], r, k, m) => RunsAt(bk2[z], r, k, m)
  BY <1>7 DEF RunsAt
<1>16. Held(bk2, C2, st)
  <2>1. ASSUME NEW a \in C2, a \notin C
        PROVE  a.step = st[a.from] /\ RunsAt(bk2[a.from], a.runner, a.rank, a.state)
    BY <1>8, <2>1
  <2>2. ASSUME NEW a \in C
        PROVE  \/ <<a.state, a.runner>> \in bk2[a.from].killed
               \/ a.step = st[a.from] /\ RunsAt(bk2[a.from], a.runner, a.rank, a.state)
    <3>1. a.from \in ServerRanks /\ bk2[a.from].killed = bk[a.from].killed
      BY <1>2, <1>7
    <3>2. \/ <<a.state, a.runner>> \in bk[a.from].killed
          \/ a.step = st[a.from] /\ RunsAt(bk[a.from], a.runner, a.rank, a.state)
      BY <1>0 DEF Held
    <3> QED
      BY <1>15, <3>1, <3>2
  <2> QED
    BY <2>1, <2>2 DEF Held
<1>17. Expected(bk2, wr, st)
  BY <1>0, <1>2, <1>7, <1>15 DEF Expected
<1>18. Absent(bk2, nt2, C2, wr, N)
  <2>1. \A t \in T : t.runner \notin N
    BY <1>0, <1>2, <1>3 DEF Absent
  <2>2. ASSUME NEW r \in N, NEW m PROVE ~ Has(bk2, nt2, C2, r, m)
    <3>1. ~ Has(bk, nt, C, r, m)
      BY <1>0 DEF Absent
    <3> QED
      BY <1>10, <2>1, <3>1
  <2>3. \A r \in N : \A z \in ServerRanks : \A k : <<r, k>> \notin bk2[z].idle
    BY <1>0, <1>7 DEF Absent
  <2>4. \A r \in N : \A p \in wr : p.runner # r
    BY <1>0 DEF Absent
  <2> QED
    BY <2>2, <2>3, <2>4 DEF Absent
<1> QED
  BY <1>12, <1>13, <1>14, <1>16, <1>17, <1>18 DEF Exchange

(***************************************************************************)
(* Another rank takes a new task.                                          *)
(***************************************************************************)

(* Rank d reads the first task e that it is told of: nt2 is what is left.  *)
Heads(nt, nt2, d, e) ==
  /\ nt[d] # <<>> /\ e = Head(nt[d]) /\ nt2[d] = Tail(nt[d])
  /\ \A z \in OtherRanks : z # d => nt2[z] = nt[z]

(* It enters task e in its book b, which becomes c, and in the answers C. *)
Takes(d, b, c, e, C, C2, step) ==
  /\ c = add_sub_tasks(d, b, {e})
  /\ C2 = C \cup launch_sub_task(d, Launched(d, b, {e}), step)

(* The exchange is in order after that: rank 0 had announced the task. *)
LEMMA ExchangeTakes ==
  ASSUME NEW bk, NEW nt \in [OtherRanks -> Seq(NewTask)], NEW C, NEW wr, NEW st, NEW N,
         Exchange(bk, nt, C, wr, st, N),
         NEW d \in OtherRanks, st[d] = st[0],
         NEW b \in Book, b = bk[d],
         NEW e, NEW nt2, Heads(nt, nt2, d, e),
         NEW c, NEW C2, Takes(d, b, c, e, C, C2, st[d]),
         NEW bk2, bk2[d] = c, \A z \in ServerRanks : z # d => bk2[z] = bk[z]
  PROVE  Exchange(bk2, nt2, C2, wr, st, N)
<1> USE DEF Heads, Takes
<1>0. /\ Places(bk, C, wr) /\ OneTask(bk, nt, C, st) /\ Reached(bk, nt, C, wr)
      /\ Held(bk, C, st) /\ Expected(bk, wr, st) /\ Absent(bk, nt, C, wr, N)
  BY DEF Exchange
<1>1. \A l \in Links : l[2] \in ServerRanks
  BY ServerAssumption
<1>2. /\ d \in ServerRanks
      /\ \A a \in C : a.from \in ServerRanks
      /\ \A n \in wr : n.to \in ServerRanks
      /\ \A k : <<k, d>> \in Links => k \in Linked(d)
  <2>1. /\ \A a \in C : a.from \in ServerRanks
        /\ \A n \in wr : n.to \in ServerRanks
    BY <1>0, <1>1 DEF Places
  <2>2. \A k : <<k, d>> \in Links => k \in Linked(d)
    BY DEF Linked, RunnerRanks
  <2> QED
    BY <2>1, <2>2, Ranks
<1>3. /\ e \in NewTask /\ 1 \in DOMAIN nt[d] /\ nt[d][1] = e
      /\ \A i \in DOMAIN nt[d] : i = 1 \/ (i - 1 \in DOMAIN nt2[d] /\ nt2[d][i - 1] = nt[d][i])
      /\ \A i \in DOMAIN nt2[d] : i + 1 \in DOMAIN nt[d] /\ nt[d][i + 1] = nt2[d][i]
  <2>1. nt[d] \in Seq(NewTask)
    OBVIOUS
  <2>2. /\ e \in NewTask /\ 1 \in DOMAIN nt[d] /\ nt[d][1] = e
        /\ \A i \in DOMAIN nt2[d] : i + 1 \in DOMAIN nt[d] /\ nt[d][i + 1] = nt2[d][i]
    BY <2>1
  <2>3. \A i \in DOMAIN nt[d] : i = 1 \/ (i - 1 \in DOMAIN nt2[d] /\ nt2[d][i - 1] = nt[d][i])
    BY <2>1, InTail
  <2> QED
    BY <2>2, <2>3
<1>4. /\ c.killed = b.killed
      /\ c.idle \subseteq b.idle
      /\ b.running \subseteq c.running
      /\ b.scheduled \subseteq c.scheduled
      /\ \A u \in c.scheduled : u \in b.scheduled \/ (u.runner = e.runner /\ u.state = e.state)
      /\ \A k \in Linked(d) :
           /\ <<e.runner, k>> \notin c.idle
           /\ \/ <<e.runner, k>> \in b.idle
              \/ \E u \in c.scheduled : u.runner = e.runner /\ u.rank = k
      /\ \A u \in Launched(d, b, {e}) :
           /\ u \in c.running /\ <<u.runner, u.rank>> \in b.idle
           /\ u.runner = e.runner /\ u.state = e.state
  <2>1. {e} \subseteq NewTask
    BY <1>3
  <2>2. Adds(d, b, {e}, c)
    BY <1>2, <2>1, Added
  <2>3. /\ c.killed = b.killed /\ c.idle \subseteq b.idle
        /\ b.running \subseteq c.running /\ b.scheduled \subseteq c.scheduled
        /\ \A u \in c.scheduled : u \in b.scheduled \/ (u.runner = e.runner /\ u.state = e.state)
    BY <2>2 DEF Adds
  <2>4. \A k \in Linked(d) :
           /\ <<e.runner, k>> \notin c.idle
           /\ \/ <<e.runner, k>> \in b.idle
              \/ \E u \in c.scheduled : u.runner = e.runner /\ u.rank = k
    BY <2>2 DEF Adds
  <2>5. \A u \in Launched(d, b, {e}) :
           /\ u \in c.running /\ <<u.runner, u.rank>> \in b.idle
           /\ u.runner = e.runner /\ u.state = e.state
    BY <2>2 DEF Adds
  <2> QED
    BY <2>3, <2>4, <2>5
<1>5. \A z, r : Listed(nt2, z, r) => Listed(nt, z, r)
  <2> SUFFICES ASSUME NEW z \in OtherRanks, NEW i \in DOMAIN nt2[z] PROVE Listed(nt, z, nt2[z][i].runner)
    BY DEF Listed
  <2>1. CASE z = d
    BY <1>3, <2>1 DEF Listed
  <2>2. CASE z # d
    BY <2>2 DEF Listed
  <2> QED
    BY <2>1, <2>2
<1>6. \A z, r : Listed(nt, z, r) => Listed(nt2, z, r) \/ (z = d /\ r = e.runner)
  <2> SUFFICES ASSUME NEW z \in OtherRanks, NEW i \in DOMAIN nt[z],
                      z # d \/ nt[z][i].runner # e.runner
               PROVE  Listed(nt2, z, nt[z][i].runner)
    BY DEF Listed
  <2>1. CASE z = d
    <3>1. i # 1
      BY <1>3, <2>1
    <3>2. i - 1 \in DOMAIN nt2[d] /\ nt2[d][i - 1] = nt[d][i]
      BY <1>3, <2>1, <3>1
    <3> QED
      BY <2>1, <3>2 DEF Listed
  <2>2. CASE z # d
    BY <2>2 DEF Listed
  <2> QED
    BY <2>1, <2>2
<1>7. \A z \in ServerRanks : /\ bk2[z].killed = bk[z].killed /\ bk2[z].idle \subseteq bk[z].idle
                             /\ bk[z].running \subseteq bk2[z].running
                             /\ bk[z].scheduled \subseteq bk2[z].scheduled
                             /\ \A u \in bk2[z].scheduled :
                                  u \in bk[z].scheduled \/ (u.runner = e.runner /\ u.state = e.state)
                             /\ KilledRunners(bk2[z]) = KilledRunners(bk[z])
  BY <1>2, <1>4 DEF KilledRunners
<1>8. ASSUME NEW a \in C2, a \notin C
      PROVE  /\ a.from = d /\ a.step = st[0]
             /\ a.runner = e.runner /\ a.state = e.state
             /\ <<a.runner, a.rank>> \in b.idle
             /\ RunsAt(c, a.runner, a.rank, a.state)
  <2>1. PICK u \in Launched(d, b, {e}) : a = Answer(d, u.runner, u.rank, "CHANGE_STATE", u.state, st[d])
    BY <1>8 DEF launch_sub_task
  <2>2. /\ a.from = d /\ a.step = st[d] /\ a.runner = u.runner /\ a.rank = u.rank /\ a.state = u.state
    BY <2>1 DEF Answer
  <2> QED
    BY <1>4, <2>2 DEF RunsAt
<1>9. Has(bk, nt, C, e.runner, e.state) /\ Waits(bk, nt, e.runner)
  BY <1>3 DEF Has, Waits, Listed
<1>10. ASSUME NEW r, NEW m, Has(bk2, nt2, C2, r, m) PROVE Has(bk, nt, C, r, m)
  <2>1. CASE \E a \in C2 : a.runner = r /\ a.state = m
    <3>1. PICK a \in C2 : a.runner = r /\ a.state = m
      BY <2>1
    <3>2. CASE a \in C
      BY <3>1, <3>2 DEF Has
    <3>3. CASE a \notin C
      BY <1>8, <1>9, <3>1, <3>3
    <3> QED
      BY <3>2, <3>3
  <2>2. CASE \E s \in ServerRanks : \E t \in bk2[s].scheduled : t.runner = r /\ t.state = m
    <3>0. PICK s \in ServerRanks : \E u \in bk2[s].scheduled : u.runner = r /\ u.state = m
      BY <2>2
    <3>1. PICK u \in bk2[s].scheduled : u.runner = r /\ u.state = m
      BY <3>0
    <3>2. CASE u \in bk[s].scheduled
      BY <3>1, <3>2 DEF Has
    <3>3. CASE u \notin bk[s].scheduled
      BY <1>7, <1>9, <3>1, <3>3
    <3> QED
      BY <3>2, <3>3
  <2>3. CASE \E z \in OtherRanks : \E i \in DOMAIN nt2[z] : nt2[z][i].runner = r /\ nt2[z][i].state = m
    <3>0. PICK z \in OtherRanks : \E i \in DOMAIN nt2[z] : nt2[z][i].runner = r /\ nt2[z][i].state = m
      BY <2>3
    <3>1. PICK i \in DOMAIN nt2[z] : nt2[z][i].runner = r /\ nt2[z][i].state = m
      BY <3>0
    <3>2. CASE z = d
      BY <1>3, <3>1, <3>2 DEF Has
    <3>3. CASE z # d
      BY <3>1, <3>3 DEF Has
    <3> QED
      BY <3>2, <3>3
  <2> QED
    BY <1>10, <2>1, <2>2, <2>3 DEF Has
<1>11. ASSUME NEW r, Waits(bk2, nt2, r) PROVE Waits(bk, nt, r)
  <2>1. CASE \E s \in ServerRanks : \E u \in bk2[s].scheduled : u.runner = r
    <3>0. PICK s \in ServerRanks : \E u \in bk2[s].scheduled : u.runner = r
      BY <2>1
    <3>1. PICK u \in bk2[s].scheduled : u.runner = r
      BY <3>0
    <3>2. CASE u \in bk[s].scheduled
      BY <3>1, <3>2 DEF Waits
    <3>3. CASE u \notin bk[s].scheduled
      BY <1>7, <1>9, <3>1, <3>3
    <3> QED
      BY <3>2, <3>3
  <2>2. CASE \E z \in OtherRanks : Listed(nt2, z, r)
    BY <1>5, <2>2 DEF Waits
  <2> QED
    BY <1>11, <2>1, <2>2 DEF Waits
<1>12. Places(bk2, C2, wr)
  <2>1. ASSUME NEW z \in ServerRanks, NEW r, NEW k, <<r, k>> \in bk2[z].idle
        PROVE  /\ <<k, z>> \in Links
               /\ r \notin KilledRunners(bk2[z])
               /\ \A n \in wr : ~ (n.to = z /\ n.runner = r /\ n.rank = k)
               /\ \A a \in C2 : ~ (a.from = z /\ a.runner = r /\ a.rank = k)
    <3>1. /\ <<k, z>> \in Links
          /\ r \notin KilledRunners(bk2[z])
          /\ \A n \in wr : ~ (n.to = z /\ n.runner = r /\ n.rank = k)
          /\ \A a \in C : ~ (a.from = z /\ a.runner = r /\ a.rank = k)
      BY <1>0, <1>7, <2>1 DEF Places
    <3>2. ASSUME NEW a \in C2, a \notin C, a.from = z, a.runner = r, a.rank = k PROVE FALSE
      <4>1. z = d /\ k \in Linked(d) /\ r = e.runner
        BY <1>2, <1>8, <3>1, <3>2
      <4> QED
        BY <1>4, <2>1, <4>1
    <3> QED
      BY <3>1, <3>2
  <2>2. ASSUME NEW a \in C2
        PROVE  /\ <<a.rank, a.from>> \in Links
               /\ \A n \in wr : ~ (n.to = a.from /\ n.runner = a.runner /\ n.rank = a.rank)
    <3>1. CASE a \in C
      BY <1>0, <3>1 DEF Places
    <3>2. CASE a \notin C
      <4>1. a.from = d /\ <<a.runner, a.rank>> \in bk[d].idle
        BY <1>8, <3>2
      <4> QED
        BY <1>0, <1>2, <4>1 DEF Places
    <3> QED
      BY <3>1, <3>2
  <2> QED
    BY <1>0, <2>1, <2>2 DEF Places
<1>13. OneTask(bk2, nt2, C2, st)
  <2>1. \A r, m, n : Has(bk2, nt2, C2, r, m) /\ Has(bk2, nt2, C2, r, n) => m = n
    BY <1>0, <1>10 DEF OneTask
  <2>2. \A a \in C2 : a.runner = e.runner => a.step = st[0]
    BY <1>0, <1>8, <1>9 DEF OneTask
  <2>3. ASSUME NEW a \in C2, NEW x \in C2, a.runner = x.runner PROVE a.step = x.step
    <3>1. CASE a \in C /\ x \in C
      BY <1>0, <2>3, <3>1 DEF OneTask
    <3>2. CASE a \notin C \/ x \notin C
      <4>1. a.runner = e.runner
        BY <1>8, <2>3, <3>2
      <4> QED
        BY <2>2, <2>3, <4>1
    <3> QED
      BY <3>1, <3>2
  <2>4. ASSUME NEW a \in C2, Waits(bk2, nt2, a.runner) PROVE a.step = st[0]
    <3>1. CASE a \in C
      BY <1>0, <1>11, <2>4, <3>1 DEF OneTask
    <3>2. CASE a \notin C
      BY <1>8, <3>2
    <3> QED
      BY <3>1, <3>2
  <2> QED
    BY <2>1, <2>3, <2>4 DEF OneTask
<1>14. Reached(bk2, nt2, C2, wr)
  <2> SUFFICES ASSUME NEW r, NEW m, Has(bk, nt, C, r, m)
               PROVE  /\ \A z \in ServerRanks : \A k : <<r, k>> \in bk2[z].idle => Listed(nt2, z, r)
                      /\ \A n \in wr : n.runner = r =>
                           \/ r \in KilledRunners(bk2[n.to])
                           \/ Listed(nt2, n.to, r)
                           \/ Queues(bk2[n.to], r, n.rank)
    BY <1>10 DEF Reached
  <2>1. ASSUME NEW z \in ServerRanks, NEW k, <<r, k>> \in bk2[z].idle PROVE Listed(nt2, z, r)
    <3>1. Listed(nt, z, r) /\ <<k, z>> \in Links
      BY <1>0, <1>7, <2>1 DEF Reached, Places
    <3>2. ~ (z = d /\ r = e.runner)
      BY <1>2, <1>4, <2>1, <3>1
    <3> QED
      BY <1>6, <3>1, <3>2
  <2>2. \A z \in ServerRanks : \A k : Queues(bk[z], r, k) => Queues(bk2[z], r, k)
    BY <1>7 DEF Queues
  <2>3. ASSUME NEW n \in wr, n.runner = r
        PROVE  r \in KilledRunners(bk2[n.to]) \/ Listed(nt2, n.to, r) \/ Queues(bk2[n.to], r, n.rank)
    <3>1. r \in KilledRunners(bk[n.to]) \/ Listed(nt, n.to, r) \/ Queues(bk[n.to], r, n.rank)
      BY <1>0, <2>3 DEF Reached
    <3>2. ASSUME n.to = d, r = e.runner PROVE Queues(bk2[d], r, n.rank)
      <4>1. n.rank \in Linked(d) /\ <<r, n.rank>> \notin bk[d].idle
        BY <1>0, <1>2, <2>3, <3>2 DEF Places
      <4> QED
        BY <1>4, <3>2, <4>1 DEF Queues
    <3> QED
      BY <1>2, <1>6, <1>7, <2>2, <3>1, <3>2
  <2> QED
    BY <2>1, <2>3
<1>15. \A z \in ServerRanks : \A r, k, m : RunsAt(bk[z], r, k, m) => RunsAt(bk2[z], r, k, m)
  BY <1>7 DEF RunsAt
<1>16. Held(bk2, C2, st)
  <2>1. ASSUME NEW a \in C2, a \notin C
        PROVE  a.step = st[a.from] /\ RunsAt(bk2[a.from], a.runner, a.rank, a.state)
    BY <1>8, <2>1
  <2>2. ASSUME NEW a \in C
        PROVE  \/ <<a.state, a.runner>> \in bk2[a.from].killed
               \/ a.step = st[a.from] /\ RunsAt(bk2[a.from], a.runner, a.rank, a.state)
    <3>1. a.from \in ServerRanks /\ bk2[a.from].killed = bk[a.from].killed
      BY <1>2, <1>7
    <3>2. \/ <<a.state, a.runner>> \in bk[a.from].killed
          \/ a.step = st[a.from] /\ RunsAt(bk[a.from], a.runner, a.rank, a.state)
      BY <1>0 DEF Held
    <3> QED
      BY <1>15, <3>1, <3>2
  <2> QED
    BY <2>1, <2>2 DEF Held
<1>17. Expected(bk2, wr, st)
  BY <1>0, <1>2, <1>7, <1>15 DEF Expected
<1>18. Absent(bk2, nt2, C2, wr, N)
  <2>1. \A r \in N : \A m : ~ Has(bk2, nt2, C2, r, m)
    BY <1>0, <1>10 DEF Absent
  <2>2. \A r \in N : \A z \in ServerRanks : \A k : <<r, k>> \notin bk2[z].idle
    BY <1>0, <1>7 DEF Absent
  <2>3. \A r \in N : \A p \in wr : p.runner # r
    BY <1>0 DEF Absent
  <2> QED
    BY <2>1, <2>2, <2>3 DEF Absent
<1> QED
  BY <1>12, <1>13, <1>14, <1>16, <1>17, <1>18 DEF Exchange

(***************************************************************************)
(* Runner r has no task any more and sends parts P on links that are free. *)
(***************************************************************************)
LEMMA ExchangeExposes ==
  ASSUME NEW bk, NEW nt, NEW C, NEW wr, NEW st, NEW N, Exchange(bk, nt, C, wr, st, N),
         NEW r, NEW C2, \A a : a \in C2 <=> a \in C /\ a.runner # r,
         \A m : ~ Has(bk, nt, C2, r, m),
         NEW P, Expected(bk, P, st),
         \A p \in P : /\ p.runner = r /\ <<p.rank, p.to>> \in Links
                      /\ <<r, p.rank>> \notin bk[p.to].idle
                      /\ \A n \in wr : ~ (n.to = p.to /\ n.runner = r /\ n.rank = p.rank),
         \A p, n \in P : p.to = n.to /\ p.rank = n.rank => p = n,
         NEW wr2, wr2 = wr \cup P,
         NEW N2, N2 \subseteq N, r \notin N2
  PROVE  Exchange(bk, nt, C2, wr2, st, N2)
<1>0. /\ Places(bk, C, wr) /\ OneTask(bk, nt, C, st) /\ Reached(bk, nt, C, wr)
      /\ Held(bk, C, st) /\ Expected(bk, wr, st) /\ Absent(bk, nt, C, wr, N)
  BY DEF Exchange
<1>1. \A z, m : Has(bk, nt, C2, z, m) => z # r /\ Has(bk, nt, C, z, m)
  BY DEF Has
<1>2. Places(bk, C2, wr2)
  <2>1. \A s \in ServerRanks : \A z, k : <<z, k>> \in bk[s].idle =>
          /\ <<k, s>> \in Links
          /\ z \notin KilledRunners(bk[s])
          /\ \A n \in wr : ~ (n.to = s /\ n.runner = z /\ n.rank = k)
          /\ \A n \in P : ~ (n.to = s /\ n.runner = z /\ n.rank = k)
          /\ \A a \in C2 : ~ (a.from = s /\ a.runner = z /\ a.rank = k)
    <3> SUFFICES ASSUME NEW s \in ServerRanks, NEW z, NEW k, <<z, k>> \in bk[s].idle
                 PROVE  /\ <<k, s>> \in Links
                        /\ z \notin KilledRunners(bk[s])
                        /\ \A n \in wr : ~ (n.to = s /\ n.runner = z /\ n.rank = k)
                        /\ \A n \in P : ~ (n.to = s /\ n.runner = z /\ n.rank = k)
                        /\ \A a \in C2 : ~ (a.from = s /\ a.runner = z /\ a.rank = k)
      OBVIOUS
    <3>1. ASSUME NEW n \in P, n.to = s, n.runner = z, n.rank = k PROVE FALSE
      BY <3>1
    <3> QED
      BY <1>0, <3>1 DEF Places
  <2>2. \A a \in C2 : /\ <<a.rank, a.from>> \in Links
                      /\ \A n \in wr : ~ (n.to = a.from /\ n.runner = a.runner /\ n.rank = a.rank)
                      /\ \A n \in P : ~ (n.to = a.from /\ n.runner = a.runner /\ n.rank = a.rank)
    BY <1>0 DEF Places
  <2>3. \A n \in wr2 : <<n.rank, n.to>> \in Links
    BY <1>0 DEF Places
  <2>4. ASSUME NEW p \in wr2, NEW n \in wr2, p.to = n.to, p.runner = n.runner, p.rank = n.rank PROVE p = n
    <3>1. CASE p \in wr /\ n \in wr
      BY <1>0, <2>4, <3>1 DEF Places
    <3>2. CASE p \in P
      BY <2>4, <3>2
    <3>3. CASE n \in P
      BY <2>4, <3>3
    <3> QED
      BY <3>1, <3>2, <3>3
  <2> QED
    BY <2>1, <2>2, <2>3, <2>4 DEF Places
<1>3. OneTask(bk, nt, C2, st)
  BY <1>0, <1>1 DEF OneTask
<1>4. Reached(bk, nt, C2, wr2)
  <2> SUFFICES ASSUME NEW z, NEW m, z # r, Has(bk, nt, C, z, m)
               PROVE  /\ \A s \in ServerRanks : \A k : <<z, k>> \in bk[s].idle => Listed(nt, s, z)
                      /\ \A n \in wr2 : n.runner = z =>
                           \/ z \in KilledRunners(bk[n.to])
                           \/ Listed(nt, n.to, z)
                           \/ Queues(bk[n.to], z, n.rank)
    BY <1>1 DEF Reached
  <2>1. /\ \A s \in ServerRanks : \A k : <<z, k>> \in bk[s].idle => Listed(nt, s, z)
        /\ \A n \in wr : n.runner = z =>
             \/ z \in KilledRunners(bk[n.to])
             \/ Listed(nt, n.to, z)
             \/ Queues(bk[n.to], z, n.rank)
    BY <1>0 DEF Reached
  <2> QED
    BY <2>1
<1>5. Held(bk, C2, st)
  BY <1>0 DEF Held
<1>6. Expected(bk, wr2, st)
  BY <1>0 DEF Expected
<1>7. Absent(bk, nt, C2, wr2, N2)
  BY <1>0, <1>1 DEF Absent
<1> QED
  BY <1>2, <1>3, <1>4, <1>5, <1>6, <1>7 DEF Exchange

-----------------------------------------------------------------------------
(***************************************************************************)
(* The exchange in a state of the server.                                  *)
(***************************************************************************)

(* The answers that carry a state. *)
Changes(A) == {a \in A : a.type = "CHANGE_STATE"}

(* The runners that have not sent a part yet. *)
Beginners(run) == {r \in Runners : run[r] \in {"out", "field", "ready"}}

(* The exchange is in order. *)
Exchanging == Exchange(book, new_task, Changes(answers), wire, current_step, Beginners(runner))

(* The last answers to a runner, at the end of the study. *)
LastWords ==
  /\ \A a \in answers : a.type \in {"CHANGE_STATE", "END_RUNNER", "KILL_RUNNER"}
  /\ \A a \in answers : a.type = "END_RUNNER" =>
       /\ at[0] = "ended" /\ a.state = -1 /\ a.step = current_step[0]
       /\ \A e \in answers : e.type = "CHANGE_STATE" => e.runner # a.runner
  /\ at[0] = "ended" => \A d \in OtherRanks : new_task[d] = <<>>
  /\ HiddenState \/ stray = {}

(* The next state is in order if its values are. *)
LEMMA ExchangingNext ==
  ASSUME Exchange(book', new_task', Changes(answers'), wire', current_step', Beginners(runner'))
  PROVE  Exchanging'
<1>1. /\ Places(book', Changes(answers'), wire')
      /\ OneTask(book', new_task', Changes(answers'), current_step')
      /\ Reached(book', new_task', Changes(answers'), wire')
      /\ Held(book', Changes(answers'), current_step')
      /\ Expected(book', wire', current_step')
      /\ Absent(book', new_task', Changes(answers'), wire', Beginners(runner'))
  BY DEF Exchange
<1>2. Places(book, Changes(answers), wire)'
  BY <1>1 DEF Places, Changes, KilledRunners
<1>3. OneTask(book, new_task, Changes(answers), current_step)'
  BY <1>1 DEF OneTask, Changes, Has, Waits, Listed
<1>4. Reached(book, new_task, Changes(answers), wire)'
  BY <1>1 DEF Reached, Changes, Has, Listed, Queues, KilledRunners
<1>5. Held(book, Changes(answers), current_step)'
  BY <1>1 DEF Held, Changes, RunsAt
<1>6. Expected(book, wire, current_step)'
  BY <1>1 DEF Expected, RunsAt
<1>7. Absent(book, new_task, Changes(answers), wire, Beginners(runner))'
  BY <1>1 DEF Absent, Changes, Has, Beginners
<1> QED
  BY <1>2, <1>3, <1>4, <1>5, <1>6, <1>7 DEF Exchanging, Exchange

(* A rank in the main loop has the step of rank 0, which has not ended. *)
LEMMA SameStep ==
  ASSUME Typed, Agreement, NEW s \in ServerRanks, at[s] = "loop"
  PROVE  current_step[s] = current_step[0] /\ at[0] # "ended"
<1>1. CASE s = 0
  BY <1>1
<1>2. CASE s # 0
  <2>1. Follows(s) /\ at[0] \in {"loop", "update", "ended"}
    BY <1>2, Ranks DEF Agreement, Typed
  <2> QED
    BY <2>1 DEF Follows
<1> QED
  BY <1>1, <1>2

(* The answers that end or kill a runner. *)
LEMMA StopsAre ==
  ASSUME NEW s, NEW b \in Book, NEW flag, NEW r, NEW a \in Stop(s, b, r, flag)
  PROVE  /\ a.type = flag /\ a.state = -1 /\ a.step = current_step[s]
         /\ a.from = s /\ a.runner = r /\ <<r, a.rank>> \in b.idle
<1>1. PICK c \in {c \in b.idle : c[1] = r} : a = Answer(s, c[1], c[2], flag, -1, current_step[s])
  BY DEF Stop
<1>2. b.idle \subseteq Runners \X RunnerRanks
  BY DEF Book
<1>3. c = <<r, c[2]>>
  BY <1>1, <1>2
<1>4. a = [from |-> s, runner |-> r, rank |-> c[2], type |-> flag, state |-> -1, step |-> current_step[s]]
  BY <1>1 DEF Answer
<1> QED
  BY <1>1, <1>3, <1>4

(* All of a rank. *)
LEMMA AllStopsAre ==
  ASSUME NEW s, NEW b \in Book, NEW flag, NEW a \in StopAll(s, b, flag)
  PROVE  /\ a.type = flag /\ a.state = -1 /\ a.step = current_step[s]
         /\ a.from = s /\ <<a.runner, a.rank>> \in b.idle
<1>1. PICK r : a \in Stop(s, b, r, flag)
  BY DEF StopAll
<1>2. /\ a.type = flag /\ a.state = -1 /\ a.step = current_step[s]
      /\ a.from = s /\ a.runner = r /\ <<r, a.rank>> \in b.idle
  BY <1>1, StopsAre
<1> QED
  BY <1>2

(* Other answers do not change those with a state. *)
LEMMA ChangesGrow ==
  ASSUME NEW A, NEW K, \A a \in K : a.type # "CHANGE_STATE", NEW s, NEW ts, NEW step
  PROVE  Changes(A \cup K \cup launch_sub_task(s, ts, step)) = Changes(A) \cup launch_sub_task(s, ts, step)
<1>1. \A a \in launch_sub_task(s, ts, step) : a.type = "CHANGE_STATE"
  BY DEF launch_sub_task, Answer
<1> HIDE DEF launch_sub_task
<1> QED
  BY <1>1 DEF Changes

(* Rank 0 gives tasks out. *)
LEMMA GivesOutNow ==
  ASSUME Typed, NEW bk, NEW st, NEW wr, NEW N,
         Exchange(bk, new_task, Changes(answers), wr, st, N),
         NEW b \in Book, b = bk[0], \A z \in ServerRanks : z # 0 => book[z] = bk[z],
         NEW rs \in SUBSET Runners, \A r \in rs : \E k : <<r, k>> \in b.idle,
         NEW id \in Nat, NEW step, step = st[0],
         NEW K, \A a \in K : a.type = "KILL_RUNNER",
         schedule_new_task(b, rs, id, step, K)
  PROVE  /\ Exchange(book', new_task', Changes(answers'), wr, st, N)
         /\ \A a \in answers' : a \in answers \/ a.type \in {"CHANGE_STATE", "KILL_RUNNER"}
<1>1. PICK T, q, c : HandsOut(b, c, T, q, rs, step, K)
  BY Dealt
<1>2. /\ Deals(b, c, T, q, rs)
      /\ book' = [book EXCEPT ![0] = c]
      /\ new_task' = [d \in OtherRanks |-> new_task[d] \o q]
      /\ answers' = answers \cup K \cup launch_sub_task(0, Launched(0, b, T), step)
  BY <1>1 DEF HandsOut
<1>3. Changes(answers') = Changes(answers) \cup launch_sub_task(0, Launched(0, b, T), st[0])
  <2>1. \A a \in K : a.type # "CHANGE_STATE"
    OBVIOUS
  <2>2. \A ts : Changes(answers \cup K \cup launch_sub_task(0, ts, step))
                  = Changes(answers) \cup launch_sub_task(0, ts, step)
    BY <2>1, ChangesGrow
  <2> QED
    BY <1>2, <2>2
<1>4. /\ book'[0] = c /\ \A z \in ServerRanks : z # 0 => book'[z] = bk[z]
      /\ new_task \in [OtherRanks -> Seq(NewTask)]
  BY <1>2, Ranks DEF Typed
<1>5. Exchange(book', new_task', Changes(answers'), wr, st, N)
  <2> DEFINE C == Changes(answers)
             D == Changes(answers')
             ts == Launched(0, b, T)
  <2>1. /\ Deals(b, c, T, q, rs)
        /\ Appended(new_task, new_task', q)
        /\ D = C \cup launch_sub_task(0, Launched(0, b, T), st[0])
        /\ Exchange(bk, new_task, C, wr, st, N)
    BY <1>2, <1>3 DEF Appended
  <2> HIDE DEF C, D
  <2>2. Exchange(book', new_task', D, wr, st, N)
    BY <1>4, <2>1, ExchangeGives
  <2> QED
    BY <2>2 DEF D
<1>6. \A a \in launch_sub_task(0, Launched(0, b, T), step) : a.type = "CHANGE_STATE"
  BY DEF launch_sub_task, Answer
<1> QED
  BY <1>2, <1>5, <1>6

(* As long as the study goes on no runner is sent away. *)
LEMMA TalkGoesOn ==
  ASSUME LastWords, at[0] # "ended", at'[0] # "ended", HiddenState \/ stray' = stray,
         \A a \in answers' : a \in answers \/ a.type \in {"CHANGE_STATE", "KILL_RUNNER"}
  PROVE  LastWords'
BY DEF LastWords

-----------------------------------------------------------------------------
(***************************************************************************)
(* What each operation of a rank, and each step of a runner, makes of it.  *)
(***************************************************************************)

(* A part comes back. *)
LEMMA PartExchanging ==
  ASSUME Typed, Agreement, Exchanging, LastWords, NEW s \in ServerRanks, NEW m, AcceptPart(s, m)
  PROVE  Exchanging' /\ LastWords'
<1> DEFINE N == Beginners(runner)
           C == Changes(answers)
           w == wire \ {m}
<1>1. /\ at[s] = "loop" /\ m \in wire /\ m.to = s
      /\ m.runner \notin KilledRunners(book[s])
      /\ wire' = w
      /\ UNCHANGED <<at, current_step, stray, runner>>
  BY DEF AcceptPart, Arrived, Runs
<1>2. /\ current_step[s] = current_step[0] /\ at[0] # "ended" /\ at'[0] # "ended"
      /\ book \in [ServerRanks -> Book] /\ new_task \in [OtherRanks -> Seq(NewTask)] /\ task_id \in Nat
  BY <1>1, SameStep DEF Typed
<1>3. PICK c \in Book :
        /\ Exchanged(s, m, c)
        /\ \/ \E t : /\ Starts(s, m, t, c)
                     /\ book' = [book EXCEPT ![s] = c] /\ UNCHANGED scheduling
                     /\ answers' = answers \cup launch_sub_task(s, {t}, current_step[s])
           \/ /\ StaysIdle(s, m, c)
              /\ book' = [book EXCEPT ![s] = c] /\ UNCHANGED <<scheduling, answers>>
           \/ /\ s = 0 /\ StaysIdle(s, m, c)
              /\ m.runner \in CompletelyIdle(c)
              /\ schedule_new_task(c, {m.runner}, task_id, current_step[0], {})
  BY PartHandled
<1>4. Exchange(book, new_task, C, wire, current_step, N)
  BY DEF Exchanging
<1>5. c.killed = book[s].killed
  BY <1>3 DEF Exchanged
<1> HIDE DEF C, N, w
<1>6. ASSUME NEW t, Starts(s, m, t, c), book' = [book EXCEPT ![s] = c], UNCHANGED scheduling,
             answers' = answers \cup launch_sub_task(s, {t}, current_step[s])
      PROVE  Exchanging' /\ LastWords'
  <2> DEFINE x == Answer(s, t.runner, t.rank, "CHANGE_STATE", t.state, current_step[s])
  <2>1. /\ t \in book[s].scheduled /\ t.runner = m.runner /\ t.rank = m.rank
        /\ c.scheduled = book[s].scheduled \ {t}
        /\ c.running = (book[s].running \ Awaited(book[s], m)) \cup {t}
        /\ c.idle = book[s].idle
    BY <1>6 DEF Starts, Queued
  <2>2. /\ x.from = s /\ x.runner = t.runner /\ x.rank = t.rank /\ x.state = t.state
        /\ x.step = current_step[s] /\ x.type = "CHANGE_STATE"
        /\ launch_sub_task(s, {t}, current_step[s]) = {x}
    BY DEF Answer, launch_sub_task
  <2> HIDE DEF x
  <2>3. /\ book'[s] = c /\ \A z \in ServerRanks : z # s => book'[z] = book[z]
        /\ new_task' = new_task
    BY <1>2, <1>6 DEF scheduling
  <2>4. answers' = answers \cup {x} /\ Changes(answers') = C \cup {x}
    BY <1>6, <2>2 DEF Changes, C
  <2>5. Exchange(book', new_task, Changes(answers'), w, current_step, N)
    <3> DEFINE D == Changes(answers')
    <3>1. /\ m \in wire /\ s = m.to /\ current_step[s] = current_step[0]
          /\ t \in book[s].scheduled /\ t.runner = m.runner /\ t.rank = m.rank
          /\ \A z \in ServerRanks : z # s => book'[z] = book[z]
          /\ book'[s].killed = book[s].killed
          /\ book'[s].scheduled = book[s].scheduled \ {t}
          /\ book'[s].running = (book[s].running \ Awaited(book[s], m)) \cup {t}
          /\ book'[s].idle = book[s].idle
          /\ w = wire \ {m}
          /\ x.from = s /\ x.runner = t.runner /\ x.rank = t.rank /\ x.state = t.state
          /\ x.step = current_step[s]
          /\ D = C \cup {x}
      BY <1>1, <1>2, <1>5, <2>1, <2>2, <2>3, <2>4 DEF w
    <3> HIDE DEF D
    <3>2. Exchange(book', new_task, D, w, current_step, N)
      BY <1>4, <3>1, ExchangeStarts
    <3> QED
      BY <3>2 DEF D
  <2>6. Exchange(book', new_task', Changes(answers'), wire', current_step', Beginners(runner'))
    BY <1>1, <2>3, <2>5 DEF N
  <2>7. Exchanging'
    BY <2>6, ExchangingNext
  <2>8. LastWords'
    BY <1>1, <1>2, <2>2, <2>4, TalkGoesOn
  <2> QED
    BY <2>7, <2>8
<1>7. ASSUME StaysIdle(s, m, c), NEW bk, bk = [book EXCEPT ![s] = c]
      PROVE  /\ Exchange(bk, new_task, C, w, current_step, N)
             /\ <<m.runner, m.rank>> \in c.idle
  <2>1. /\ ~ Queues(book[s], m.runner, m.rank)
        /\ c.scheduled = book[s].scheduled
        /\ c.running = book[s].running \ Awaited(book[s], m)
        /\ c.idle = book[s].idle \cup {<<m.runner, m.rank>>}
    BY <1>7 DEF StaysIdle, Queues, Queued
  <2>2. bk[s] = c /\ \A z \in ServerRanks : z # s => bk[z] = book[z]
    BY <1>2, <1>7
  <2>3. Exchange(bk, new_task, C, w, current_step, N)
    BY <1>1, <1>4, <1>5, <2>1, <2>2, ExchangeWaits DEF w
  <2> QED
    BY <2>1, <2>3
<1>8. ASSUME StaysIdle(s, m, c), book' = [book EXCEPT ![s] = c], UNCHANGED <<scheduling, answers>>
      PROVE  Exchanging' /\ LastWords'
  <2>1. Exchange(book', new_task, C, w, current_step, N)
    BY <1>7, <1>8
  <2>2. Exchange(book', new_task', Changes(answers'), wire', current_step', Beginners(runner'))
    BY <1>1, <1>8, <2>1 DEF N, C, scheduling
  <2>3. LastWords'
    BY <1>1, <1>2, <1>8, TalkGoesOn
  <2> QED
    BY <2>2, <2>3, ExchangingNext
<1>9. ASSUME s = 0, StaysIdle(s, m, c), m.runner \in CompletelyIdle(c),
             schedule_new_task(c, {m.runner}, task_id, current_step[0], {})
      PROVE  Exchanging' /\ LastWords'
  <2>1. PICK bk : bk = [book EXCEPT ![0] = c]
    OBVIOUS
  <2>2. /\ Exchange(bk, new_task, C, w, current_step, N)
        /\ <<m.runner, m.rank>> \in c.idle
    BY <1>7, <1>9, <2>1
  <2>3. bk[0] = c /\ \A z \in ServerRanks : z # 0 => book[z] = bk[z]
    BY <1>2, <1>9, <2>1
  <2>4. PICK rs \in SUBSET Runners :
          /\ \A r \in rs : \E k : <<r, k>> \in c.idle
          /\ schedule_new_task(c, rs, task_id, current_step[0], {})
    <3>1. {m.runner} \in SUBSET Runners
      BY <1>9 DEF CompletelyIdle
    <3> QED
      BY <1>9, <2>2, <3>1
  <2>5. PICK K : K = {}
    OBVIOUS
  <2>6. /\ Exchange(book', new_task', Changes(answers'), w, current_step, N)
        /\ \A a \in answers' : a \in answers \/ a.type \in {"CHANGE_STATE", "KILL_RUNNER"}
    <3>1. /\ Exchange(bk, new_task, Changes(answers), w, current_step, N)
          /\ c = bk[0] /\ \A z \in ServerRanks : z # 0 => book[z] = bk[z]
          /\ \A r \in rs : \E k : <<r, k>> \in c.idle
          /\ task_id \in Nat
          /\ \A a \in K : a.type = "KILL_RUNNER"
          /\ schedule_new_task(c, rs, task_id, current_step[0], K)
      BY <1>2, <2>2, <2>3, <2>4, <2>5 DEF C
    <3> QED
      BY <3>1, GivesOutNow
  <2>7. Exchange(book', new_task', Changes(answers'), wire', current_step', Beginners(runner'))
    BY <1>1, <2>6 DEF N
  <2>8. LastWords'
    BY <1>1, <1>2, <2>6, TalkGoesOn
  <2> QED
    BY <2>7, <2>8, ExchangingNext
<1> QED
  BY <1>3, <1>6, <1>8, <1>9

(* A part is refused. *)
LEMMA RefusalExchanging ==
  ASSUME Typed, Agreement, Fresh, Exchanging, LastWords, NEW s \in ServerRanks, NEW m, RefusePart(s, m)
  PROVE  Exchanging' /\ LastWords'
<1> DEFINE x == Answer(s, m.runner, m.rank, "KILL_RUNNER", -1, current_step[s])
<1>1. /\ at[s] = "loop"
      /\ wire' = wire \ {m}
      /\ answers' = answers \cup {x}
      /\ HiddenState \/ stray' = stray
      /\ UNCHANGED <<at, current_step, book, new_task, runner>>
  BY DEF RefusePart, Arrived, Runs, scheduling
<1>2. x.type = "KILL_RUNNER"
  BY DEF Answer
<1> HIDE DEF x
<1>3. Changes(answers') = Changes(answers)
  BY <1>1, <1>2 DEF Changes
<1>4. at[0] # "ended"
  BY <1>1, SameStep
<1>5. LastWords'
  BY <1>1, <1>2, <1>4, TalkGoesOn
<1>6. \A z \in ServerRanks : Less(book[z], book[z])
  BY DEF Fresh, Less
<1>7. Exchange(book, new_task, Changes(answers), wire \ {m}, current_step, Beginners(runner))
  <2>1. \A bk, nt, C, wr, st, N, v : Exchange(bk, nt, C, wr, st, N) /\ v \subseteq wr /\ bk = book
          => Exchange(bk, nt, C, v, st, N)
    BY <1>6, ExchangeLess
  <2> QED
    BY <2>1 DEF Exchanging
<1>8. Exchange(book', new_task', Changes(answers'), wire', current_step', Beginners(runner'))
  BY <1>1, <1>3, <1>7
<1> QED
  BY <1>5, <1>8, ExchangingNext

(* A rank that gives up task x has less to do. *)
LEMMA KilledLess ==
  ASSUME NEW b \in Book, Sound(b), NoneAgain(b), NEW x \in Members \X Runners, NEW c, c = kill_task(b, x)
  PROVE  Less(b, c)
<1>1. /\ c.scheduled = {t \in b.scheduled : Task(t) # x}
      /\ c.running = {t \in b.running : Task(t) # x}
      /\ c.idle = {i \in b.idle : i[1] # x[2]}
      /\ c.killed = b.killed \cup {x}
  BY KilledIs
<1>2. Sound(c)
  BY KilledSound
<1>3. \A t : Task(t) = x => t.runner \in KilledRunners(c)
  <2> TAKE t
  <2>1. Task(t)[2] = t.runner
    BY DEF Task
  <2> QED
    BY <1>1, <2>1 DEF KilledRunners
<1> QED
  BY <1>1, <1>2, <1>3 DEF Less

(* A book that has not changed. *)
LEMMA SameLess == ASSUME NEW b, Sound(b) PROVE Less(b, b)
BY DEF Less

(* Rank 0 has less to do, and book b, before it gives out members. *)
LEMMA GivesLess ==
  ASSUME Typed, Fresh, Exchanging, NEW b \in Book, Less(book[0], b),
         NEW rs \in SUBSET Runners, \A r \in rs : \E k : <<r, k>> \in b.idle,
         NEW K, \A a \in K : a.type = "KILL_RUNNER",
         schedule_new_task(b, rs, task_id, current_step[0], K)
  PROVE  /\ Exchange(book', new_task', Changes(answers'), wire, current_step, Beginners(runner))
         /\ \A a \in answers' : a \in answers \/ a.type \in {"CHANGE_STATE", "KILL_RUNNER"}
<1> DEFINE N == Beginners(runner)
<1>0. book \in [ServerRanks -> Book] /\ 0 \in ServerRanks /\ task_id \in Nat
  BY Ranks DEF Typed
<1>1. PICK bk : bk = [book EXCEPT ![0] = b]
  OBVIOUS
<1>2. bk[0] = b /\ \A z \in ServerRanks : z # 0 => book[z] = bk[z]
  BY <1>0, <1>1
<1>3. \A z \in ServerRanks : Less(book[z], bk[z])
  <2>1. \A z \in ServerRanks : Less(book[z], book[z])
    BY SameLess DEF Fresh
  <2> QED
    BY <1>2, <2>1
<1>4. Exchange(bk, new_task, Changes(answers), wire, current_step, N)
  BY <1>3, ExchangeLess DEF Exchanging
<1> HIDE DEF N
<1>5. /\ Exchange(book', new_task', Changes(answers'), wire, current_step, N)
      /\ \A a \in answers' : a \in answers \/ a.type \in {"CHANGE_STATE", "KILL_RUNNER"}
  <2>1. /\ Exchange(bk, new_task, Changes(answers), wire, current_step, N)
        /\ b = bk[0] /\ \A z \in ServerRanks : z # 0 => book[z] = bk[z]
        /\ \A r \in rs : \E k : <<r, k>> \in b.idle
        /\ task_id \in Nat
        /\ \A a \in K : a.type = "KILL_RUNNER"
        /\ schedule_new_task(b, rs, task_id, current_step[0], K)
    BY <1>0, <1>2, <1>4
  <2> QED
    BY <2>1, GivesOutNow
<1> QED
  BY <1>5 DEF N

(* Rank 0 learns that a task failed. *)
LEMMA FailExchanging ==
  ASSUME Typed, Agreement, Fresh, Exchanging, LastWords, at[0] = "loop",
         NEW x \in Members \X Runners, FailTask(x),
         UNCHANGED <<at, current_step, stray, wire, runner>>
  PROVE  Exchanging' /\ LastWords'
<1> DEFINE b == kill_task(book[0], x)
           K == Stop(0, book[0], x[2], "KILL_RUNNER")
<1>0. book[0] \in Book
  BY Ranks DEF Typed
<1>1. \/ UNCHANGED <<book, scheduling, answers>>
      \/ schedule_new_task(b, FirstIdle(b), task_id, current_step[0], K)
  BY DEF FailTask
<1>2. CASE UNCHANGED <<book, scheduling, answers>>
  <2>1. Exchange(book', new_task', Changes(answers'), wire', current_step', Beginners(runner'))
    BY <1>2 DEF Exchanging, scheduling
  <2>2. LastWords'
    BY <1>2, TalkGoesOn
  <2> QED
    BY <2>1, <2>2, ExchangingNext
<1>3. CASE schedule_new_task(b, FirstIdle(b), task_id, current_step[0], K)
  <2>1. \A a \in K : a.type = "KILL_RUNNER"
    BY DEF Stop, Answer
  <2>2. b \in Book /\ b = kill_task(book[0], x)
    BY <1>0 DEF kill_task, Forget, Drop, Book
  <2> HIDE DEF b, K
  <2>3. FirstIdle(b) \in SUBSET Runners /\ \A r \in FirstIdle(b) : \E k : <<r, k>> \in b.idle
    BY <2>2, ChosenWait
  <2>4. /\ Exchange(book', new_task', Changes(answers'), wire, current_step, Beginners(runner))
        /\ \A a \in answers' : a \in answers \/ a.type \in {"CHANGE_STATE", "KILL_RUNNER"}
    <3>1. Less(book[0], b)
      BY <1>0, <2>2, Ranks, KilledLess DEF Fresh
    <3> QED
      BY <1>3, <2>1, <2>2, <2>3, <3>1, GivesLess
  <2>5. LastWords'
    BY <2>4, TalkGoesOn
  <2> QED
    BY <2>4, <2>5, ExchangingNext
<1> QED
  BY <1>1, <1>2, <1>3

(* A due date passes. *)
LEMMA DueDateExchanging ==
  ASSUME Typed, Agreement, Fresh, Exchanging, LastWords, NEW s \in ServerRanks,
         NEW x \in Members \X Runners, check_due_dates(s, x)
  PROVE  Exchanging' /\ LastWords'
<1>1. /\ at[s] = "loop" /\ UNCHANGED <<at, current_step, stray, wire, runner>>
      /\ book \in [ServerRanks -> Book]
  BY DEF check_due_dates, TaskDue, Runs, Typed
<1>2. CASE s = 0
  <2>1. FailTask(x)
    BY <1>2 DEF check_due_dates
  <2> QED
    BY <1>1, <1>2, <2>1, FailExchanging
<1>3. CASE s # 0
  <2> DEFINE c == kill_task(book[s], x)
             K == Stop(s, book[s], x[2], "KILL_RUNNER")
  <2>1. /\ book' = [book EXCEPT ![s] = c]
        /\ answers' = answers \cup K
        /\ new_task' = new_task
    BY <1>3 DEF check_due_dates, scheduling
  <2>2. \A a \in K : a.type = "KILL_RUNNER"
    BY DEF Stop, Answer
  <2>3. Less(book[s], c) /\ \A z \in ServerRanks : Less(book[z], book[z])
    BY <1>1, KilledLess, SameLess DEF Fresh
  <2> HIDE DEF c, K
  <2>4. \A z \in ServerRanks : Less(book[z], book'[z])
    BY <1>1, <2>1, <2>3
  <2>5. Changes(answers') = Changes(answers)
    BY <2>1, <2>2 DEF Changes
  <2>6. Exchange(book', new_task, Changes(answers), wire, current_step, Beginners(runner))
    BY <2>4, ExchangeLess DEF Exchanging
  <2>7. Exchange(book', new_task', Changes(answers'), wire', current_step', Beginners(runner'))
    BY <1>1, <2>1, <2>5, <2>6
  <2>8. at[0] # "ended"
    BY <1>1, SameStep
  <2>9. LastWords'
    BY <1>1, <2>1, <2>2, <2>8, TalkGoesOn
  <2> QED
    BY <2>7, <2>9, ExchangingNext
<1> QED
  BY <1>2, <1>3

(* Rank 0 reads that a task failed. *)
LEMMA KillRequestExchanging ==
  ASSUME Typed, Agreement, Fresh, Exchanging, LastWords, NEW d \in OtherRanks, check_kill_requests(d)
  PROVE  Exchanging' /\ LastWords'
<1> DEFINE x == Head(kill_runner[d])
<1>1. /\ at[0] = "loop" /\ UNCHANGED <<at, current_step, stray, wire, runner>>
      /\ \/ UNCHANGED <<book, scheduling, answers>>
         \/ FailTask(x)
  BY DEF check_kill_requests, Runs
<1>2. x \in Members \X Runners
  BY DEF check_kill_requests, Typed
<1> HIDE DEF x
<1>3. CASE UNCHANGED <<book, scheduling, answers>>
  <2>1. Exchange(book', new_task', Changes(answers'), wire', current_step', Beginners(runner'))
    BY <1>1, <1>3 DEF Exchanging, scheduling
  <2>2. LastWords'
    BY <1>1, <1>3, TalkGoesOn
  <2> QED
    BY <2>1, <2>2, ExchangingNext
<1> QED
  BY <1>1, <1>2, <1>3, FailExchanging

(* What rank d has without the member of its next task is less. *)
LEMMA WithoutLess ==
  ASSUME Typed, Fresh, NEW d \in OtherRanks, Kept(d, book[d]), new_task[d] # <<>>,
         NEW b, b = WithoutMember(d)
  PROVE  Less(book[d], b)
<1> DEFINE a == book[d]
           m == Head(new_task[d]).state
<1>1. /\ b.scheduled = {u \in a.scheduled : u.state # m}
      /\ b.running = {u \in a.running : u.state # m}
      /\ b.idle = {i \in a.idle : \A u \in SubTasks(a) : u.state = m => i[1] # u.runner}
      /\ b.killed = a.killed \cup {Task(u) : u \in {v \in SubTasks(a) : v.state = m}}
  BY WithoutIs
<1>2. Sound(a)
  BY Ranks DEF Fresh
<1> HIDE DEF a, m
<1>3. \A u \in SubTasks(a) : u.state = m => Task(u) \in b.killed /\ u.runner \in KilledRunners(b)
  <2> SUFFICES ASSUME NEW u \in SubTasks(a), u.state = m
               PROVE  Task(u) \in b.killed /\ u.runner \in KilledRunners(b)
    OBVIOUS
  <2>1. Task(u) \in b.killed
    BY <1>1
  <2>2. Task(u)[2] = u.runner
    BY DEF Task
  <2> QED
    BY <2>1, <2>2 DEF KilledRunners
<1>4. Sound(b)
  <2> SUFFICES ASSUME NEW r, NEW k, <<r, k>> \in b.idle, NEW x \in b.killed, x[2] = r
               PROVE  FALSE
    BY DEF Sound, KilledRunners
  <2>1. <<r, k>> \in a.idle /\ \A u \in SubTasks(a) : u.state = m => r # u.runner
    BY <1>1
  <2>2. CASE x \in a.killed
    BY <1>2, <2>1, <2>2 DEF Sound, KilledRunners
  <2>3. CASE x \notin a.killed
    <3>1. PICK u \in SubTasks(a) : u.state = m /\ x = Task(u)
      BY <1>1, <2>3
    <3> QED
      BY <2>1, <3>1 DEF Task
  <2> QED
    BY <2>2, <2>3
<1>5. \A t \in a.running : t \in b.running \/ Task(t) \in b.killed
  BY <1>1, <1>3 DEF SubTasks
<1>6. \A t \in a.scheduled : t \in b.scheduled \/ t.runner \in KilledRunners(b)
  BY <1>1, <1>3 DEF SubTasks
<1>7. Less(a, b)
  BY <1>1, <1>4, <1>5, <1>6 DEF Less
<1> QED
  BY <1>7 DEF a

(* A rank takes the next task from rank 0. *)
LEMMA NewTaskExchanging ==
  ASSUME Typed, Agreement, Fresh, Exchanging, LastWords, NEW d \in OtherRanks, check_schedule_new_tasks(d)
  PROVE  Exchanging' /\ LastWords'
<1> DEFINE nt == new_task
           K == (UNION {Stop(d, book[d], t.runner, "KILL_RUNNER") : t \in NewlyKilled(d)})
           N == Beginners(runner)
           C == Changes(answers)
<1>0. /\ d \in ServerRanks /\ d # 0 /\ 0 \in ServerRanks
      /\ book \in [ServerRanks -> Book] /\ nt \in [OtherRanks -> Seq(NewTask)]
  BY Ranks DEF Typed
<1>1. PICK b, e, c :
        /\ b = WithoutMember(d) /\ e = Head(nt[d]) /\ c = add_sub_tasks(d, b, {e})
        /\ phase = "simulation" /\ at[d] = "loop" /\ nt[d] # <<>>
        /\ book' = [book EXCEPT ![d] = c]
        /\ new_task' = [nt EXCEPT ![d] = Tail(@)]
        /\ answers' = answers \cup K \cup launch_sub_task(d, Launched(d, b, {e}), current_step[d])
        /\ UNCHANGED <<at, current_step, stray, wire, runner>>
  <2>1. /\ phase = "simulation" /\ at[d] = "loop" /\ nt[d] # <<>>
        /\ book' = [book EXCEPT ![d] = add_sub_tasks(d, WithoutMember(d), {Head(nt[d])})]
        /\ new_task' = [nt EXCEPT ![d] = Tail(@)]
        /\ answers' = answers \cup K \cup launch_sub_task(d, Launched(d, WithoutMember(d), {Head(nt[d])}),
                                                            current_step[d])
        /\ UNCHANGED <<at, current_step, stray, wire, runner>>
    <3>1. phase = "simulation" /\ at[d] = "loop" /\ nt[d] # <<>>
      BY DEF check_schedule_new_tasks, Runs
    <3>2. book' = [book EXCEPT ![d] = add_sub_tasks(d, WithoutMember(d), {Head(nt[d])})]
      BY DEF check_schedule_new_tasks
    <3>3. answers' = answers \cup K \cup launch_sub_task(d, Launched(d, WithoutMember(d), {Head(nt[d])}),
                                                            current_step[d])
      BY DEF check_schedule_new_tasks
    <3>4. new_task' = [nt EXCEPT ![d] = Tail(@)]
      BY DEF check_schedule_new_tasks
    <3>5. UNCHANGED <<at, current_step, stray, wire, runner>>
      BY DEF check_schedule_new_tasks
    <3> QED
      BY <3>1, <3>2, <3>3, <3>4, <3>5
  <2> HIDE DEF nt, K
  <2> QED
    BY <2>1
<1>2. Kept(d, book[d])
  BY <1>0, <1>1 DEF Agreement, BookKept
<1>3. Less(book[d], b) /\ \A z \in ServerRanks : Less(book[z], book[z])
  BY <1>1, <1>2, WithoutLess, SameLess DEF Fresh
<1>4. b \in Book
  BY <1>1, <1>2, WithoutIs, WithoutMemberIs
<1>5. PICK bk : bk = [book EXCEPT ![d] = b]
  OBVIOUS
<1>6. bk[d] = b /\ \A z \in ServerRanks : z # d => bk[z] = book[z]
  BY <1>0, <1>5
<1>7. \A z \in ServerRanks : Less(book[z], bk[z])
  BY <1>3, <1>6
<1>8. Exchange(bk, nt, C, wire, current_step, N)
  BY <1>7, ExchangeLess DEF Exchanging
<1>9. current_step[d] = current_step[0] /\ at[0] # "ended"
  BY <1>0, <1>1, SameStep
<1>10. \A a \in K : a.type = "KILL_RUNNER"
  BY DEF Stop, Answer
<1> HIDE DEF K
<1>11. Changes(answers') = C \cup launch_sub_task(d, Launched(d, b, {e}), current_step[d])
  <2>1. PICK L : L = K
    OBVIOUS
  <2>2. \A a \in L : a.type # "CHANGE_STATE"
    BY <1>10, <2>1
  <2>3. \A ts, step : Changes(answers \cup L \cup launch_sub_task(d, ts, step))
                        = Changes(answers) \cup launch_sub_task(d, ts, step)
    BY <2>2, ChangesGrow
  <2> QED
    BY <1>1, <2>1, <2>3
<1>12. /\ book'[d] = c /\ \A z \in ServerRanks : z # d => book'[z] = bk[z]
       /\ new_task'[d] = Tail(nt[d]) /\ \A z \in OtherRanks : z # d => new_task'[z] = nt[z]
  BY <1>0, <1>1, <1>6
<1>13. \A a \in answers' : a \in answers \/ a.type \in {"CHANGE_STATE", "KILL_RUNNER"}
  <2>1. \A a \in launch_sub_task(d, Launched(d, b, {e}), current_step[d]) : a.type = "CHANGE_STATE"
    BY DEF launch_sub_task, Answer
  <2> HIDE DEF C, N
  <2> QED
    BY <1>1, <1>10, <2>1
<1>14. Exchange(book', new_task', Changes(answers'), wire, current_step, N)
  <2> DEFINE D == Changes(answers')
  <2>1. /\ Exchange(bk, nt, C, wire, current_step, N)
        /\ nt \in [OtherRanks -> Seq(NewTask)]
        /\ current_step[d] = current_step[0]
        /\ b \in Book /\ b = bk[d]
        /\ Heads(nt, new_task', d, e)
        /\ Takes(d, b, c, e, C, D, current_step[d])
        /\ book'[d] = c /\ \A z \in ServerRanks : z # d => book'[z] = bk[z]
    BY <1>0, <1>1, <1>4, <1>6, <1>8, <1>9, <1>11, <1>12 DEF Heads, Takes
  <2> HIDE DEF D, C, N, nt
  <2>2. Exchange(book', new_task', D, wire, current_step, N)
    BY <2>1, ExchangeTakes
  <2> QED
    BY <2>2 DEF D
<1>15. Exchange(book', new_task', Changes(answers'), wire', current_step', Beginners(runner'))
  BY <1>1, <1>14
<1>16. LastWords'
  BY <1>1, <1>9, <1>13, TalkGoesOn
<1> QED
  BY <1>15, <1>16, ExchangingNext

(* A rank looks whether it has finished. *)
LEMMA FinishExchanging ==
  ASSUME Typed, Agreement, Fresh, Exchanging, LastWords, NEW s \in ServerRanks, check_finished(s)
  PROVE  Exchanging' /\ LastWords'
<1>1. /\ UNCHANGED <<book, new_task, answers, wire, current_step, runner, stray>>
      /\ at[s] = "loop"
      /\ at' = at \/ at' = [at EXCEPT ![s] = "update"]
  BY DEF check_finished, CheckFinishedFirst, CheckFinishedOther, WouldFinish, Runs, scheduling, runners
<1>2. Exchange(book', new_task', Changes(answers'), wire', current_step', Beginners(runner'))
  BY <1>1 DEF Exchanging
<1>3. at[0] # "ended" /\ at'[0] # "ended"
  BY <1>1, SameStep, Ranks DEF Typed
<1>4. LastWords'
  BY <1>1, <1>3, TalkGoesOn
<1> QED
  BY <1>2, <1>4, ExchangingNext

(* A new step begins with an empty book, but the runners stay where they are. *)
LEMMA StepsLike ==
  ASSUME NEW b \in Book, NEW c, c = init_new_timestep(b)
  PROVE  /\ c \in Book
         /\ c.idle = b.idle /\ c.killed = b.killed /\ c.scheduled = b.scheduled /\ c.running = b.running
BY DEF init_new_timestep, Book

(* A runner that is idle at a rank that is told of no task has no answer   *)
(* with a state.                                                           *)
LEMMA IdleHasNone ==
  ASSUME Exchanging, NEW s \in ServerRanks, s = 0 \/ new_task[s] = <<>>,
         NEW a, <<a.runner, a.rank>> \in book[s].idle,
         NEW e \in answers, e.type = "CHANGE_STATE"
  PROVE  e.runner # a.runner
<1> SUFFICES ASSUME e.runner = a.runner PROVE FALSE
  OBVIOUS
<1>1. e \in Changes(answers)
  BY DEF Changes
<1>2. Has(book, new_task, Changes(answers), e.runner, e.state)
  BY <1>1 DEF Has
<1>3. Reached(book, new_task, Changes(answers), wire)
  BY DEF Exchanging, Exchange
<1>4. Listed(new_task, s, a.runner)
  BY <1>2, <1>3 DEF Reached
<1> QED
  BY <1>4, Ranks DEF Listed

(* The ranks stop. *)
LEMMA StoppingAre ==
  ASSUME NEW s \in ServerRanks, book[s] \in Book, NEW n, NEW a \in Stopping(s, n)
  PROVE  /\ a.type \in {"END_RUNNER", "KILL_RUNNER"}
         /\ a.state = -1 /\ a.step = current_step[s]
         /\ <<a.runner, a.rank>> \in book[s].idle
<1>1. PICK flag \in {"END_RUNNER", "KILL_RUNNER"}, b \in Book : b = book[s] /\ a \in StopAll(s, b, flag)
  BY DEF Stopping
<1>2. /\ a.type = flag /\ a.state = -1 /\ a.step = current_step[s]
      /\ <<a.runner, a.rank>> \in b.idle
  BY <1>1, AllStopsAre
<1> QED
  BY <1>1, <1>2

(* At the end all answers to idle runners of a rank are stops. *)
LEMMA EndsTalk ==
  ASSUME Typed, Exchanging, LastWords, NEW s \in ServerRanks, s = 0 \/ new_task[s] = <<>>,
         current_step[s] = current_step[0], NEW n, answers' = answers \cup Stopping(s, n),
         at'[0] = "ended", \A d \in OtherRanks : new_task[d] = <<>>,
         at[0] = "ended" \/ \A a \in answers : a.type # "END_RUNNER",
         UNCHANGED <<current_step, stray, new_task>>
  PROVE  LastWords' /\ Changes(answers') = Changes(answers)
<1>1. \A a \in Stopping(s, n) :
        /\ a.type \in {"END_RUNNER", "KILL_RUNNER"}
        /\ a.state = -1 /\ a.step = current_step[0]
        /\ <<a.runner, a.rank>> \in book[s].idle
  BY StoppingAre DEF Typed
<1>2. \A e \in answers' : e.type = "CHANGE_STATE" => e \in answers
  BY <1>1
<1>3. Changes(answers') = Changes(answers)
  BY <1>2 DEF Changes
<1>4. \A a \in answers' : a.type \in {"CHANGE_STATE", "END_RUNNER", "KILL_RUNNER"}
  BY <1>1 DEF LastWords
<1>5. ASSUME NEW a \in answers', a.type = "END_RUNNER"
      PROVE  /\ a.state = -1 /\ a.step = current_step[0]
             /\ \A e \in answers : e.type = "CHANGE_STATE" => e.runner # a.runner
  <2>1. CASE a \in answers
    BY <1>5, <2>1 DEF LastWords
  <2>2. CASE a \in Stopping(s, n)
    BY <1>1, <2>2, IdleHasNone
  <2> QED
    BY <2>1, <2>2
<1>6. LastWords'
  <2>1. current_step'[0] = current_step[0] /\ new_task' = new_task /\ stray' = stray
    OBVIOUS
  <2> QED
    BY <1>2, <1>4, <1>5, <2>1 DEF LastWords
<1> QED
  BY <1>3, <1>6

(* No rank has anything left when rank 0 is in the update step. *)
LEMMA NothingWaits ==
  ASSUME Typed, Agreement, at[0] = "update"
  PROVE  /\ \A s \in ServerRanks : Done(book[s])
         /\ \A d \in OtherRanks : new_task[d] = <<>>
         /\ \A r : ~ Waits(book, new_task, r)
<1>1. \A d \in OtherRanks : HasAllTasks(d) /\ at[d] \in {"loop", "update"}
  BY DEF Agreement, Follows
<1>2. \A s \in ServerRanks : Done(book[s])
  <2> TAKE s \in ServerRanks
  <2>1. CASE at[s] = "update"
    BY <2>1 DEF Agreement, BookKept
  <2>2. CASE at[s] # "update"
    <3>1. s \in OtherRanks /\ HasAllTasks(s) /\ at[s] = "loop" /\ Reported(s)
      BY <1>1, <2>2, Ranks DEF Agreement
    <3> QED
      BY <3>1 DEF HasAllTasks, Reported
  <2> QED
    BY <2>1, <2>2
<1>3. \A d \in OtherRanks : new_task[d] = <<>>
  BY <1>1 DEF HasAllTasks
<1>4. \A r : ~ Waits(book, new_task, r)
  BY <1>2, <1>3 DEF Waits, Listed, Done
<1> QED
  BY <1>2, <1>3, <1>4

(* Rank 0 leaves the update step. *)
LEMMA FirstUpdateExchanging ==
  ASSUME Typed, Agreement, Fresh, Exchanging, LastWords, UpdateFirst
  PROVE  Exchanging' /\ LastWords'
<1> DEFINE N == Beginners(runner)
           C == Changes(answers)
<1>0. /\ book \in [ServerRanks -> Book] /\ 0 \in ServerRanks
      /\ current_step \in [ServerRanks -> Nat] /\ at \in [ServerRanks -> {"loop", "update", "ended"}]
  BY Ranks DEF Typed
<1>1. PICK n \in {do_update_step(current_step[0]), -2} :
        /\ at[0] = "update" /\ at' = [at EXCEPT ![0] = IF n < 0 THEN "ended" ELSE "loop"]
        /\ current_step' = [current_step EXCEPT ![0] = IF n < 0 THEN @ ELSE @ + n]
        /\ IF n < 0 THEN answers' = answers \cup Stopping(0, n) /\ UNCHANGED <<book, scheduling>>
           ELSE schedule_new_task(init_new_timestep(book[0]), CompletelyIdle(init_new_timestep(book[0])), 1,
                                  current_step[0] + n, {})
        /\ UNCHANGED <<stray, runner, wire>>
  BY DEF UpdateFirst, NextStep
<1>2. /\ \A s \in ServerRanks : Done(book[s])
      /\ \A d \in OtherRanks : new_task[d] = <<>>
      /\ \A r : ~ Waits(book, new_task, r)
  BY <1>1, NothingWaits
<1>3. n \in {NSteps, -1, -2}
  BY DEF do_update_step
<1>4. CASE n < 0
  <2>1. /\ current_step' = current_step /\ at'[0] = "ended" /\ book' = book /\ new_task' = new_task
        /\ answers' = answers \cup Stopping(0, n)
    BY <1>0, <1>1, <1>4 DEF scheduling
  <2>2. \A a \in answers : a.type # "END_RUNNER"
    BY <1>1 DEF LastWords
  <2>3. LastWords' /\ Changes(answers') = Changes(answers)
    BY <1>0, <1>1, <1>2, <2>1, <2>2, EndsTalk
  <2>4. Exchange(book', new_task', Changes(answers'), wire', current_step', Beginners(runner'))
    BY <1>1, <2>1, <2>3 DEF Exchanging
  <2> QED
    BY <2>3, <2>4, ExchangingNext
<1>5. CASE ~ n < 0
  <2>1. PICK b : b = init_new_timestep(book[0])
    OBVIOUS
  <2>2. /\ b \in Book
        /\ b.idle = book[0].idle /\ b.killed = book[0].killed
        /\ b.scheduled = book[0].scheduled /\ b.running = book[0].running
    BY <1>0, <2>1, StepsLike
  <2>3. PICK bk, st : bk = [book EXCEPT ![0] = b] /\ st = current_step'
    OBVIOUS
  <2>4. /\ bk[0] = b /\ \A z \in ServerRanks : z # 0 => book[z] = bk[z]
        /\ st[0] = current_step[0] + n /\ \A z \in ServerRanks : z # 0 => st[z] = current_step[z]
        /\ at'[0] = "loop"
    BY <1>0, <1>1, <1>5, <2>3
  <2>5. Exchange(bk, new_task, C, wire, st, N)
    <3>1. \A z \in ServerRanks :
            /\ bk[z].idle = book[z].idle /\ bk[z].killed = book[z].killed
            /\ bk[z].scheduled = book[z].scheduled /\ bk[z].running = book[z].running
            /\ st[z] = current_step[z] \/ book[z].running = {}
      BY <1>2, <2>2, <2>4 DEF Done
    <3> QED
      BY <1>2, <3>1, ExchangeSteps DEF Exchanging
  <2>6. CompletelyIdle(b) \in SUBSET Runners /\ \A r \in CompletelyIdle(b) : \E k : <<r, k>> \in b.idle
    BY <2>2, ChosenWait
  <2>7. PICK rs \in SUBSET Runners, id \in Nat : \E K, step :
          /\ \A r \in rs : \E k : <<r, k>> \in b.idle
          /\ \A a \in K : a.type = "KILL_RUNNER"
          /\ step = st[0]
          /\ schedule_new_task(b, rs, id, step, K)
    <3>1. schedule_new_task(b, CompletelyIdle(b), 1, current_step[0] + n, {})
      BY <1>1, <1>5, <2>1
    <3>2. PICK K : K = {}
      OBVIOUS
    <3>3. PICK rs \in SUBSET Runners : rs = CompletelyIdle(b)
      BY <2>6
    <3>4. PICK step : step = st[0]
      OBVIOUS
    <3>5. PICK id \in Nat : id = 1
      OBVIOUS
    <3>6. schedule_new_task(b, rs, id, step, K)
      BY <2>4, <3>1, <3>2, <3>3, <3>4, <3>5
    <3>7. (\A r \in rs : \E k : <<r, k>> \in b.idle) /\ \A a \in K : a.type = "KILL_RUNNER"
      BY <2>6, <3>2, <3>3
    <3> QED
      BY <3>4, <3>6, <3>7
  <2>8. PICK K, step :
          /\ \A r \in rs : \E k : <<r, k>> \in b.idle
          /\ \A a \in K : a.type = "KILL_RUNNER"
          /\ step = st[0]
          /\ schedule_new_task(b, rs, id, step, K)
    BY <2>7
  <2> HIDE DEF C, N
  <2>9. /\ Exchange(book', new_task', Changes(answers'), wire, st, N)
        /\ \A a \in answers' : a \in answers \/ a.type \in {"CHANGE_STATE", "KILL_RUNNER"}
    <3>1. /\ Exchange(bk, new_task, Changes(answers), wire, st, N)
          /\ b \in Book /\ b = bk[0] /\ \A z \in ServerRanks : z # 0 => book[z] = bk[z]
          /\ \A r \in rs : \E k : <<r, k>> \in b.idle
          /\ \A a \in K : a.type = "KILL_RUNNER"
          /\ step = st[0]
          /\ schedule_new_task(b, rs, id, step, K)
      BY <2>2, <2>4, <2>5, <2>8 DEF C
    <3> QED
      BY <3>1, GivesOutNow
  <2>10. Exchange(book', new_task', Changes(answers'), wire', current_step', Beginners(runner'))
    BY <1>1, <2>3, <2>9 DEF N
  <2>11. LastWords'
    BY <1>1, <2>4, <2>9, TalkGoesOn
  <2> QED
    BY <2>10, <2>11, ExchangingNext
<1> QED
  BY <1>4, <1>5

(* Another rank leaves it. *)
LEMMA OtherUpdateExchanging ==
  ASSUME Typed, Agreement, Exchanging, LastWords, NEW d \in OtherRanks, UpdateOther(d)
  PROVE  Exchanging' /\ LastWords'
<1>0. /\ book \in [ServerRanks -> Book] /\ 0 \in ServerRanks /\ d \in ServerRanks /\ d # 0
      /\ current_step \in [ServerRanks -> Nat] /\ at \in [ServerRanks -> {"loop", "update", "ended"}]
      /\ nsteps[d] \in StepCounts
  BY Ranks DEF Typed
<1>1. /\ at[d] = "update" /\ nsteps[d] # None
      /\ at' = [at EXCEPT ![d] = IF nsteps[d] < 0 THEN "ended" ELSE "loop"]
      /\ current_step' = [current_step EXCEPT ![d] = IF nsteps[d] < 0 THEN @ ELSE @ + nsteps[d]]
      /\ IF nsteps[d] < 0 THEN answers' = answers \cup Stopping(d, nsteps[d]) /\ UNCHANGED book
         ELSE book' = [book EXCEPT ![d] = init_new_timestep(@)] /\ UNCHANGED answers
      /\ UNCHANGED <<stray, runner, wire, new_task>>
  BY DEF UpdateOther, NextStep, scheduling
<1>2. Follows(d) /\ at'[0] = at[0] /\ Done(book[d])
  BY <1>0, <1>1 DEF Agreement, BookKept
<1>3. CASE nsteps[d] < 0
  <2>1. at[0] = "ended" /\ current_step[d] = current_step[0]
    BY <1>0, <1>1, <1>2, <1>3 DEF Follows, NSteps
  <2>2. current_step' = current_step /\ book' = book /\ answers' = answers \cup Stopping(d, nsteps[d])
    BY <1>0, <1>1, <1>3
  <2>3. \A e \in OtherRanks : new_task[e] = <<>>
    BY <2>1 DEF LastWords
  <2>4. LastWords' /\ Changes(answers') = Changes(answers)
    BY <1>0, <1>1, <1>2, <2>1, <2>2, <2>3, EndsTalk
  <2>5. Exchange(book', new_task', Changes(answers'), wire', current_step', Beginners(runner'))
    BY <1>1, <2>2, <2>4 DEF Exchanging
  <2> QED
    BY <2>4, <2>5, ExchangingNext
<1>4. CASE ~ nsteps[d] < 0
  <2>1. at[0] # "ended"
    BY <1>0, <1>1, <1>2, <1>4 DEF Follows, NSteps
  <2>2. PICK bk, st : bk = book' /\ st = current_step'
    OBVIOUS
  <2>3. /\ bk[d] = init_new_timestep(book[d]) /\ \A z \in ServerRanks : z # d => bk[z] = book[z]
        /\ \A z \in ServerRanks : z # d => st[z] = current_step[z]
    BY <1>0, <1>1, <1>4, <2>2
  <2>4. /\ bk[d].idle = book[d].idle /\ bk[d].killed = book[d].killed
        /\ bk[d].scheduled = book[d].scheduled /\ bk[d].running = book[d].running
    BY <1>0, <2>3, StepsLike
  <2>5. \A z \in ServerRanks :
          /\ bk[z].idle = book[z].idle /\ bk[z].killed = book[z].killed
          /\ bk[z].scheduled = book[z].scheduled /\ bk[z].running = book[z].running
          /\ st[z] = current_step[z] \/ book[z].running = {}
    BY <1>2, <2>3, <2>4 DEF Done
  <2>6. Exchange(bk, new_task, Changes(answers), wire, st, Beginners(runner))
    BY <1>0, <2>3, <2>5, ExchangeSteps DEF Exchanging
  <2>7. Exchange(book', new_task', Changes(answers'), wire', current_step', Beginners(runner'))
    BY <1>1, <1>4, <2>2, <2>6
  <2>8. LastWords'
    BY <1>1, <1>2, <1>4, <2>1, TalkGoesOn
  <2> QED
    BY <2>7, <2>8, ExchangingNext
<1> QED
  BY <1>3, <1>4

(* Every runner is in one of these states. *)
Lives == runner \in [Runners -> {"out", "field", "ready", "alive", "over", "dead"}]

(* The study begins. *)
LEMMA FieldExchanging ==
  ASSUME Typed, Agreement, Exchanging, LastWords, Lives, NEW r \in Runners, RegisterField(r)
  PROVE  Exchanging' /\ LastWords'
<1>1. /\ phase = "init" /\ runner[r] = "field" /\ runner' = [runner EXCEPT ![r] = "ready"]
      /\ book' = [s \in ServerRanks |-> init_new_timestep(book[s])]
      /\ UNCHANGED <<at, new_task, answers, wire, stray>>
  BY DEF RegisterField, scheduling
<1>2. /\ \A s \in ServerRanks : SubTasks(book[s]) = {} /\ at[s] = "loop" /\ book[s] \in Book
      /\ \A d \in OtherRanks : new_task[d] = <<>>
  BY <1>1 DEF Agreement, AtStart, Typed
<1>3. PICK bk, st : bk = book' /\ st = current_step'
  OBVIOUS
<1>4. \A s \in ServerRanks :
        /\ bk[s].idle = book[s].idle /\ bk[s].killed = book[s].killed
        /\ bk[s].scheduled = book[s].scheduled /\ bk[s].running = book[s].running
        /\ st[s] = current_step[s] \/ book[s].running = {}
  BY <1>1, <1>2, <1>3, StepsLike DEF SubTasks
<1>5. \A z : ~ Waits(book, new_task, z)
  BY <1>2 DEF Waits, Listed, SubTasks
<1>6. Exchange(bk, new_task, Changes(answers), wire, st, Beginners(runner))
  BY <1>4, <1>5, ExchangeSteps DEF Exchanging
<1>7. Beginners(runner') = Beginners(runner)
  BY <1>1 DEF Beginners, Lives
<1>8. Exchange(book', new_task', Changes(answers'), wire', current_step', Beginners(runner'))
  BY <1>1, <1>3, <1>6, <1>7
<1>9. LastWords'
  BY <1>1, <1>2, Ranks, TalkGoesOn
<1> QED
  BY <1>8, <1>9, ExchangingNext

(* Every step leaves the runners in one of their states. *)
LEMMA LivesNext ==
  ASSUME Lives, [Next]_vars
  PROVE  Lives'
<1>1. runner' = runner \/ \E r \in Runners, l \in {"field", "ready", "alive", "over", "dead"} :
                            runner' = [runner EXCEPT ![r] = l]
  <2>1. CASE UNCHANGED vars
    BY <2>1 DEF vars, runners
  <2>2. ASSUME NEW s \in ServerRanks, ServerStep(s) PROVE runner' = runner
    BY <2>2 DEF ServerStep, handle_data_response, RefusePart, AcceptPart, check_due_dates, check_kill_requests,
       check_schedule_new_tasks, check_finished, CheckFinishedFirst, CheckFinishedOther, runners,
       UpdateStep, UpdateFirst, UpdateOther
  <2>3. ASSUME NEW r \in Runners, RunnerStep(r) \/ Crash(r) \/ LauncherRemoves(r)
        PROVE  runner' = runner \/ \E l \in {"field", "ready", "alive", "over", "dead"} :
                                     runner' = [runner EXCEPT ![r] = l]
    BY <2>3 DEF RunnerStep, Crash, LauncherRemoves, register_runner_id, RegisterField, FirstExpose, Expose,
       Finalize, MPI_Abort, Leaves
  <2> QED
    BY <2>1, <2>2, <2>3 DEF Next
<1> QED
  BY <1>1 DEF Lives

(* What is said at the end stays when nothing is added. *)
LEMMA FewerWords ==
  ASSUME LastWords, UNCHANGED <<at, current_step, new_task, stray>>, answers' \subseteq answers
  PROVE  LastWords'
BY DEF LastWords

(* A runner registers. *)
LEMMA RegisterExchanging ==
  ASSUME Exchanging, LastWords, Lives, NEW r \in Runners, register_runner_id(r)
  PROVE  Exchanging' /\ LastWords'
<1>1. /\ runner[r] = "out" /\ \E l \in {"field", "ready"} : runner' = [runner EXCEPT ![r] = l]
      /\ UNCHANGED <<at, current_step, book, new_task, stray, wire, answers>>
  BY DEF register_runner_id, scheduling
<1>2. Beginners(runner') = Beginners(runner)
  BY <1>1 DEF Beginners, Lives
<1>3. Exchange(book', new_task', Changes(answers'), wire', current_step', Beginners(runner'))
  BY <1>1, <1>2 DEF Exchanging
<1>4. LastWords'
  BY <1>1, FewerWords
<1> QED
  BY <1>3, <1>4, ExchangingNext

(* A runner that has started leaves, or some of what it sent is lost. *)
LEMMA LeavesExchanging ==
  ASSUME Fresh, Exchanging, LastWords, Lives, NEW r \in Runners,
         Finalize(r) \/ MPI_Abort(r) \/ Crash(r) \/ LauncherRemoves(r)
  PROVE  Exchanging' /\ LastWords'
<1>1. /\ runner[r] = "alive" /\ \E l \in {"over", "dead"} : runner' = [runner EXCEPT ![r] = l]
      /\ answers' \subseteq answers
      /\ wire' \subseteq wire
      /\ UNCHANGED <<at, current_step, book, new_task, stray>>
  BY DEF Finalize, MPI_Abort, Crash, LauncherRemoves, Leaves, scheduling
<1>2. Beginners(runner') = Beginners(runner)
  BY <1>1 DEF Beginners, Lives
<1>3. Changes(answers') \subseteq Changes(answers)
  BY <1>1 DEF Changes
<1>4. \A s \in ServerRanks : Less(book[s], book[s])
  BY SameLess DEF Fresh
<1>5. Exchange(book, new_task, Changes(answers'), wire', current_step, Beginners(runner))
  <2>1. PICK C2, wr2 : /\ C2 = Changes(answers') /\ wr2 = wire'
                       /\ C2 \in SUBSET Changes(answers) /\ wr2 \in SUBSET wire
    BY <1>1, <1>3
  <2>2. Exchange(book, new_task, C2, wr2, current_step, Beginners(runner))
    BY <1>4, <2>1, ExchangeLess DEF Exchanging
  <2> QED
    BY <2>1, <2>2
<1>6. Exchange(book', new_task', Changes(answers'), wire', current_step', Beginners(runner'))
  BY <1>1, <1>2, <1>5
<1>7. LastWords'
  BY <1>1, FewerWords
<1> QED
  BY <1>6, <1>7, ExchangingNext

(* A link. *)
LEMMA LinkIs ==
  ASSUME NEW l \in Links
  PROVE  l = <<l[1], l[2]>> /\ l[1] \in RunnerRanks /\ l[2] \in ServerRanks /\ l[2] \in ServersOf(l[1])
BY ServerAssumption DEF RunnerRanks, ServersOf

(* A runner sends its first parts. *)
LEMMA FirstExposeExchanging ==
  ASSUME Exchanging, LastWords, Lives, NEW r \in Runners, FirstExpose(r)
  PROVE  Exchanging' /\ LastWords'
<1> DEFINE P == {Part(l[1], l[2], r, -1, 0) : l \in Links}
           C == Changes(answers)
           N == Beginners(runner)
<1>1. /\ runner[r] = "ready" /\ runner' = [runner EXCEPT ![r] = "alive"]
      /\ wire' = wire \cup P
      /\ UNCHANGED <<at, current_step, book, new_task, stray, answers>>
  BY DEF FirstExpose, scheduling
<1>2. r \in N /\ Beginners(runner') \subseteq N /\ r \notin Beginners(runner')
  BY <1>1 DEF Beginners, Lives
<1>3. /\ \A p \in wire : p.runner # r
      /\ \A s \in ServerRanks : \A k : <<r, k>> \notin book[s].idle
      /\ \A m : ~ Has(book, new_task, C, r, m)
  BY <1>2 DEF Exchanging, Exchange, Absent
<1>4. \A a : a \in C <=> a \in C /\ a.runner # r
  BY <1>3 DEF Has
<1>5. \A p \in P : /\ p.runner = r /\ p.step = 0 /\ p.state = -1 /\ <<p.rank, p.to>> \in Links /\ p.to \in ServerRanks
                   /\ p = Part(p.rank, p.to, r, -1, 0)
  BY LinkIs DEF Part
<1> HIDE DEF P, C, N
<1>6. Expected(book, P, current_step)
  BY <1>5 DEF Expected
<1>7. \A p \in P : /\ p.runner = r /\ <<p.rank, p.to>> \in Links
                   /\ <<r, p.rank>> \notin book[p.to].idle
                   /\ \A n \in wire : ~ (n.to = p.to /\ n.runner = r /\ n.rank = p.rank)
  BY <1>3, <1>5
<1>8. \A p, n \in P : p.to = n.to /\ p.rank = n.rank => p = n
  BY <1>5
<1>9. PICK w, N2 : /\ w = wire' /\ N2 = Beginners(runner')
                   /\ w = wire \cup P /\ N2 \subseteq N /\ r \notin N2
  BY <1>1, <1>2
<1>10. Exchange(book, new_task, C, wire, current_step, N)
  BY DEF Exchanging, C, N
<1>11. Exchange(book, new_task, C, w, current_step, N2)
  BY <1>3, <1>4, <1>6, <1>7, <1>8, <1>9, <1>10, ExchangeExposes
<1>12. Exchange(book', new_task', Changes(answers'), wire', current_step', Beginners(runner'))
  BY <1>1, <1>9, <1>11 DEF C
<1>13. LastWords'
  BY <1>1, FewerWords
<1> QED
  BY <1>12, <1>13, ExchangingNext

(* A runner with an answer on all links has nothing scheduled. *)
LEMMA NothingScheduled ==
  ASSUME Typed, Agreement, Fresh, Exchanging, NEW r,
         \A l \in Links : \E a \in Changes(answers) : a.runner = r /\ a.rank = l[1] /\ a.from = l[2],
         NEW s \in ServerRanks, NEW t \in book[s].scheduled, t.runner = r
  PROVE  FALSE
<1> DEFINE C == Changes(answers)
           b == book[s]
<1>1. t \in SubTasks(b) /\ b \in Book
  BY DEF SubTasks, Typed
<1>2. Kept(s, b)
  BY <1>1 DEF Agreement, AtStart, BookKept, Typed
<1>3. t.state \in Members /\ t.state \notin b.unscheduled /\ t \in OfMember(b, t.state)
  BY <1>1, <1>2, SubTaskTypes, OneRunner DEF OfMember
<1>4. t.rank \in Linked(s)
  BY <1>2, <1>3 DEF Kept
<1>5. <<t.rank, s>> \in Links
  BY <1>4 DEF Linked
<1>6. PICK a \in C : a.runner = r /\ a.rank = t.rank /\ a.from = s
  BY <1>5
<1>7. a.state = t.state
  <2>1. Has(book, new_task, C, r, a.state) /\ Has(book, new_task, C, r, t.state)
    BY <1>6 DEF Has
  <2> QED
    BY <2>1 DEF Exchanging, Exchange, OneTask
<1>8. \/ <<a.state, a.runner>> \in b.killed
      \/ RunsAt(b, a.runner, a.rank, a.state)
  BY <1>6 DEF Exchanging, Exchange, Held
<1>9. CASE <<a.state, a.runner>> \in b.killed
  BY <1>1, <1>6, <1>7, <1>9 DEF Fresh, NoneAgain, Task
<1>10. CASE RunsAt(b, a.runner, a.rank, a.state)
  <2>1. PICK u \in b.running : u.runner = r /\ u.rank = t.rank /\ u.state = t.state
    BY <1>6, <1>7, <1>10 DEF RunsAt
  <2>2. u \in OfMember(b, t.state)
    BY <2>1 DEF OfMember, SubTasks
  <2>3. t = u
    BY <1>2, <1>3, <2>1, <2>2 DEF Kept
  <2> QED
    BY <1>2, <2>1, <2>3 DEF Kept
<1> QED
  BY <1>8, <1>9, <1>10

(* And no rank is told of a task for it. *)
LEMMA NothingListed ==
  ASSUME Typed, Agreement, Fresh, Exchanging, LastWords, NEW r,
         \A l \in Links : \E a \in Changes(answers) : a.runner = r /\ a.rank = l[1] /\ a.from = l[2],
         NEW d \in OtherRanks, NEW i \in DOMAIN new_task[d], new_task[d][i].runner = r
  PROVE  FALSE
<1> DEFINE C == Changes(answers)
           b == book[d]
           x == new_task[d][i]
<1>0. d \in ServerRanks /\ at[d] \in {"loop", "update", "ended"}
  BY Ranks DEF Typed
<1>1. PICK k \in Linked(d) : TRUE
  BY <1>0, EveryRankIsLinked
<1>2. <<k, d>> \in Links
  BY <1>1 DEF Linked
<1>3. PICK a \in C : a.runner = r /\ a.rank = k /\ a.from = d
  BY <1>2
<1>4. a.state = x.state
  <2>1. Has(book, new_task, C, r, a.state) /\ Has(book, new_task, C, r, x.state)
    BY <1>3 DEF Has
  <2> QED
    BY <2>1 DEF Exchanging, Exchange, OneTask
<1>5. \/ <<a.state, a.runner>> \in b.killed
      \/ RunsAt(b, a.runner, a.rank, a.state)
  BY <1>3 DEF Exchanging, Exchange, Held
<1>6. NewsFresh(d)
  BY DEF Fresh
<1>7. CASE <<a.state, a.runner>> \in b.killed
  BY <1>3, <1>4, <1>6, <1>7 DEF NewsFresh, Task
<1>8. CASE RunsAt(b, a.runner, a.rank, a.state)
  <2>1. PICK u \in b.running : u.runner = r /\ u.state = x.state
    BY <1>3, <1>4, <1>8 DEF RunsAt
  <2>2. CASE at[d] = "loop"
    <3>1. u \in SubTasks(b) /\ Task(u) = Task(x)
      BY <2>1 DEF SubTasks, Task
    <3> QED
      BY <1>6, <2>2, <3>1 DEF NewsFresh
  <2>3. CASE at[d] = "update"
    BY <1>0, <2>1, <2>3 DEF Agreement, BookKept, Done
  <2>4. CASE at[d] = "ended"
    <3>1. at[0] = "ended"
      BY <2>4, Ranks DEF Agreement, Follows, Typed
    <3> QED
      BY <3>1 DEF LastWords
  <2> QED
    BY <1>0, <2>2, <2>3, <2>4
<1> QED
  BY <1>5, <1>7, <1>8

(* A set of ranks has a last one. *)
LEMMA LastRank ==
  ASSUME NEW S \in SUBSET ServerRanks, S # {}
  PROVE  \E n \in S : \A m \in S : m <= n
<1> DEFINE T == {CommSize - n : n \in S}
<1>1. CommSize \in Nat /\ \A n \in S : n \in Nat /\ n <= CommSize - 1
  BY ServerAssumption DEF ServerRanks
<1>2. T \in SUBSET Nat /\ T # {}
  BY <1>1
<1> HIDE DEF T
<1>3. PICK x \in T : \A y \in T : x <= y
  BY <1>2, LeastNat
<1>4. PICK n \in S : x = CommSize - n
  BY <1>3 DEF T
<1>5. \A m \in S : CommSize - n <= CommSize - m
  BY <1>3, <1>4 DEF T
<1> QED
  BY <1>1, <1>4, <1>5

(* A rank of a runner that has all its answers sends what the last says. *)
LEMMA LastAnswerIs ==
  ASSUME NEW r, NEW k \in RunnerRanks, Answered(r, k) = ServersOf(k)
  PROVE  LastAnswer(r, k) \in AnswersTo(r) /\ LastAnswer(r, k).rank = k
<1>1. ServersOf(k) \in SUBSET ServerRanks /\ ServersOf(k) # {}
  BY LinkIs DEF ServersOf, RunnerRanks
<1>2. PICK n \in Answered(r, k) : \A m \in Answered(r, k) : m <= n
  BY <1>1, LastRank
<1>3. PICK a \in AnswersTo(r) : a.rank = k /\ a.from = n
  BY <1>2 DEF Answered
<1>4. \E e \in AnswersTo(r) : e.rank = k /\ \A s \in Answered(r, k) : s <= e.from
  BY <1>2, <1>3
<1> QED
  BY <1>4 DEF LastAnswer

(* A runner sends the parts that it has propagated. *)
LEMMA ExposeExchanging ==
  ASSUME Typed, Agreement, Fresh, Exchanging, LastWords, NEW r \in Runners, Expose(r)
  PROVE  Exchanging' /\ LastWords'
<1> DEFINE A == AnswersTo(r)
           C == Changes(answers)
           N == Beginners(runner)
           P == {LET a == LastAnswer(r, l[1]) IN Part(l[1], l[2], r, a.state, a.step) : l \in Links}
<1>1. /\ runner[r] = "alive"
      /\ \A k \in RunnerRanks : Answered(r, k) = ServersOf(k)
      /\ \A a \in A : a.type = "CHANGE_STATE"
      /\ answers' = answers \ A
      /\ wire' = wire \cup P
      /\ UNCHANGED <<at, current_step, book, new_task, stray, runner>>
  BY DEF Expose, scheduling
<1>2. \A a : a \in A <=> a \in C /\ a.runner = r
  BY <1>1 DEF AnswersTo, Changes
<1>3. ASSUME NEW l \in Links
      PROVE  \E a \in C : a.runner = r /\ a.rank = l[1] /\ a.from = l[2]
  <2>1. l[2] \in Answered(r, l[1])
    BY <1>1, LinkIs
  <2> QED
    BY <1>2, <2>1 DEF Answered
<1>4. Exchange(book, new_task, C, wire, current_step, N)
  BY DEF Exchanging
<1>5. \A a, e \in C : a.runner = r /\ e.runner = r => a.state = e.state /\ a.step = e.step
  <2> SUFFICES ASSUME NEW a \in C, NEW e \in C, a.runner = r, e.runner = r
               PROVE  a.state = e.state /\ a.step = e.step
    OBVIOUS
  <2>1. Has(book, new_task, C, r, a.state) /\ Has(book, new_task, C, r, e.state)
    BY DEF Has
  <2> QED
    BY <1>4, <2>1 DEF Exchange, OneTask
<1>6. ASSUME NEW C2, \A a : a \in C2 <=> a \in C /\ a.runner # r, NEW m
      PROVE  ~ Has(book, new_task, C2, r, m)
  <2>1. ~ \E a \in C2 : a.runner = r /\ a.state = m
    BY <1>6
  <2>2. ~ \E s \in ServerRanks : \E t \in book[s].scheduled : t.runner = r /\ t.state = m
    BY <1>3, NothingScheduled
  <2>3. ~ \E d \in OtherRanks : \E i \in DOMAIN new_task[d] : new_task[d][i].runner = r /\ new_task[d][i].state = m
    BY <1>3, NothingListed
  <2> QED
    BY <2>1, <2>2, <2>3 DEF Has
<1>7. \A l \in Links : LastAnswer(r, l[1]) \in C /\ LastAnswer(r, l[1]).runner = r
  BY <1>1, <1>2, LinkIs, LastAnswerIs
<1>8. \A p \in P : \E a \in C : /\ a.runner = r /\ a.rank = p.rank /\ a.from = p.to
                                /\ a.state = p.state /\ a.step = p.step
                                /\ p.runner = r /\ <<p.rank, p.to>> \in Links /\ p.to \in ServerRanks
                                /\ p = Part(p.rank, p.to, r, a.state, a.step)
  <2> SUFFICES ASSUME NEW l \in Links, NEW e, e = LastAnswer(r, l[1]), NEW p, p = Part(l[1], l[2], r, e.state, e.step)
               PROVE  \E a \in C : /\ a.runner = r /\ a.rank = p.rank /\ a.from = p.to
                                   /\ a.state = p.state /\ a.step = p.step
                                   /\ p.runner = r /\ <<p.rank, p.to>> \in Links /\ p.to \in ServerRanks
                                   /\ p = Part(p.rank, p.to, r, a.state, a.step)
    OBVIOUS
  <2>1. PICK a \in C : a.runner = r /\ a.rank = l[1] /\ a.from = l[2]
    BY <1>3
  <2>2. a.state = e.state /\ a.step = e.step
    BY <1>5, <1>7, <2>1
  <2>3. /\ p.rank = l[1] /\ p.to = l[2] /\ p.runner = r /\ p.state = e.state /\ p.step = e.step
        /\ p = Part(p.rank, p.to, r, p.state, p.step)
    BY DEF Part
  <2>4. <<p.rank, p.to>> \in Links /\ p.to \in ServerRanks
    BY <2>3, LinkIs
  <2> QED
    BY <2>1, <2>2, <2>3, <2>4
<1> HIDE DEF P, C, N, A
<1>9. Expected(book, P, current_step)
  <2> SUFFICES ASSUME NEW p \in P
               PROVE  \/ <<p.state, p.runner>> \in book[p.to].killed
                      \/ p.step = current_step[p.to] /\ RunsAt(book[p.to], p.runner, p.rank, p.state)
    BY DEF Expected
  <2>1. PICK a \in C : /\ a.runner = r /\ a.rank = p.rank /\ a.from = p.to
                       /\ a.state = p.state /\ a.step = p.step /\ p.runner = r
    BY <1>8
  <2>2. \/ <<a.state, a.runner>> \in book[a.from].killed
        \/ a.step = current_step[a.from] /\ RunsAt(book[a.from], a.runner, a.rank, a.state)
    BY <1>4 DEF Exchange, Held
  <2> QED
    BY <2>1, <2>2
<1>10. \A p \in P : /\ p.runner = r /\ <<p.rank, p.to>> \in Links
                    /\ <<r, p.rank>> \notin book[p.to].idle
                    /\ \A n \in wire : ~ (n.to = p.to /\ n.runner = r /\ n.rank = p.rank)
  <2> TAKE p \in P
  <2>1. PICK a \in C : /\ a.runner = r /\ a.rank = p.rank /\ a.from = p.to /\ p.runner = r
                       /\ <<p.rank, p.to>> \in Links /\ p.to \in ServerRanks
    BY <1>8
  <2>2. Places(book, C, wire)
    BY <1>4 DEF Exchange
  <2>3. <<r, p.rank>> \notin book[p.to].idle
    BY <2>1, <2>2 DEF Places
  <2>4. \A n \in wire : ~ (n.to = p.to /\ n.runner = r /\ n.rank = p.rank)
    BY <2>1, <2>2 DEF Places
  <2> QED
    BY <2>1, <2>3, <2>4
<1>11. \A p, n \in P : p.to = n.to /\ p.rank = n.rank => p = n
  BY <1>5, <1>8
<1>12. PICK w, C2 : /\ w = wire' /\ C2 = Changes(answers')
                    /\ w = wire \cup P /\ \A a : a \in C2 <=> a \in C /\ a.runner # r
  <2>1. \A a : a \in Changes(answers') <=> a \in C /\ a.runner # r
    BY <1>1, <1>2 DEF Changes, C
  <2> QED
    BY <1>1, <2>1
<1>13. r \notin N
  BY <1>1 DEF Beginners, N
<1>14. \A m : ~ Has(book, new_task, C2, r, m)
  BY <1>6, <1>12
<1>15. PICK N2 : N2 = N /\ N2 \subseteq N /\ r \notin N2
  BY <1>13
<1>16. Exchange(book, new_task, C2, w, current_step, N2)
  BY <1>4, <1>9, <1>10, <1>11, <1>12, <1>14, <1>15, ExchangeExposes
<1>17. Exchange(book', new_task', Changes(answers'), wire', current_step', Beginners(runner'))
  BY <1>1, <1>12, <1>15, <1>16 DEF N
<1>18. LastWords'
  BY <1>1, FewerWords
<1> QED
  BY <1>17, <1>18, ExchangingNext

(* Every step keeps the exchange in order. *)
LEMMA NextExchanging ==
  ASSUME Typed, Agreement, Fresh, Exchanging, LastWords, Lives, [Next]_vars
  PROVE  Exchanging' /\ LastWords'
<1>1. CASE UNCHANGED vars
  <2>1. UNCHANGED <<book, new_task, answers, wire, current_step, runner, at, stray>>
    BY <1>1 DEF vars, scheduling, runners
  <2>2. Exchange(book', new_task', Changes(answers'), wire', current_step', Beginners(runner'))
    BY <2>1 DEF Exchanging
  <2>3. LastWords'
    BY <2>1, FewerWords
  <2> QED
    BY <2>2, <2>3, ExchangingNext
<1>2. ASSUME NEW s \in ServerRanks, handle_data_response(s)
      PROVE  Exchanging' /\ LastWords'
  BY <1>2, PartExchanging, RefusalExchanging DEF handle_data_response
<1>3. ASSUME NEW s \in ServerRanks, NEW task \in Members \X Runners, check_due_dates(s, task)
      PROVE  Exchanging' /\ LastWords'
  BY <1>3, DueDateExchanging
<1>4. ASSUME NEW d \in OtherRanks, check_kill_requests(d)
      PROVE  Exchanging' /\ LastWords'
  BY <1>4, KillRequestExchanging
<1>5. ASSUME NEW d \in OtherRanks, check_schedule_new_tasks(d)
      PROVE  Exchanging' /\ LastWords'
  BY <1>5, NewTaskExchanging
<1>6. ASSUME NEW s \in ServerRanks, check_finished(s)
      PROVE  Exchanging' /\ LastWords'
  BY <1>6, FinishExchanging
<1>7. ASSUME NEW s \in ServerRanks, UpdateStep(s)
      PROVE  Exchanging' /\ LastWords'
  BY <1>7, Ranks, FirstUpdateExchanging, OtherUpdateExchanging DEF UpdateStep
<1>8. ASSUME NEW r \in Runners, RunnerStep(r) \/ Crash(r) \/ LauncherRemoves(r)
      PROVE  Exchanging' /\ LastWords'
  BY <1>8, RegisterExchanging, FieldExchanging, FirstExposeExchanging, ExposeExchanging, LeavesExchanging
     DEF RunnerStep
<1> QED
  BY <1>1, <1>2, <1>3, <1>4, <1>5, <1>6, <1>7, <1>8, Ranks DEF Next, ServerStep

(* At the start nothing has been said. *)
LEMMA InitExchanging == Init => Exchanging /\ LastWords /\ Lives
<1> SUFFICES ASSUME Init PROVE Exchanging /\ LastWords /\ Lives
  OBVIOUS
<1>1. /\ \A s \in ServerRanks : /\ book[s].scheduled = {} /\ book[s].running = {}
                                /\ book[s].idle = {} /\ book[s].killed = {}
                                /\ at[s] = "loop"
      /\ \A d \in OtherRanks : new_task[d] = <<>>
      /\ wire = {} /\ answers = {} /\ stray = {}
  BY DEF Init
<1>2. Changes(answers) = {}
  BY <1>1 DEF Changes
<1>3. \A r, m : ~ Has(book, new_task, Changes(answers), r, m)
  BY <1>1, <1>2 DEF Has
<1>4. Exchange(book, new_task, Changes(answers), wire, current_step, Beginners(runner))
  <2>1. Places(book, Changes(answers), wire)
    BY <1>1, <1>2 DEF Places
  <2>2. /\ OneTask(book, new_task, Changes(answers), current_step)
        /\ Reached(book, new_task, Changes(answers), wire)
    BY <1>2, <1>3 DEF OneTask, Reached
  <2>3. Held(book, Changes(answers), current_step) /\ Expected(book, wire, current_step)
    BY <1>1, <1>2 DEF Held, Expected
  <2>4. Absent(book, new_task, Changes(answers), wire, Beginners(runner))
    BY <1>1, <1>3 DEF Absent
  <2> QED
    BY <2>1, <2>2, <2>3, <2>4 DEF Exchange
<1>5. LastWords
  BY <1>1, Ranks DEF LastWords
<1>6. Lives
  BY DEF Init, Lives
<1> QED
  BY <1>4, <1>5, <1>6 DEF Exchanging

-----------------------------------------------------------------------------
(***************************************************************************)
(* All of it, always.                                                      *)
(***************************************************************************)
InOrderNow == Typed /\ Agreement /\ Fresh /\ Exchanging /\ LastWords /\ Lives

(* It is inductive. *)
LEMMA AlwaysInOrder ==
  ASSUME UpdateHasBarrier
  PROVE  Spec => []InOrderNow
<1>1. Init => InOrderNow
  BY InitAgrees, InitFresh, InitExchanging DEF InOrderNow
<1>2. InOrderNow /\ [Next]_vars => InOrderNow'
  <2> SUFFICES ASSUME InOrderNow, [Next]_vars PROVE InOrderNow'
    OBVIOUS
  <2>1. Typed' /\ Agreement'
    BY NextAgrees DEF InOrderNow
  <2>2. Fresh'
    BY <2>1, NextFresh DEF InOrderNow
  <2>3. Exchanging' /\ LastWords'
    BY NextExchanging DEF InOrderNow
  <2>4. Lives'
    BY LivesNext DEF InOrderNow
  <2> QED
    BY <2>1, <2>2, <2>3, <2>4 DEF InOrderNow
<1> QED
  BY <1>1, <1>2, PTL DEF Spec

(***************************************************************************)
(* Whatever ranks see a runner as faulty, in whatever order they learn of  *)
(* new tasks, a runner that puts its answers together has the parts of one *)
(* member and one step, or is told by all to end (Field::getState keeps    *)
(* the member and the step of the last part it receives and asserts only   *)
(* that the numbers of steps agree, api_common.cxx:291).                   *)
(***************************************************************************)
THEOREM AnswersAlwaysAgree ==
  ASSUME UpdateHasBarrier
  PROVE  Spec => []AnswersAgree
<1>1. InOrderNow => AnswersAgree
  <2> SUFFICES ASSUME Exchanging, LastWords, NEW a \in answers, NEW b \in answers,
                      a.runner = b.runner, a.type # "KILL_RUNNER", b.type # "KILL_RUNNER"
               PROVE  a.type = b.type /\ a.state = b.state /\ a.step = b.step
    BY DEF AnswersAgree, InOrderNow
  <2>1. a.type \in {"CHANGE_STATE", "END_RUNNER"} /\ b.type \in {"CHANGE_STATE", "END_RUNNER"}
    BY DEF LastWords
  <2>2. CASE a.type = "CHANGE_STATE" /\ b.type = "CHANGE_STATE"
    <3>1. a \in Changes(answers) /\ b \in Changes(answers)
      BY <2>2 DEF Changes
    <3>2. OneTask(book, new_task, Changes(answers), current_step)
      BY DEF Exchanging, Exchange
    <3>3. Has(book, new_task, Changes(answers), a.runner, a.state)
          /\ Has(book, new_task, Changes(answers), a.runner, b.state)
      BY <3>1 DEF Has
    <3> QED
      BY <2>2, <3>1, <3>2, <3>3 DEF OneTask
  <2>3. CASE a.type = "END_RUNNER" \/ b.type = "END_RUNNER"
    BY <2>1, <2>3 DEF LastWords
  <2> QED
    BY <2>1, <2>2, <2>3
<1> QED
  BY <1>1, AlwaysInOrder, PTL

(***************************************************************************)
(* No assertion fails at a rank: a part that comes from a runner the rank  *)
(* did not give up is of a subtask that runs, and of the current step      *)
(* (server.cxx:1119 and 1137), and the member of a new task waits (704).   *)
(* With a hidden state it does not hold: what a rank leaves of a message   *)
(* it refuses is taken for the next one.                                   *)
(***************************************************************************)
THEOREM NoAssertionEverFails ==
  ASSUME UpdateHasBarrier, ~ HiddenState
  PROVE  Spec => []NoAssertionFails
<1>1. InOrderNow => NoAssertionFails
  <2> SUFFICES ASSUME InOrderNow, NEW s \in ServerRanks, Fails(s) PROVE FALSE
    BY DEF NoAssertionFails
  <2>0. /\ Typed /\ Agreement /\ Fresh /\ Exchanging /\ LastWords
        /\ phase = "simulation"
    BY DEF InOrderNow, Fails, Runs
  <2>1. CASE s \in stray
    BY <2>0, <2>1 DEF LastWords
  <2>2. ASSUME NEW m \in wire, Arrived(s, m), m.runner \notin KilledRunners(book[s]), PartUnexpected(s, m)
        PROVE  FALSE
    <3>1. m.step # 0 /\ (Awaited(book[s], m) = {} \/ m.step # current_step[s]) /\ m.to = s
      BY <2>2 DEF PartUnexpected, UpdateHasBarrier, Arrived
    <3>2. <<m.state, m.runner>> \notin book[s].killed
      BY <2>2 DEF KilledRunners
    <3>3. m.step = current_step[s] /\ RunsAt(book[s], m.runner, m.rank, m.state)
      BY <2>0, <3>1, <3>2 DEF Exchanging, Exchange, Expected
    <3> QED
      BY <3>1, <3>3 DEF RunsAt, Awaited
  <2>3. CASE s # 0 /\ new_task[s] # <<>> /\ TaskUnexpected(s)
    BY <2>0, <2>3, Ranks, TaskExpected
  <2> QED
    BY <2>1, <2>2, <2>3 DEF Fails
<1> QED
  BY <1>1, AlwaysInOrder, PTL

=============================================================================
