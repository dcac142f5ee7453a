---------------------------- MODULE MelissaServer ----------------------------
(***************************************************************************)
(* The classic server (src/server/server.cxx): the ranks of one MPI        *)
(* program share an ensemble.  Rank 0 hands out members to runners and     *)
(* tells the other ranks; every rank exchanges its part of the state with  *)
(* the runner ranks it is linked to.  Any rank may see the due date of a   *)
(* runner pass; then the member is given to another runner.  When all      *)
(* parts are back the ranks agree to do the update step.                   *)
(*                                                                         *)
(* The runners are those of src/api: a rank sends its parts to all of its  *)
(* server ranks and waits for an answer of each.  The simulation is        *)
(* assumed to be synchronous, as the server does: no rank of a runner      *)
(* finishes a propagation that another rank has not started.               *)
(***************************************************************************)
EXTENDS Integers, FiniteSets, Sequences

CONSTANTS
  CommSize,       \* server ranks
  Links,          \* pairs <<runner rank, server rank>> that exchange a part
  Runners,        \* ids the launcher gives to runners, never twice
  EnsembleSize,
  TotalSteps,     \* the assimilator ends the study after this step
  Assimilator,    \* which assimilator is compiled in
  HiddenState,    \* whether runners have a hidden state to send as well
  ReportTiming,   \* whether the server is built with REPORT_TIMING (the default)
  StopsArrive,    \* whether the messages END_RUNNER and KILL_RUNNER arrive
  MaxFailCount,   \* MAX_FAIL_COUNT
  MaxFaults,      \* bound: runners that crash or miss a due date
  None

ServerRanks == 0 .. CommSize - 1
OtherRanks == 1 .. CommSize - 1
Members == 0 .. EnsembleSize - 1
RunnerRanks == {l[1] : l \in Links}
Linked(s) == {k \in RunnerRanks : <<k, s>> \in Links}

Assimilators == {"Dummy", "Python", "CheckStateless"}

ASSUME ServerAssumption ==
  /\ CommSize \in Nat \ {0} /\ EnsembleSize \in Nat \ {0}
  /\ TotalSteps \in Nat \ {0}
  /\ Links \subseteq Nat \X ServerRanks
  /\ Runners \subseteq Nat /\ IsFiniteSet(Runners) /\ None \notin Nat
  /\ Assimilator \in Assimilators
  /\ HiddenState \in BOOLEAN /\ ReportTiming \in BOOLEAN /\ StopsArrive \in BOOLEAN
  /\ MaxFailCount \in Nat /\ MaxFaults \in Nat

ASSUME EveryRankIsLinked == \A s \in ServerRanks : Linked(s) # {}

(* The other assimilators start an update step with a barrier. *)
UpdateHasBarrier == Assimilator # "CheckStateless"
NSteps == 1

VARIABLES
  phase,          \* PHASE_INIT or PHASE_SIMULATION; all ranks change together
  register_field, \* the next runner to register has to register the field
  notified,       \* launcher_notified_about_runner
  told,           \* runners reported to the launcher as timed out
  at,             \* where each rank is in its main loop
  current_step,
  book,           \* the tasks and idle runners of each rank, see Book
  initial,        \* parts of the ensemble overwritten by initial states
  task_id,        \* rank 0
  finished_ranks, \* rank 0
  failcount,      \* rank 0
  highest_received_task_id,
  highest_sent_task_id,
  new_task,       \* messages TAG_NEW_TASK of rank 0 to each other rank
  kill_runner,    \* messages TAG_KILL_RUNNER of each other rank to rank 0
  rank_finished,  \* messages TAG_RANK_FINISHED of each other rank to rank 0
  all_finished,   \* ranks with a message TAG_ALL_FINISHED
  nsteps,         \* current_nsteps that rank 0 sends to a rank, or None
  stray,          \* ranks with an unread rest of a message on their socket
  runner,         \* life of each runner
  wire,           \* parts sent and not yet received
  answers,        \* answers to parts, not yet received by the runner
  faults,         \* crashes and late runners so far
  outcome         \* how the server ended, or "up"

scheduling == <<task_id, finished_ranks, new_task>>
agreement == <<highest_received_task_id, highest_sent_task_id, rank_finished, all_finished, nsteps>>
registration == <<phase, register_field, notified>>
runners == <<runner, wire, answers, faults>>
vars == <<registration, told, at, current_step, book, initial, scheduling, failcount,
          agreement, kill_runner, stray, runners, outcome>>

-----------------------------------------------------------------------------
(***************************************************************************)
(* The tasks of a rank.  A task gives a member to a runner; its subtasks,  *)
(* one per linked runner rank, are scheduled until the part is sent,       *)
(* running until it is back, and then finished.  The lists are first in    *)
(* first out: a subtask carries the id of its task for the order.  idle    *)
(* are the runner ranks that wait for an answer of this rank.              *)
(***************************************************************************)
SubTask == [runner : Runners, rank : RunnerRanks, state : Members, id : Nat]

Book ==
  [unscheduled : SUBSET Members,
   scheduled : SUBSET SubTask, running : SUBSET SubTask, finished : SUBSET SubTask,
   idle : SUBSET (Runners \X RunnerRanks),
   killed : SUBSET (Members \X Runners)]

SubTasks(b) == b.scheduled \cup b.running \cup b.finished
Task(t) == <<t.state, t.runner>>

IdleRunners(b) == {c[1] : c \in b.idle}
KilledRunners(b) == {t[2] : t \in b.killed}
CompletelyIdle(b) == {r \in Runners : \A k \in Linked(0) : <<r, k>> \in b.idle}

Least(S) == CHOOSE n \in S : \A m \in S : n <= m

Answer(s, r, k, type, state, step) ==
  [from |-> s, runner |-> r, rank |-> k, type |-> type, state |-> state, step |-> step]

Stop(s, b, r, flag) ==
  {Answer(s, c[1], c[2], flag, -1, current_step[s]) : c \in {c \in b.idle : c[1] = r}}

StopAll(s, b, flag) == UNION {Stop(s, b, r, flag) : r \in IdleRunners(b)}

DropUnfinished(b, tasks) ==
  [b EXCEPT !.scheduled = {t \in @ : Task(t) \notin tasks},
            !.running = {t \in @ : Task(t) \notin tasks}]

Drop(b, tasks) ==
  [b EXCEPT !.scheduled = {t \in @ : Task(t) \notin tasks},
            !.running = {t \in @ : Task(t) \notin tasks},
            !.finished = {t \in @ : Task(t) \notin tasks}]

Forget(b, rs) == [b EXCEPT !.idle = {c \in @ : c[1] \notin rs}]

kill_task(b, task) ==
  [Forget(Drop(b, {task}), {task[2]})
     EXCEPT !.unscheduled = @ \cup {task[1]}, !.killed = @ \cup {task}]

(* The subtasks of a new task; those of idle runner ranks start at once. *)
NewSubTasks(s, task) ==
  {[runner |-> task.runner, rank |-> k, state |-> task.state, id |-> task.id] : k \in Linked(s)}

AllSubTasks(s, tasks) == UNION {NewSubTasks(s, task) : task \in tasks}

Launched(s, b, tasks) == {t \in AllSubTasks(s, tasks) : <<t.runner, t.rank>> \in b.idle}

add_sub_tasks(s, b, tasks) ==
  LET now == Launched(s, b, tasks) IN
  [b EXCEPT !.unscheduled = @ \ {task.state : task \in tasks},
            !.running = @ \cup now,
            !.scheduled = @ \cup (AllSubTasks(s, tasks) \ now),
            !.idle = @ \ {<<t.runner, t.rank>> : t \in now}]

LaunchInCurrentStep(s, ts, step) ==
  {Answer(s, t.runner, t.rank, "CHANGE_STATE", t.state, current_step[s]) : t \in ts}

launch_sub_task(s, ts, step) ==
  {Answer(s, t.runner, t.rank, "CHANGE_STATE", t.state, step) : t \in ts}

-----------------------------------------------------------------------------
(***************************************************************************)
(* Rank 0 gives the unscheduled members, least first, to runners rs, least *)
(* first, as far as both go, and tells the other ranks.                    *)
(***************************************************************************)
Position(n, S) == Cardinality({m \in S : m < n})

NewTasks(b, rs, id) ==
  {[runner |-> p[1], state |-> p[2], id |-> id + 1 + Position(p[2], b.unscheduled)] :
     p \in {p \in rs \X b.unscheduled : Position(p[1], rs) = Position(p[2], b.unscheduled)}}

InOrder(tasks, id) ==
  [i \in 1 .. Cardinality(tasks) |-> CHOOSE t \in tasks : t.id = id + i]

(* Book b of rank 0 with the new tasks, the last task having had number id.*)
schedule_new_task(b, rs, id, step, told_runners) ==
  LET tasks == NewTasks(b, rs, id) IN
  /\ book' = [book EXCEPT ![0] = add_sub_tasks(0, b, tasks)]
  /\ task_id' = id + Cardinality(tasks)
  /\ finished_ranks' = IF tasks = {} THEN finished_ranks ELSE 0
  /\ new_task' = [s \in OtherRanks |-> new_task[s] \o InOrder(tasks, id)]
  /\ answers' = answers \cup told_runners \cup launch_sub_task(0, Launched(0, b, tasks), step)

(* After a kill: if a runner is completely idle, the first idle one, which *)
(* need not be the same, gets a task.                                      *)
NotYet(b) == {}

FirstIdle(b) == IF CompletelyIdle(b) = {} THEN {} ELSE {Least(IdleRunners(b))}

Runs(s) == outcome = "up" /\ phase = "simulation" /\ at[s] = "loop"

(* What the rank 0 does when it learns that a task failed. *)
FailTask(task) ==
  LET b == kill_task(book[0], task)
      fails == failcount[task[1]] + 1
  IN /\ failcount' = [failcount EXCEPT ![task[1]] = fails]
     /\ IF fails > MaxFailCount
        THEN outcome' = "gave_up" /\ UNCHANGED <<book, scheduling, answers>>
        ELSE /\ UNCHANGED outcome
             /\ schedule_new_task(b, FirstIdle(b), task_id, current_step[0],
                                  Stop(0, book[0], task[2], "KILL_RUNNER"))

-----------------------------------------------------------------------------
(***************************************************************************)
(* Start of the study.  The first runner that registers is asked for the   *)
(* field.  When rank 0 has it, all ranks leave the initialisation in a     *)
(* sequence of collectives that the others have been waiting in.           *)
(***************************************************************************)
register_runner_id(r) ==
  /\ outcome = "up" /\ at[0] = "loop"
  /\ runner[r] = "out"
  /\ runner' = [runner EXCEPT ![r] = IF register_field THEN "field" ELSE "ready"]
  /\ register_field' = FALSE
  /\ notified' = [notified EXCEPT ![r] = "registered"]
  /\ UNCHANGED <<phase, told, at, current_step, book, initial, scheduling, failcount,
                 agreement, kill_runner, stray, wire, answers, faults, outcome>>

init_new_timestep(b) == [b EXCEPT !.finished = {}, !.unscheduled = Members]

RegisterField(r) ==
  /\ outcome = "up" /\ phase = "init"
  /\ runner[r] = "field"
  /\ runner' = [runner EXCEPT ![r] = "ready"]
  /\ phase' = "simulation"
  /\ current_step' = [s \in ServerRanks |-> NSteps]
  /\ book' = [s \in ServerRanks |-> init_new_timestep(book[s])]
  /\ UNCHANGED <<register_field, notified, told, at, initial, scheduling, failcount,
                 agreement, kill_runner, stray, wire, answers, faults, outcome>>

-----------------------------------------------------------------------------
(***************************************************************************)
(* Parts that come back from runners.                                      *)
(***************************************************************************)
Arrived(s, m) == Runs(s) /\ s \notin stray /\ m \in wire /\ m.to = s

Notify(s, r) ==
  notified' = IF s = 0 /\ notified[r] = "registered"
              THEN [notified EXCEPT ![r] = "announced"] ELSE notified

(* The hidden part of the message is not read. *)
RefusePart(s, m) ==
  /\ Arrived(s, m)
  /\ m.runner \in KilledRunners(book[s])
  /\ wire' = wire \ {m}
  /\ Notify(s, m.runner)
  /\ answers' = answers \cup {Answer(s, m.runner, m.rank, "KILL_RUNNER", -1, current_step[s])}
  /\ stray' = IF HiddenState THEN stray \cup {s} ELSE stray
  /\ UNCHANGED <<phase, register_field, told, at, current_step, book, initial, scheduling,
                 failcount, agreement, kill_runner, runner, faults, outcome>>

Awaited(b, m) ==
  {t \in b.running : t.runner = m.runner /\ t.rank = m.rank /\ t.state = m.state}

Queued(b, m) == {t \in b.scheduled : t.runner = m.runner /\ t.rank = m.rank}

PartUnexpected(s, m) ==
  \/ m.step # 0 /\ (Awaited(book[s], m) = {} \/ m.step # current_step[s])
  \/ m.state = -1 /\ Assimilator = "CheckStateless" /\ m.runner \notin Members

(* on_init_state of the assimilator; a propagated part replaces background.*)
StorePart(s, m) ==
  initial' = [initial EXCEPT ![s] =
    IF m.step = current_step[s] THEN @ \ {<<"background", m.state, m.rank>>}
    ELSE @ \cup ({"background", "analysis"} \X
      (CASE Assimilator = "Python" -> Members
         [] Assimilator = "CheckStateless" -> {m.runner}
         [] OTHER -> {}) \X {m.rank})]

AcceptPart(s, m) ==
  LET b == [book[s] EXCEPT !.running = @ \ Awaited(book[s], m),
                           !.finished = @ \cup Awaited(book[s], m)]
      queue == Queued(b, m)
      idle == [b EXCEPT !.idle = @ \cup {<<m.runner, m.rank>>}]
  IN /\ Arrived(s, m)
     /\ m.runner \notin KilledRunners(book[s])
     /\ ~ PartUnexpected(s, m)
     /\ wire' = wire \ {m}
     /\ Notify(s, m.runner)
     /\ StorePart(s, m)
     /\ \/ /\ queue # {}
           /\ LET t == CHOOSE t \in queue : \A u \in queue : t.id <= u.id IN
              /\ book' = [book EXCEPT ![s] = [b EXCEPT !.scheduled = @ \ {t},
                                                       !.running = @ \cup {t}]]
              /\ answers' = answers \cup launch_sub_task(s, {t}, current_step[s])
           /\ UNCHANGED scheduling
        \/ /\ queue = {}
           /\ IF s = 0 /\ m.runner \in CompletelyIdle(idle)
              THEN schedule_new_task(idle, {m.runner}, task_id, current_step[0], {})
              ELSE /\ book' = [book EXCEPT ![s] = idle]
                   /\ UNCHANGED <<scheduling, answers>>
     /\ UNCHANGED <<phase, register_field, told, at, current_step, failcount, agreement,
                    kill_runner, stray, runner, faults, outcome>>

handle_data_response(s) == \E m \in wire : RefusePart(s, m) \/ AcceptPart(s, m)

-----------------------------------------------------------------------------
(***************************************************************************)
(* Due dates.  A call that finds several tasks due handles them one after  *)
(* the other, as several steps here.  A runner is late, which counts as a  *)
(* fault, or it is dead or was declared faulty by some rank.               *)
(***************************************************************************)
Faulty(r) == runner[r] = "dead" \/ \E s \in ServerRanks : r \in KilledRunners(book[s])

TaskDue(s, task) ==
  /\ Runs(s)
  /\ \E t \in book[s].scheduled \cup book[s].running : Task(t) = task
  /\ IF Faulty(task[2]) THEN UNCHANGED faults
     ELSE faults < MaxFaults /\ faults' = faults + 1

check_due_dates(s, task) ==
  /\ TaskDue(s, task)
  /\ IF s = 0
     THEN /\ told' = told \cup {task[2]}
          /\ FailTask(task)
          /\ UNCHANGED kill_runner
     ELSE /\ book' = [book EXCEPT ![s] = kill_task(@, task)]
          /\ answers' = answers \cup Stop(s, book[s], task[2], "KILL_RUNNER")
          /\ kill_runner' = [kill_runner EXCEPT ![s] = Append(@, task)]
          /\ UNCHANGED <<told, failcount, scheduling, outcome>>
  /\ UNCHANGED <<registration, at, current_step, initial, agreement, stray, runner, wire>>

(* Only a build that reports timings tells the launcher of a runner that   *)
(* missed a due date at another rank than 0.                               *)
check_kill_requests(d) ==
  /\ Runs(0)
  /\ kill_runner[d] # <<>>
  /\ kill_runner' = [kill_runner EXCEPT ![d] = Tail(@)]
  /\ LET task == Head(kill_runner[d]) IN
     /\ told' = IF ReportTiming /\ task[2] \notin KilledRunners(book[0]) THEN told \cup {task[2]} ELSE told
     /\ IF task \in book[0].killed
        THEN UNCHANGED <<book, scheduling, answers, failcount, outcome>>
        ELSE FailTask(task)
  /\ UNCHANGED <<registration, at, current_step, initial, agreement, stray, runner, wire, faults>>

(* A new task for a member the rank has given to another runner means that *)
(* that runner was declared faulty.                                        *)
Superseded(s) == {t \in SubTasks(book[s]) : t.state = Head(new_task[s]).state}
NewlyKilled(s) == {t \in Superseded(s) : Task(t) \notin book[s].killed}

WithoutSuperseded(s) ==
  LET old == {Task(t) : t \in Superseded(s)} IN
  [Forget(Drop(book[s], old), {t.runner : t \in NewlyKilled(s)}) EXCEPT !.killed = @ \cup old]

WithoutMember(s) ==
  LET old == {Task(t) : t \in Superseded(s)}
      b == Forget(Drop(book[s], old), {t.runner : t \in NewlyKilled(s)})
  IN [b EXCEPT !.killed = @ \cup old,
               !.unscheduled = @ \cup {t.state : t \in NewlyKilled(s)}]

TaskUnexpected(s) == Head(new_task[s]).state \notin WithoutMember(s).unscheduled

check_schedule_new_tasks(s) ==
  /\ Runs(s)
  /\ new_task[s] # <<>>
  /\ ~ TaskUnexpected(s)
  /\ new_task' = [new_task EXCEPT ![s] = Tail(@)]
  /\ LET task == Head(new_task[s])
         b == WithoutMember(s)
         high == highest_received_task_id[s]
     IN /\ highest_received_task_id' = [highest_received_task_id EXCEPT ![s] =
                                          IF task.id > high THEN task.id ELSE high]
        /\ book' = [book EXCEPT ![s] = add_sub_tasks(s, b, {task})]
        /\ answers' = answers
             \cup (UNION {Stop(s, book[s], t.runner, "KILL_RUNNER") : t \in NewlyKilled(s)})
             \cup launch_sub_task(s, Launched(s, b, {task}), current_step[s])
  /\ UNCHANGED <<registration, told, at, current_step, initial, task_id, finished_ranks, failcount,
                 highest_sent_task_id, rank_finished, all_finished, nsteps, kill_runner, stray,
                 runner, wire, faults, outcome>>

-----------------------------------------------------------------------------
(***************************************************************************)
(* The end of a step.                                                      *)
(***************************************************************************)
WouldFinish(s) ==
  LET b == book[s] IN
  /\ Runs(s)
  /\ b.unscheduled = {} /\ b.scheduled = {} /\ b.running = {}
  /\ Cardinality(b.finished) = EnsembleSize * Cardinality(Linked(s))

(* A rank that finished before the last reschedule does not count. *)
IsFinished(s) == Head(rank_finished[s]) <= task_id
IsUpToDate(s) == Head(rank_finished[s]) = task_id

(* Rank 0 reads the messages that have come, at most one of each rank. *)
CheckFinishedFirst ==
  \E got \in SUBSET {s \in OtherRanks : rank_finished[s] # <<>>} :
    LET count == finished_ranks + Cardinality({s \in got : IsUpToDate(s)})
        finished == count = CommSize - 1
    IN /\ WouldFinish(0)
       /\ got # {} \/ finished
       /\ rank_finished' = [s \in OtherRanks |-> IF s \in got THEN Tail(rank_finished[s])
                                                 ELSE rank_finished[s]]
       /\ finished_ranks' = count
       /\ all_finished' = IF finished THEN OtherRanks ELSE all_finished
       /\ at' = IF finished THEN [at EXCEPT ![0] = "update"] ELSE at
       /\ UNCHANGED <<registration, told, current_step, book, initial, task_id, new_task, failcount,
                      highest_received_task_id, highest_sent_task_id, nsteps, kill_runner, stray,
                      runners, outcome>>

CheckFinishedOther(s) ==
  /\ WouldFinish(s)
  /\ LET reports == highest_sent_task_id[s] < highest_received_task_id[s] IN
     /\ reports \/ s \in all_finished
     /\ highest_sent_task_id' = [highest_sent_task_id EXCEPT ![s] = highest_received_task_id[s]]
     /\ rank_finished' = IF reports
          THEN [rank_finished EXCEPT ![s] = Append(@, highest_received_task_id[s])]
          ELSE rank_finished
  /\ all_finished' = all_finished \ {s}
  /\ at' = IF s \in all_finished THEN [at EXCEPT ![s] = "update"] ELSE at
  /\ UNCHANGED <<registration, told, current_step, book, initial, scheduling, failcount,
                 highest_received_task_id, nsteps, kill_runner, stray, runners, outcome>>

check_finished(s) == IF s = 0 THEN CheckFinishedFirst ELSE CheckFinishedOther(s)

(* After do_update_step the rank ends, or starts the next step. *)
Stopping(s, n) == StopAll(s, book[s], IF n = -1 THEN "END_RUNNER" ELSE "KILL_RUNNER")

NextStep(s, n) ==
  /\ at' = [at EXCEPT ![s] = IF n < 0 THEN "ended" ELSE "loop"]
  /\ current_step' = [current_step EXCEPT ![s] = IF n < 0 THEN @ ELSE @ + n]
  /\ initial' = [initial EXCEPT ![s] = {}]

do_update_step(step) == IF step >= TotalSteps THEN -1 ELSE NSteps

(* Rank 0 sends the number of steps to all, -2 if the launcher was silent. *)
UpdateFirst ==
  \E n \in {do_update_step(current_step[0]), -2} :
    /\ outcome = "up" /\ at[0] = "update"
    /\ UpdateHasBarrier => \A s \in ServerRanks : at[s] = "update"
    /\ NextStep(0, n)
    /\ nsteps' = [s \in OtherRanks |-> n]
    /\ IF n < 0
       THEN /\ answers' = answers \cup Stopping(0, n)
            /\ UNCHANGED <<book, scheduling, failcount>>
       ELSE LET b == init_new_timestep(book[0]) IN
            /\ schedule_new_task(b, CompletelyIdle(b), 1, current_step[0] + n, {})
            /\ failcount' = [m \in Members |-> 0]
    /\ UNCHANGED <<registration, told, highest_received_task_id, highest_sent_task_id,
                   rank_finished, all_finished, kill_runner, stray, runner, wire, faults, outcome>>

UpdateOther(s) ==
  /\ outcome = "up" /\ at[s] = "update"
  /\ nsteps[s] # None
  /\ NextStep(s, nsteps[s])
  /\ nsteps' = [nsteps EXCEPT ![s] = None]
  /\ IF nsteps[s] < 0
     THEN /\ answers' = answers \cup Stopping(s, nsteps[s])
          /\ UNCHANGED <<book, highest_received_task_id, highest_sent_task_id>>
     ELSE /\ book' = [book EXCEPT ![s] = init_new_timestep(@)]
          /\ highest_received_task_id' = [highest_received_task_id EXCEPT ![s] = 0]
          /\ highest_sent_task_id' = [highest_sent_task_id EXCEPT ![s] = 0]
          /\ UNCHANGED answers
  /\ UNCHANGED <<registration, told, scheduling, failcount, rank_finished, all_finished,
                 kill_runner, stray, runner, wire, faults, outcome>>

UpdateStep(s) == IF s = 0 THEN UpdateFirst ELSE UpdateOther(s)

(* The next thing the rank does is to fail an assertion, which ends the    *)
(* whole MPI program: after this nothing of it is left to model.           *)
Fails(s) ==
  /\ Runs(s)
  /\ \/ s \in stray
     \/ \E m \in wire : Arrived(s, m) /\ m.runner \notin KilledRunners(book[s]) /\ PartUnexpected(s, m)
     \/ s # 0 /\ new_task[s] # <<>> /\ TaskUnexpected(s)

-----------------------------------------------------------------------------
(***************************************************************************)
(* The runners.                                                            *)
(***************************************************************************)
Part(k, s, r, state, step) ==
  [to |-> s, runner |-> r, rank |-> k, state |-> state, step |-> step]

AnswersTo(r) == {a \in answers : a.runner = r}
Answered(r, k) == {a.from : a \in {a \in AnswersTo(r) : a.rank = k}}
ServersOf(k) == {l[2] : l \in {l \in Links : l[1] = k}}

(* putState of the first expose: no member yet, step 0. *)
FirstExpose(r) ==
  /\ runner[r] = "ready"
  /\ runner' = [runner EXCEPT ![r] = "alive"]
  /\ wire' = wire \cup {Part(l[1], l[2], r, -1, 0) : l \in Links}
  /\ UNCHANGED <<registration, told, at, current_step, book, initial, scheduling, failcount,
                 agreement, kill_runner, stray, answers, faults, outcome>>

(* getState on every rank, nsteps of the model, putState: a rank sends the *)
(* member and step it received last.                                       *)
LastAnswer(r, k) ==
  CHOOSE a \in AnswersTo(r) : a.rank = k /\ \A s \in Answered(r, k) : s <= a.from

Expose(r) ==
  /\ runner[r] = "alive"
  /\ \A k \in RunnerRanks : Answered(r, k) = ServersOf(k)
  /\ \A a \in AnswersTo(r) : a.type = "CHANGE_STATE"
  /\ answers' = answers \ AnswersTo(r)
  /\ wire' = wire \cup {LET a == LastAnswer(r, l[1]) IN Part(l[1], l[2], r, a.state, a.step) : l \in Links}
  /\ UNCHANGED <<registration, told, at, current_step, book, initial, scheduling, failcount,
                 agreement, kill_runner, stray, runner, faults, outcome>>

Leaves(r, state) ==
  /\ runner' = [runner EXCEPT ![r] = state]
  /\ answers' = answers \ AnswersTo(r)
  /\ UNCHANGED <<registration, told, at, current_step, book, initial, scheduling, failcount,
                 agreement, kill_runner, stray, outcome>>

(* Answers are received in the order of the server ranks.  The server      *)
(* sends the address of END_RUNNER and KILL_RUNNER without ZMQ_SNDMORE     *)
(* (server.cxx:257), and a ROUTER socket drops what follows: as built they *)
(* do not arrive, and the runner waits until the launcher removes it.      *)
Finalize(r) ==
  /\ StopsArrive
  /\ runner[r] = "alive"
  /\ \A k \in RunnerRanks : Answered(r, k) = ServersOf(k)
  /\ \A a \in AnswersTo(r) : a.type = "END_RUNNER"
  /\ Leaves(r, "over")
  /\ UNCHANGED <<wire, faults>>

MPI_Abort(r) ==
  /\ StopsArrive
  /\ runner[r] = "alive"
  /\ \E a \in AnswersTo(r) :
       /\ a.type = "KILL_RUNNER"
       /\ \A s \in ServersOf(a.rank) : s < a.from => s \in Answered(r, a.rank)
  /\ Leaves(r, "dead")
  /\ UNCHANGED <<wire, faults>>

(* A runner crashes, and may take unsent parts with it.  The launcher      *)
(* removes a runner that the server reported.                              *)
Crash(r) ==
  /\ runner[r] = "alive"
  /\ faults < MaxFaults
  /\ faults' = faults + 1
  /\ \E lost \in SUBSET {m \in wire : m.runner = r} : wire' = wire \ lost
  /\ Leaves(r, "dead")

LauncherRemoves(r) ==
  /\ runner[r] = "alive"
  /\ r \in told
  /\ Leaves(r, "dead")
  /\ UNCHANGED <<wire, faults>>

-----------------------------------------------------------------------------
Init ==
  /\ phase = "init"
  /\ register_field = TRUE
  /\ notified = [r \in Runners |-> "unknown"]
  /\ told = {}
  /\ at = [s \in ServerRanks |-> "loop"]
  /\ current_step = [s \in ServerRanks |-> 0]
  /\ book = [s \in ServerRanks |->
       [unscheduled |-> {}, scheduled |-> {}, running |-> {}, finished |-> {}, idle |-> {}, killed |-> {}]]
  /\ initial = [s \in ServerRanks |-> {}]
  /\ task_id = 1
  /\ finished_ranks = -1
  /\ failcount = [m \in Members |-> 0]
  /\ highest_received_task_id = [s \in OtherRanks |-> 0]
  /\ highest_sent_task_id = [s \in OtherRanks |-> 0]
  /\ new_task = [s \in OtherRanks |-> <<>>]
  /\ kill_runner = [s \in OtherRanks |-> <<>>]
  /\ rank_finished = [s \in OtherRanks |-> <<>>]
  /\ all_finished = {}
  /\ nsteps = [s \in OtherRanks |-> None]
  /\ stray = {}
  /\ runner = [r \in Runners |-> "out"]
  /\ wire = {}
  /\ answers = {}
  /\ faults = 0
  /\ outcome = "up"

ServerStep(s) ==
  \/ handle_data_response(s)
  \/ \E task \in Members \X Runners : check_due_dates(s, task)
  \/ s # 0 /\ (check_kill_requests(s) \/ check_schedule_new_tasks(s))
  \/ check_finished(s)
  \/ UpdateStep(s)

RunnerStep(r) ==
  \/ register_runner_id(r) \/ RegisterField(r) \/ FirstExpose(r) \/ Expose(r)
  \/ Finalize(r) \/ MPI_Abort(r)

Next ==
  \/ \E s \in ServerRanks : ServerStep(s)
  \/ \E r \in Runners : RunnerStep(r) \/ Crash(r) \/ LauncherRemoves(r)

Spec == Init /\ [][Next]_vars

(* The ranks poll for ever, every part of a faulty runner is due some day, *)
(* the first runner registers the field, and runners that run get on.      *)
Fairness ==
  /\ \A s \in ServerRanks :
       /\ WF_vars(handle_data_response(s))
       /\ WF_vars(\E task \in Members \X Runners : Faulty(task[2]) /\ check_due_dates(s, task))
       /\ WF_vars(s # 0 /\ check_kill_requests(s))
       /\ WF_vars(s # 0 /\ check_schedule_new_tasks(s))
       /\ WF_vars(check_finished(s))
       /\ WF_vars(UpdateStep(s))
  /\ \A r \in Runners : WF_vars(RunnerStep(r))

FairSpec == Spec /\ Fairness

-----------------------------------------------------------------------------
(* The assertions of the main loop and of init_new_timestep: nothing of    *)
(* the server ever fails.                                                  *)
NoAssertionFails == \A s \in ServerRanks : ~ Fails(s)

(* Every member is unscheduled, or one runner has all its subtasks, one    *)
(* for each linked runner rank, each in one of the lists (server.cxx:1809).*)
TasksConserved ==
  phase = "simulation" => \A s \in ServerRanks :
    LET b == book[s] IN
    /\ b.scheduled \cap b.running = {}
    /\ (b.scheduled \cup b.running) \cap b.finished = {}
    /\ \A m \in Members :
         LET ts == {t \in SubTasks(b) : t.state = m} IN
         IF m \in b.unscheduled THEN ts = {}
         ELSE /\ {t.rank : t \in ts} = Linked(s)
              /\ \A t, u \in ts : t.runner = u.runner /\ (t.rank = u.rank => t = u)

(* The answers a runner has to put together are of one kind, and parts of  *)
(* the same member and step.                                               *)
AnswersAgree ==
  \A a, b \in answers :
    a.runner = b.runner /\ a.type # "KILL_RUNNER" /\ b.type # "KILL_RUNNER" =>
      a.type = b.type /\ a.state = b.state /\ a.step = b.step

(* A propagated part is not replaced by a runner's initial state, and the  *)
(* analysis only before the first update.                                  *)
PropagationKept ==
  \A s \in ServerRanks :
    /\ \A t \in book[s].finished : <<"background", t.state, t.rank>> \notin initial[s]
    /\ current_step[s] > NSteps => \A x \in initial[s] : x[1] # "analysis"

Progress == <>(outcome # "up" \/ \A s \in ServerRanks : at[s] = "ended" \/ \A r \in Runners : Faulty(r))

CompleteFrom(s, m) ==
  {r \in Runners : Linked(s) = {t.rank : t \in {t \in book[s].finished : t.state = m /\ t.runner = r}}}

Source(s, m) == IF at[s] = "ended" \/ CompleteFrom(s, m) = {} THEN None
                ELSE CHOOSE r \in CompleteFrom(s, m) : TRUE

Decided == IF at[0] = "loop" /\ phase = "simulation" THEN current_step[0] - NSteps ELSE current_step[0]

Ensemble == INSTANCE EnsembleUpdate WITH
  cycle <- Decided,
  source <- [s \in ServerRanks |-> [m \in Members |-> Source(s, m)]],
  pending <- {s \in ServerRanks : (at[0] # "loop" /\ at[s] # "ended") \/ current_step[s] < current_step[0]}

ImplementsEnsembleUpdate == Ensemble!Spec
=============================================================================
