------------------------------- MODULE Launcher -------------------------------
(***************************************************************************)
(* The launcher (src/launcher/melissa_da_study.py) on a cluster of nodes   *)
(* (src/launcher/cluster).  Its main thread starts the server and groups   *)
(* of runners, restarts or kills them, and listens to the server; its      *)
(* refresher thread asks the cluster for the state of the jobs and         *)
(* removes those that have ended.  Both threads change the job table and   *)
(* the nodes of the cluster without a lock.                                *)
(*                                                                         *)
(* Time is left out: a time-out may be found whenever it is looked for,    *)
(* as a fault if the process in question still runs.                       *)
(***************************************************************************)
EXTENDS Integers, FiniteSets, Sequences, Functions

CONSTANTS
  Cluster,         \* "Fugaku" or "Local"
  NbNodes,         \* nodes but the one of the launcher
  NodesServer,     \* nodes_server
  NodesRunner,     \* nodes_runner
  Loads,           \* values that max_runners() returns
  GroupSize,       \* runner_group_size
  MayRestart,      \* server_may_restart
  MaxServerStarts, \* MAX_SERVER_STARTS
  MaxJobs,         \* bound: jobs scheduled
  MaxFaults,       \* bound: crashes and late answers
  None

JobIds == 1 .. MaxJobs
Nodes == 1 .. NbNodes

(* What the launcher and the cluster write down of a server, of a group of *)
(* runners, and of a job.                                                  *)
ServerObjects ==
  [job : JobIds, state : {"waiting", "running"}, node_name : JobIds \cup {None}]
RunnerObjects ==
  [job : JobIds, runner_ids : SUBSET Nat, state : {"waiting", "running"}, server_knows_it : SUBSET Nat]
Entries == [vcoords : SUBSET Nodes, children : BOOLEAN, vcoordfile : BOOLEAN]

ASSUME LauncherAssumption ==
  /\ Cluster \in {"Fugaku", "Local"}
  /\ NbNodes \in Nat
  /\ NodesServer \in Nat \ {0} /\ NodesRunner \in Nat \ {0}
  /\ Loads \subseteq Nat \ {0} /\ GroupSize \in Nat \ {0}
  /\ MayRestart \in BOOLEAN /\ MaxServerStarts \in Nat
  /\ MaxJobs \in Nat /\ MaxFaults \in Nat
  /\ None \notin Nat /\ None \notin Entries /\ None \notin ServerObjects

VARIABLES
  server,         \* the Server object, or None
  starts,         \* Server.starts
  runners,        \* group id -> Runner object
  next_group_id,
  next_runner_id,
  listed,         \* Job.jobs
  cstate,         \* cstate of each Job
  jobs,           \* job table of the cluster
  nodes,          \* what the cluster uses each node for
  pc,             \* where the main thread is in its loop
  todo,           \* runner ids that the loop over runners has yet to look at
  removed,        \* job of the group it has just removed as late, or None
  kills,          \* jobs that the main thread is about to remove
  removing,       \* how far each thread is with the job it removes
  to_free,        \* nodes that each thread has yet to free
  server_msgs,    \* messages read and not yet handled
  snapshot,       \* jobs that the refresher has yet to ask for
  polled,         \* job that the refresher has found ended, or None
  refresher,      \* the refresher thread: alive, about to start a round, dead
  outcome,        \* how the launcher ended, or "up"
  proc,           \* life of the process of each job
  task,           \* what each job runs
  queue,          \* messages of servers that the launcher has not read
  said,           \* all messages ever sent
  faults

objects == <<server, starts, runners, next_group_id, next_runner_id>>
cluster == <<jobs, nodes>>
place == <<pc, todo, removed, server_msgs>>
steps == <<removing, to_free>>
removal == <<kills, steps>>
refreshing == <<snapshot, polled, refresher>>
world == <<proc, task, queue, said, faults>>
vars == <<objects, listed, cstate, cluster, place, removal, refreshing, outcome, world>>

-----------------------------------------------------------------------------
(***************************************************************************)
(* Jobs on the cluster.                                                    *)
(***************************************************************************)
FreeNodes == {n \in Nodes : nodes[n] = "free"}
First(n, S) == {i \in S : Cardinality({k \in S : k <= i}) <= n}

(* The local cluster has one node, which all jobs share. *)
Vcoords(n) == IF Cluster = "Local" THEN {} ELSE First(n, FreeNodes)
CanSchedule(n) == IF Cluster = "Local" THEN n = 1 ELSE n <= Cardinality(FreeNodes)
NextJob == 1 + Cardinality({j \in JobIds : proc[j] # "none"})

(* A process that runs what, on n nodes. *)
ScheduleJob(n, kind, what) ==
  LET j == NextJob IN
  /\ j \in JobIds
  /\ nodes' = [i \in Nodes |-> IF i \in Vcoords(n) THEN kind ELSE nodes[i]]
  /\ jobs' = [jobs EXCEPT ![j] = [vcoords |-> Vcoords(n), children |-> FALSE, vcoordfile |-> TRUE]]
  /\ proc' = [proc EXCEPT ![j] = "running"]
  /\ task' = [task EXCEPT ![j] = what]
  /\ listed' = {i \in listed : cstate[i] # "stop"} \cup {j}
  /\ cstate' = [cstate EXCEPT ![j] = "waiting"]

(* No children are entered for a job whose end has been noticed. *)
UpdateJob(table, j) ==
  IF table[j] = None \/ polled = j THEN table ELSE [table EXCEPT ![j].children = TRUE]

(* KillRecursive reads the children that UpdateJob has entered. *)
Killable(j) == jobs[j] # None /\ (Cluster = "Fugaku" => jobs[j].children)

(* CleanUp frees no nodes, and leaves what it cannot kill.  It comes after *)
(* all jobs have been removed.                                             *)
CleanUp ==
  /\ proc' = [j \in JobIds |-> IF Killable(j) THEN "ended" ELSE proc[j]]
  /\ jobs' = [j \in JobIds |-> None]
  /\ UNCHANGED <<nodes, task, queue, said, faults>>

-----------------------------------------------------------------------------
(***************************************************************************)
(* RemoveJob of the cluster.  Both threads call it, each in the middle of  *)
(* what the other does, be it with the same job.                           *)
(***************************************************************************)
Threads == {"main", "refresher"}
Target(t) == IF t = "main" THEN Head(kills) ELSE polled
Calls(t) == outcome = "up" /\ (t = "refresher" => refresher # "dead")

(* An exception ends the thread.  The main thread does not learn of the    *)
(* refresher's end.                                                        *)
Raises(t, what) ==
  /\ IF t = "main" THEN outcome' = what /\ UNCHANGED refresher
     ELSE refresher' = "dead" /\ UNCHANGED outcome
  /\ UNCHANGED <<objects, listed, cstate, cluster, place, removal, snapshot, polled, world>>

(* The entry goes last; then the thread turns to its next job. *)
Deletes(t) ==
  /\ jobs' = [jobs EXCEPT ![Target(t)] = None]
  /\ removing' = [removing EXCEPT ![t] = "no"]
  /\ IF t = "main" THEN kills' = Tail(kills) /\ UNCHANGED <<cstate, polled>>
     ELSE cstate' = [cstate EXCEPT ![polled] = "stop"] /\ polled' = None /\ UNCHANGED kills
  /\ UNCHANGED <<objects, listed, nodes, place, to_free, snapshot, refresher, outcome, world>>

KeepNodes(j) == {}
NodesOf(j) == jobs[j].vcoords

(* The local cluster has no nodes to free and no file. *)
FindNodes(t) ==
  /\ Calls(t) /\ removing[t] = "killed" /\ Killable(Target(t))
  /\ \/ Cluster = "Local" /\ Deletes(t)
     \/ /\ Cluster = "Fugaku"
        /\ removing' = [removing EXCEPT ![t] = "freeing"]
        /\ to_free' = [to_free EXCEPT ![t] = NodesOf(Target(t))]
        /\ UNCHANGED <<objects, listed, cstate, cluster, place, kills, refreshing, outcome, world>>

(* One by one.  Any order stands for what ScheduleJob, which marks nodes   *)
(* one by one as well, may see of it.                                      *)
FreeNode(t) ==
  /\ Calls(t) /\ removing[t] = "freeing"
  /\ \E n \in to_free[t] :
       /\ nodes' = [nodes EXCEPT ![n] = "free"]
       /\ to_free' = [to_free EXCEPT ![t] = @ \ {n}]
  /\ UNCHANGED <<objects, listed, cstate, jobs, place, kills, removing, refreshing, outcome, world>>

Freed(t) == Calls(t) /\ removing[t] = "freeing" /\ to_free[t] = {}

RemoveVcoordFile(t) ==
  /\ Freed(t) /\ jobs[Target(t)] # None /\ jobs[Target(t)].vcoordfile
  /\ jobs' = [jobs EXCEPT ![Target(t)].vcoordfile = FALSE]
  /\ removing' = [removing EXCEPT ![t] = "deleting"]
  /\ UNCHANGED <<objects, listed, cstate, nodes, place, kills, to_free, refreshing, outcome, world>>

DeleteJob(t) == Calls(t) /\ removing[t] = "deleting" /\ Deletes(t)

(* The job has no children entered, or the other thread was faster. *)
CannotRemove(t) ==
  \/ Calls(t) /\ removing[t] = "killed" /\ ~ Killable(Target(t)) /\ Raises(t, "KeyError")
  \/ Freed(t) /\ jobs[Target(t)] = None /\ Raises(t, "KeyError")
  \/ /\ Freed(t) /\ jobs[Target(t)] # None /\ ~ jobs[Target(t)].vcoordfile
     /\ Raises(t, "FileNotFoundError")

RemoveJob(t) ==
  FindNodes(t) \/ FreeNode(t) \/ RemoveVcoordFile(t) \/ DeleteJob(t) \/ CannotRemove(t)

-----------------------------------------------------------------------------
(***************************************************************************)
(* The refresher: CheckJobState for all jobs that have not ended.  It goes *)
(* on with its round when the study has ended meanwhile.                   *)
(***************************************************************************)
NotRunning == {j \in listed : cstate[j] = "waiting"}
NotStopped == {j \in listed : cstate[j] # "stop"}

BetweenRounds == refresher = "alive" /\ snapshot = {} /\ polled = None

StartRound ==
  /\ outcome = "up" /\ BetweenRounds /\ pc # "final"
  /\ refresher' = "started"
  /\ UNCHANGED <<objects, listed, cstate, cluster, place, removal, snapshot, polled, outcome, world>>

Snapshot ==
  /\ outcome = "up" /\ refresher = "started"
  /\ refresher' = "alive"
  /\ snapshot' = NotStopped
  /\ UNCHANGED <<objects, listed, cstate, cluster, place, removal, polled, outcome, world>>

CheckJobState(j) ==
  /\ outcome = "up" /\ refresher = "alive" /\ polled = None /\ {j} = First(1, snapshot)
  /\ snapshot' = snapshot \ {j}
  /\ IF jobs[j] # None /\ proc[j] = "ended"
     THEN polled' = j /\ removing' = [removing EXCEPT !["refresher"] = "killed"] /\ UNCHANGED cstate
     ELSE /\ cstate' = [cstate EXCEPT ![j] = IF jobs[j] = None THEN "stop" ELSE "running"]
          /\ UNCHANGED <<polled, removing>>
  /\ UNCHANGED <<objects, listed, cluster, place, kills, to_free, refresher, outcome, world>>

refresh_states ==
  \/ StartRound \/ Snapshot \/ RemoveJob("refresher")
  \/ \E j \in JobIds : CheckJobState(j)

-----------------------------------------------------------------------------
(***************************************************************************)
(* Job.remove for the jobs in kills, with KillJob of the cluster.          *)
(***************************************************************************)
Busy == kills # <<>>
Main(p) == outcome = "up" /\ ~ Busy /\ pc = p

remove ==
  /\ outcome = "up" /\ Busy /\ removing["main"] = "no"
  /\ listed' = listed \ {Head(kills)}
  /\ IF Head(kills) \in listed /\ jobs[Head(kills)] # None
     THEN removing' = [removing EXCEPT !["main"] = "found"] /\ UNCHANGED kills
     ELSE kills' = Tail(kills) /\ UNCHANGED removing
  /\ UNCHANGED <<objects, cstate, cluster, place, to_free, refreshing, outcome, world>>

KillProcess ==
  /\ outcome = "up" /\ Busy /\ removing["main"] = "found"
  /\ IF Cluster = "Fugaku" => Killable(Head(kills))
     THEN /\ removing' = [removing EXCEPT !["main"] = "killed"]
          /\ proc' = [proc EXCEPT ![Head(kills)] = "ended"]
          /\ UNCHANGED <<objects, listed, cstate, cluster, place, kills, to_free, refreshing, outcome,
                         task, queue, said, faults>>
     ELSE Raises("main", "KeyError")

KillJob == remove \/ KillProcess \/ RemoveJob("main")

-----------------------------------------------------------------------------
(***************************************************************************)
(* The main loop.                                                          *)
(***************************************************************************)
Groups == DOMAIN runners
launched_runners == UNION {runners[g].runner_ids : g \in Groups}
runner_group_of(r) == CHOOSE g \in Groups : r \in runners[g].runner_ids

Without(gs) == [g \in Groups \ gs |-> runners[g]]

AllJobs == {runners[g].job : g \in Groups}
InAnyOrder(S) == {s \in [1 .. Cardinality(S) -> S] : IsInjective(s)}
InOrder(S) == CHOOSE s \in InAnyOrder(S) : \A i, k \in DOMAIN s : i < k => s[i] < s[k]

OnlyServer == <<server.job>>
Everything == Append(InOrder(AllJobs), server.job)

StartServer ==
  /\ Main("server") /\ server = None
  /\ starts' = starts + 1
  /\ CASE ~ (starts' < 2 \/ MayRestart) -> outcome' = "may not restart"
       [] starts' > MaxServerStarts -> outcome' = "too many restarts"
       [] ~ CanSchedule(NodesServer) -> outcome' = "no nodes"
       [] OTHER -> UNCHANGED outcome
  /\ IF outcome' = "up"
     THEN /\ ScheduleJob(NodesServer, "server", [runner_ids |-> {}, node_name |-> None])
          /\ server' = [job |-> NextJob, state |-> "waiting", node_name |-> None]
     ELSE UNCHANGED <<server, listed, cstate, cluster, proc, task>>
  /\ UNCHANGED <<runners, next_group_id, next_runner_id, place, removal, refreshing,
                 queue, said, faults>>

(* An iteration ends early as long as the server waits to run. *)
SeeServer ==
  /\ Main("server") /\ server # None
  /\ LET runs == server.state = "running" \/ cstate[server.job] = "running" IN
     /\ pc' = IF runs THEN "launch" ELSE "server"
     /\ server' = IF runs THEN [server EXCEPT !.state = "running"] ELSE server
     /\ jobs' = IF runs /\ server.state = "waiting" THEN UpdateJob(jobs, server.job) ELSE jobs
  /\ UNCHANGED <<starts, runners, next_group_id, next_runner_id, listed, cstate, nodes, todo, removed,
                 server_msgs, removal, refreshing, outcome, world>>

(* One group per iteration, as large as there is room for. *)
LaunchGroup(mr) ==
  LET active == Cardinality(launched_runners)
      size == IF GroupSize <= mr - active THEN GroupSize ELSE mr - active
      ids == next_runner_id .. next_runner_id + size - 1
  IN /\ active < mr
     /\ IF ~ CanSchedule(size * NodesRunner)
        THEN outcome' = "no nodes" /\ UNCHANGED <<objects, listed, cstate, cluster, proc, task>>
        ELSE /\ UNCHANGED <<outcome, server, starts>>
             /\ ScheduleJob(size * NodesRunner, "runner", [runner_ids |-> ids, node_name |-> server.node_name])
             /\ next_runner_id' = next_runner_id + size
             /\ next_group_id' = next_group_id + 1
             /\ runners' = [g \in Groups \cup {next_group_id} |->
                  IF g = next_group_id
                  THEN [job |-> NextJob, runner_ids |-> ids, state |-> "waiting", server_knows_it |-> {}]
                  ELSE runners[g]]
     /\ UNCHANGED kills

(* Too many runners: groups are killed until there are not. *)
KillSurplus(mr) ==
  LET left(gs) == Cardinality(UNION {runners[g].runner_ids : g \in Groups \ gs}) IN
  /\ \E gs \in SUBSET Groups :
       /\ left(gs) <= mr
       /\ gs # {} => \E g \in gs : left(gs \ {g}) > mr
       /\ runners' = Without(gs)
       /\ kills' \in InAnyOrder({runners[g].job : g \in gs})
  /\ UNCHANGED <<server, starts, next_group_id, next_runner_id, listed, cstate, cluster, outcome, proc, task>>

LaunchRunners ==
  /\ Main("launch")
  /\ pc' = "check"
  /\ \/ /\ server.node_name = None
        /\ UNCHANGED <<objects, listed, cstate, cluster, kills, outcome, proc, task>>
     \/ /\ server.node_name # None
        /\ \E mr \in Loads :
             LaunchGroup(mr) \/ (Cardinality(launched_runners) >= mr /\ KillSurplus(mr))
  /\ UNCHANGED <<todo, removed, server_msgs, steps, refreshing, queue, said, faults>>

Late(j) ==
  IF proc[j] = "ended" THEN UNCHANGED faults
  ELSE faults < MaxFaults /\ faults' = faults + 1

(* The server is gone or silent: everything is killed. *)
ServerGone ==
  /\ Main("check")
  /\ IF cstate[server.job] # "running" THEN UNCHANGED faults ELSE Late(server.job)
  /\ kills' = Everything
  /\ runners' = Without(Groups)
  /\ pc' = "cleanup"
  /\ UNCHANGED <<server, starts, next_group_id, next_runner_id, listed, cstate, cluster, todo, removed,
                 server_msgs, steps, refreshing, outcome, proc, task, queue, said>>

SameServer == server
NoServer == None

DropServer ==
  /\ Main("cleanup")
  /\ server' = NoServer
  /\ CleanUp
  /\ pc' = "server"
  /\ UNCHANGED <<starts, runners, next_group_id, next_runner_id, listed, cstate, todo, removed,
                 server_msgs, removal, refreshing, outcome>>

ServerUp ==
  /\ Main("check")
  /\ cstate[server.job] = "running"
  /\ pc' = "runners"
  /\ todo' = launched_runners
  /\ UNCHANGED <<objects, listed, cstate, cluster, removed, server_msgs, removal, refreshing, outcome, world>>

(* The loop over the launched runners. *)
Seen(g) == IF cstate[runners[g].job] = "running" THEN "running" ELSE runners[g].state

RemoveGroup(g) == runners' = Without({g}) /\ kills' = <<runners[g].job>>

SkipRunner(r) ==
  /\ r \notin launched_runners
  /\ todo' = todo \ {r}
  /\ UNCHANGED <<runners, removed, kills, faults>>

KeepRunner(r) ==
  LET g == runner_group_of(r) IN
  /\ r \in launched_runners
  /\ Seen(g) = "running" => cstate[runners[g].job] = "running"
  /\ runners' = [runners EXCEPT ![g].state = Seen(g)]
  /\ todo' = todo \ {r}
  /\ UNCHANGED <<removed, kills, faults>>

RunnerGone(r) ==
  LET g == runner_group_of(r) IN
  /\ r \in launched_runners
  /\ Seen(g) = "running" /\ cstate[runners[g].job] # "running"
  /\ RemoveGroup(g)
  /\ todo' = todo \ {r}
  /\ UNCHANGED <<removed, faults>>

(* It did not register in time; then its state is asked for once more. *)
RunnerLate(r) ==
  LET g == runner_group_of(r) IN
  /\ r \in launched_runners
  /\ Seen(g) = "running" /\ r \notin runners[g].server_knows_it
  /\ Late(runners[g].job)
  /\ RemoveGroup(g)
  /\ removed' = runners[g].job
  /\ todo' = todo \ {r}

LookAtRunner ==
  /\ Main("runners") /\ removed = None
  /\ \E r \in First(1, todo) : SkipRunner(r) \/ KeepRunner(r) \/ RunnerGone(r) \/ RunnerLate(r)
  /\ UNCHANGED <<server, starts, next_group_id, next_runner_id, listed, cstate, cluster, pc, server_msgs,
                 steps, refreshing, outcome, proc, task, queue, said>>

LookAgain ==
  /\ Main("runners") /\ removed # None
  /\ IF cstate[removed] = "running"
     THEN /\ removed' = None
          /\ UNCHANGED <<objects, listed, cstate, cluster, pc, todo, server_msgs, removal, refreshing, outcome, world>>
     ELSE Raises("main", "KeyError")

get_server_messages ==
  /\ Main("runners") /\ removed = None /\ todo = {}
  /\ pc' = "messages"
  /\ server_msgs' = queue
  /\ queue' = <<>>
  /\ UNCHANGED <<objects, listed, cstate, cluster, todo, removed, removal, refreshing, outcome,
                 proc, task, said, faults>>

(* Messages that concern dead runners are omitted. *)
ConcernsRunner(m) == m.type # "SERVER_NODE_NAME" => m.runner_id \in launched_runners

Concerns(m) == m.type \in {"TIMEOUT", "REGISTERED"} => m.runner_id \in launched_runners

HandleMessage ==
  LET m == Head(server_msgs)
      g == runner_group_of(m.runner_id)
  IN
  /\ Main("messages") /\ server_msgs # <<>>
  /\ CASE ~ Concerns(m) -> UNCHANGED <<server, runners, jobs, kills>>
       [] m.type = "SERVER_NODE_NAME" ->
            server' = [server EXCEPT !.node_name = m.node_name] /\ UNCHANGED <<runners, jobs, kills>>
       [] m.type = "TIMEOUT" /\ Concerns(m) -> RemoveGroup(g) /\ UNCHANGED <<server, jobs>>
       [] m.type = "REGISTERED" /\ Concerns(m) ->
            /\ runners' = [runners EXCEPT ![g].server_knows_it = @ \cup {m.runner_id}]
            /\ jobs' = UpdateJob(jobs, runners[g].job)
            /\ UNCHANGED <<server, kills>>
       [] m.type = "STOP" ->
            /\ runners' = Without(Groups)
            /\ kills' = Everything
            /\ UNCHANGED <<server, jobs>>
  /\ IF m.type = "STOP" /\ Concerns(m) THEN pc' = "final" /\ server_msgs' = <<>>
     ELSE server_msgs' = Tail(server_msgs) /\ UNCHANGED pc
  /\ UNCHANGED <<starts, next_group_id, next_runner_id, listed, cstate, nodes, todo, removed,
                 steps, refreshing, outcome, world>>

NextIteration ==
  /\ Main("messages") /\ server_msgs = <<>>
  /\ pc' = "server"
  /\ UNCHANGED <<objects, listed, cstate, cluster, todo, removed, server_msgs, removal, refreshing, outcome, world>>

EndStudy ==
  /\ Main("final")
  /\ BetweenRounds \/ refresher = "dead"
  /\ CleanUp
  /\ server' = None
  /\ outcome' = "ended"
  /\ UNCHANGED <<starts, runners, next_group_id, next_runner_id, listed, cstate, place, removal, refreshing>>

MainThread ==
  \/ StartServer \/ SeeServer \/ LaunchRunners \/ ServerGone \/ DropServer \/ ServerUp
  \/ LookAtRunner \/ LookAgain \/ get_server_messages \/ HandleMessage \/ NextIteration
  \/ EndStudy \/ KillJob

-----------------------------------------------------------------------------
(***************************************************************************)
(* The processes.                                                          *)
(***************************************************************************)
Message(type, s, r) == [type |-> type, node_name |-> s, runner_id |-> r]

IsServer(j) == task[j] # None /\ task[j].runner_ids = {}
Serves(s) == IsServer(s) /\ proc[s] = "running" /\ Message("STOP", s, None) \notin said
JobOf(r) == CHOOSE j \in JobIds : task[j] # None /\ r \in task[j].runner_ids
RunnerIds == UNION {task[j].runner_ids : j \in {j \in JobIds : task[j] # None}}

Say(m) == m \notin said /\ said' = said \cup {m} /\ queue' = Append(queue, m)

others == <<objects, listed, cstate, cluster, place, removal, refreshing, outcome, task>>

AnnounceServer(s) ==
  /\ Serves(s)
  /\ Say(Message("SERVER_NODE_NAME", s, None))
  /\ UNCHANGED <<others, proc, faults>>

(* A runner connects to the server whose node it was given. *)
NotifyRunner(s, r) ==
  /\ Serves(s) /\ Message("SERVER_NODE_NAME", s, None) \in said
  /\ task[JobOf(r)].node_name = s /\ proc[JobOf(r)] = "running"
  /\ Say(Message("REGISTERED", s, r))
  /\ UNCHANGED <<others, proc, faults>>

ReportTimeout(s, r) ==
  /\ Serves(s) /\ Message("REGISTERED", s, r) \in said
  /\ Late(JobOf(r))
  /\ Say(Message("TIMEOUT", s, r))
  /\ UNCHANGED <<others, proc>>

(* The last update is done: runners end, then the server. *)
StopStudy(s) ==
  /\ Serves(s) /\ \E r \in RunnerIds : Message("REGISTERED", s, r) \in said
  /\ Say(Message("STOP", s, None))
  /\ UNCHANGED <<others, proc, faults>>

EndProcess(j) ==
  /\ proc[j] = "running"
  /\ LET s == IF IsServer(j) THEN j ELSE task[j].node_name IN
     IF Message("STOP", s, None) \in said THEN UNCHANGED faults
     ELSE faults < MaxFaults /\ faults' = faults + 1
  /\ proc' = [proc EXCEPT ![j] = "ended"]
  /\ UNCHANGED <<others, queue, said>>

Processes ==
  \/ \E s \in JobIds :
       \/ AnnounceServer(s) \/ StopStudy(s)
       \/ \E r \in RunnerIds : NotifyRunner(s, r) \/ ReportTimeout(s, r)
  \/ \E j \in JobIds : EndProcess(j)

-----------------------------------------------------------------------------
Init ==
  /\ server = None /\ starts = 0
  /\ runners = <<>> /\ next_group_id = 0 /\ next_runner_id = 0
  /\ listed = {} /\ cstate = [j \in JobIds |-> "waiting"]
  /\ jobs = [j \in JobIds |-> None] /\ nodes = [n \in Nodes |-> "free"]
  /\ pc = "server" /\ todo = {} /\ removed = None /\ server_msgs = <<>>
  /\ kills = <<>> /\ removing = [t \in Threads |-> "no"] /\ to_free = [t \in Threads |-> {}]
  /\ snapshot = {} /\ polled = None /\ refresher = "alive"
  /\ outcome = "up"
  /\ proc = [j \in JobIds |-> "none"] /\ task = [j \in JobIds |-> None]
  /\ queue = <<>> /\ said = {} /\ faults = 0

Next == MainThread \/ refresh_states \/ Processes

Spec == Init /\ [][Next]_vars

(* Both threads get on, a refresher that starts a round ends it, and a     *)
(* server that has ended is silent for long enough some day.               *)
Fairness ==
  /\ WF_vars(MainThread)
  /\ WF_vars(refresh_states)
  /\ SF_vars(server # None /\ proc[server.job] = "ended" /\ ServerGone)

FairSpec == Spec /\ Fairness

-----------------------------------------------------------------------------
Up == outcome = "up"
ServerJobs == IF server = None THEN {} ELSE {server.job}

(* As long as the launcher works, each running process is one that it      *)
(* knows of or is about to kill, and nothing runs after a study has ended: *)
(* no second server, no runner of an earlier server.                       *)
NoOrphans ==
  \A j \in JobIds : proc[j] = "running" =>
    /\ outcome # "ended"
    /\ Up => j \in AllJobs \cup ServerJobs \cup Range(kills)

(* The nodes of the allocation are enough for the server and as many       *)
(* runners as max_runners() asks for.                                      *)
EnoughNodes ==
  IF Cluster = "Local" THEN NodesServer = 1 /\ NodesRunner = 1 /\ GroupSize = 1
  ELSE NodesServer <= NbNodes /\ \A mr \in Loads : NodesServer + mr * NodesRunner <= NbNodes

(* A job has its nodes until a thread that removes it frees them. *)
Removes(t, j) == removing[t] \in {"freeing", "deleting"} /\ Target(t) = j
Has(j, n) ==
  /\ jobs[j] # None /\ n \in jobs[j].vcoords
  /\ \A t \in Threads : Removes(t, j) => n \in to_free[t]

(* A thread frees the nodes of a job that the other has removed or is      *)
(* removing as well: it will fail at the vcoord file.                      *)
RemovedTwice ==
  \E t, u \in Threads :
    /\ t # u /\ removing[t] = "freeing"
    /\ jobs[Target(t)] = None \/ Removes(u, Target(t))

(* A node that is not free is some job's, whatever the threads do, and one *)
(* job's alone as long as no job was removed twice; every process that     *)
(* runs is in the table.  If there are EnoughNodes, the assertion of       *)
(* ScheduleJob that enough are left never fails (fugaku.py:105).           *)
NodesAgree ==
  LET holders(n) == {j \in JobIds : Has(j, n)} IN
  /\ outcome # "no nodes"
  /\ Up => /\ \A n \in Nodes : nodes[n] # "free" => holders(n) # {}
           /\ ~ RemovedTwice =>
                \A n \in Nodes : Cardinality(holders(n)) = (IF nodes[n] = "free" THEN 0 ELSE 1)
           /\ \A j \in JobIds : proc[j] = "running" => jobs[j] # None

(* A job's nodes are never free to be given to another: does not hold, for *)
(* a late RemoveJob frees nodes that a new job has got (fugaku.py:237).    *)
NodesStayTaken ==
  Up => \A j \in JobIds, n \in Nodes : Has(j, n) => nodes[n] # "free"

(* Never two jobs have a node: does not hold either. *)
NodesNotShared ==
  Up => \A i, j \in JobIds, n \in Nodes : Has(i, n) /\ Has(j, n) => i = j

(* A server is found on the node that it announced: does not hold, for the *)
(* message of an earlier server may be read after it was replaced          *)
(* (melissa_da_study.py:450).                                              *)
NodeNameIsServers ==
  Up /\ server # None => server.node_name \in {None, server.job}

(* A server or runner that was seen running and has ended is replaced.     *)
DeadServerReplaced ==
  \A j \in JobIds :
    (server # None /\ server.job = j /\ server.state = "running" /\ proc[j] = "ended")
      ~> (~ Up \/ j \notin ServerJobs)

DeadRunnerReplaced ==
  \A j \in JobIds :
    (\E g \in Groups : runners[g].job = j /\ runners[g].state = "running" /\ proc[j] = "ended")
      ~> (~ Up \/ refresher = "dead" \/ j \notin AllJobs)

(* The same for a runner that ended before it was seen.                    *)
DeadRunnerNoticed ==
  \A j \in JobIds :
    (j \in AllJobs /\ proc[j] = "ended") ~> (~ Up \/ refresher = "dead" \/ j \notin AllJobs)

(* After STOP the launcher ends, unless one of its threads is stuck.       *)
StopEndsStudy ==
  (\E s \in JobIds : Message("STOP", s, None) \in said)
    ~> (~ Up \/ refresher = "dead"
           \/ (server # None /\ server.state = "waiting" /\ proc[server.job] = "ended"))

(* A server that may not restart is never started twice (line 222).        *)
RestartAllowed == outcome # "may not restart"
=============================================================================
