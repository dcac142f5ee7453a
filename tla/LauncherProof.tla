---------------------------- MODULE LauncherProof ----------------------------
(***************************************************************************)
(* The launcher loses no process and runs out of no nodes, for every       *)
(* number of nodes, jobs, servers, runners and faults, on both clusters,   *)
(* although two threads change the job table and the nodes without a lock. *)
(***************************************************************************)
EXTENDS Launcher, FiniteSetTheorems, SequenceTheorems, TLAPS

-----------------------------------------------------------------------------
(***************************************************************************)
(* The inductive invariant.                                                *)
(***************************************************************************)
MainPlaces == {"server", "launch", "check", "cleanup", "runners", "messages", "final"}

(* What a job is started with: the runners of its group, and the server    *)
(* that it was told of.                                                    *)
Tasks == [runner_ids : SUBSET Nat, node_name : JobIds \cup {None}]
Messages ==
  [type : {"SERVER_NODE_NAME", "REGISTERED", "TIMEOUT", "STOP"}, node_name : JobIds,
   runner_id : Nat \cup {None}]

(* How far a thread is with the job it removes. *)
Phases == {"no", "found", "killed", "freeing", "deleting"}
IsFreeing(t) == removing[t] \in {"freeing", "deleting"}

(* The type of every variable that the properties depend on. *)
TypeOK ==
  /\ server \in ServerObjects \cup {None}
  /\ next_group_id \in Nat /\ next_runner_id \in Nat
  /\ Groups \subseteq 0 .. next_group_id - 1
  /\ runners \in [Groups -> RunnerObjects]
  /\ listed \subseteq JobIds
  /\ cstate \in [JobIds -> {"waiting", "running", "stop"}]
  /\ jobs \in [JobIds -> Entries \cup {None}]
  /\ nodes \in [Nodes -> {"free", "server", "runner"}]
  /\ pc \in MainPlaces
  /\ kills \in Seq(JobIds)
  /\ removing \in [Threads -> Phases] /\ to_free \in [Threads -> SUBSET Nodes]
  /\ server_msgs \in Seq(Messages) /\ queue \in Seq(Messages)
  /\ snapshot \subseteq JobIds /\ polled \in JobIds \cup {None}
  /\ proc \in [JobIds -> {"none", "running", "ended"}]
  /\ task \in [JobIds -> Tasks \cup {None}]

(* Jobs that have been scheduled. *)
Started == {j \in JobIds : proc[j] # "none"}

(* Jobs that the cluster knows of. *)
InTable == {j \in JobIds : jobs[j] # None}

(* Jobs that the main thread knows of or is about to kill. *)
KnownJobs == AllJobs \cup ServerJobs \cup Range(kills)

(* What the launcher has not heard of is not in any table. *)
OnlyStarted ==
  /\ Started = 1 .. Cardinality(Started)
  /\ KnownJobs \cup InTable \cup listed \cup snapshot \subseteq Started
  /\ polled # None => proc[polled] = "ended"
  /\ \A j \in Started : task[j] \in Tasks

(* A process that runs is in the table of the cluster; what is there is    *)
(* known to the main thread, and a job that it is to kill is found, unless *)
(* it is gone.                                                             *)
Tracked ==
  /\ \A j \in JobIds : proc[j] = "running" => j \in InTable
  /\ InTable \subseteq KnownJobs
  /\ \A j \in InTable : cstate[j] # "stop"
  /\ \A j \in InTable : j \in listed \/ (removing["main"] # "no" /\ j = Head(kills))

(* A thread removes a job whose process has ended.  Only one of them gets  *)
(* past the vcoord file.                                                   *)
Removals ==
  /\ removing["main"] # "no" => Busy
  /\ \A t \in Threads : removing[t] \notin {"no", "found"} =>
       Target(t) \in JobIds /\ proc[Target(t)] = "ended"
  /\ \A t \in Threads : removing[t] = "freeing" /\ jobs[Target(t)] # None =>
       to_free[t] \subseteq jobs[Target(t)].vcoords
  /\ \A t \in Threads : removing[t] = "deleting" =>
       jobs[Target(t)] # None /\ ~ jobs[Target(t)].vcoordfile /\ to_free[t] = {}
  /\ \A t, u \in Threads :
       removing[t] = "deleting" /\ removing[u] = "deleting" /\ Target(t) = Target(u) => t = u
  /\ Cluster = "Local" => \A t \in Threads : ~ IsFreeing(t)

(* The server is there when it is asked for, and before the study or the   *)
(* server's life ends every job has been killed or is about to be.         *)
InPlace ==
  /\ pc # "server" => server # None
  /\ server = None => Groups = {} /\ ~ Busy
  /\ pc \in {"cleanup", "final"} => Groups = {} /\ InTable \subseteq Range(kills)

(* A node that is not free is held by a job of the table, and by one only  *)
(* as long as no job was removed twice.                                    *)
NodesHeld ==
  /\ \A n \in Nodes : nodes[n] # "free" => \E j \in JobIds : Has(j, n)
  /\ ~ RemovedTwice =>
       \A j \in JobIds, n \in Nodes : Has(j, n) =>
         nodes[n] # "free" /\ \A i \in JobIds : Has(i, n) => i = j
  /\ Cluster = "Local" => \A j \in InTable : jobs[j].vcoords = {}

UsedNodes == {n \in Nodes : nodes[n] # "free"}

(* Servers, runners and nodes of some jobs. *)
ServersOf(S) == {j \in S : task[j].runner_ids = {}}
RunnersOf(S) == UNION {task[j].runner_ids : j \in S}
NodesUsedBy(S) == UNION {jobs[j].vcoords : j \in S}

(* The main thread's records agree with what the jobs were started with,   *)
(* and no two jobs were started with a runner.                             *)
Described ==
  /\ \A j \in Started : task[j].runner_ids \subseteq 0 .. next_runner_id - 1
  /\ \A i, j \in Started : i # j => task[i].runner_ids \cap task[j].runner_ids = {}
  /\ \A g \in Groups : /\ runners[g].runner_ids = task[runners[g].job].runner_ids
                       /\ runners[g].runner_ids # {}
  /\ server # None => task[server.job].runner_ids = {}

(* On Fugaku, jobs of the table have no more nodes than their servers and  *)
(* runners ask for.  It is said of every part of the table, so that it     *)
(* remains true when jobs leave it.                                        *)
NodesCounted ==
  Cluster = "Fugaku" =>
    \A S \in SUBSET InTable :
      Cardinality(NodesUsedBy(S)) <=
        Cardinality(ServersOf(S)) * NodesServer + Cardinality(RunnersOf(S)) * NodesRunner

(* What holds as long as the launcher works. *)
Orderly == OnlyStarted /\ Tracked /\ Removals /\ InPlace /\ NodesHeld /\ Described /\ NodesCounted

(* Nothing runs after a study has ended. *)
Ended == outcome = "ended" => \A j \in JobIds : proc[j] # "running"

(* The inductive invariant. *)
Inv == TypeOK /\ Ended /\ (Up => Orderly)

-----------------------------------------------------------------------------
(* The rank of an element of a finite set of numbers. *)
Rank(S) == [x \in S |-> Cardinality({k \in S : k <= x})]

(* The rank of its elements enumerates a finite set in order. *)
LEMMA RankIsBijection ==
  ASSUME NEW S \in SUBSET Nat, IsFiniteSet(S)
  PROVE  /\ Rank(S) \in Bijection(S, 1 .. Cardinality(S))
         /\ \A x, y \in S : x < y => Rank(S)[x] < Rank(S)[y]
<1> DEFINE Upto(x) == {k \in S : k <= x}
           n == Cardinality(S)
<1>1. \A x \in S : Rank(S)[x] = Cardinality(Upto(x))
  BY DEF Rank
<1>2. n \in Nat
  BY FS_CardinalityType
<1>3. ASSUME NEW x \in S
      PROVE  IsFiniteSet(Upto(x)) /\ Cardinality(Upto(x)) \in 1 .. n
  <2>1. IsFiniteSet(Upto(x)) /\ Cardinality(Upto(x)) <= n
    BY FS_Subset
  <2>2. Cardinality(Upto(x)) \in Nat /\ (Cardinality(Upto(x)) = 0 => Upto(x) = {})
    BY <2>1, FS_CardinalityType, FS_EmptySet
  <2>3. x \in Upto(x)
    OBVIOUS
  <2> QED
    BY <2>1, <2>2, <2>3, <1>2
<1>4. ASSUME NEW x \in S, NEW y \in S, x < y
      PROVE  Rank(S)[x] < Rank(S)[y]
  <2>0. x \in Nat /\ y \in Nat
    OBVIOUS
  <2>1. Upto(x) \in SUBSET Upto(y) /\ y \in Upto(y) /\ y \notin Upto(x)
    <3>1. \A k \in S : k <= x => k <= y
      BY <1>4, <2>0
    <3>2. y <= y /\ ~ y <= x
      BY <1>4, <2>0
    <3> QED
      BY <3>1, <3>2
  <2>2. Cardinality(Upto(x)) <= Cardinality(Upto(y)) /\ Cardinality(Upto(x)) # Cardinality(Upto(y))
    <3>1. Cardinality(Upto(x)) <= Cardinality(Upto(y))
          /\ (Cardinality(Upto(y)) = Cardinality(Upto(x)) => Upto(y) = Upto(x))
      BY <2>1, <1>3, FS_Subset
    <3> QED
      BY <3>1, <2>1
  <2> QED
    BY <2>2, <1>1, <1>3, <1>2
<1>5. Rank(S) \in [S -> 1 .. n]
  BY <1>1, <1>3 DEF Rank
<1>6. \A x, y \in S : Rank(S)[x] = Rank(S)[y] => x = y
  <2> SUFFICES ASSUME NEW x \in S, NEW y \in S, x # y
               PROVE  Rank(S)[x] # Rank(S)[y]
    OBVIOUS
  <2>1. Rank(S)[x] \in 1 .. n /\ Rank(S)[y] \in 1 .. n
    BY <1>5
  <2>2. x < y \/ y < x
    OBVIOUS
  <2> QED
    BY <2>1, <2>2, <1>4, <1>2
<1>7. Rank(S) \in Injection(S, 1 .. n)
  BY <1>5, <1>6 DEF Injection, IsInjective
<1>8. IsFiniteSet(1 .. n) /\ Cardinality(1 .. n) = n
  BY <1>2, FS_Interval
<1>9. Rank(S) \in Surjection(S, 1 .. n)
  BY <1>7, <1>8, FS_Injection
<1> HIDE DEF n, Upto
<1> QED
  BY <1>4, <1>7, <1>9 DEF Bijection, n

(* The first n elements are as many as there are. *)
LEMMA FirstHasSize ==
  ASSUME NEW S \in SUBSET Nat, IsFiniteSet(S), NEW n \in Nat, n <= Cardinality(S)
  PROVE  /\ First(n, S) \subseteq S
         /\ IsFiniteSet(First(n, S))
         /\ Cardinality(First(n, S)) = n
<1>1. PICK f : f = Rank(S)
  OBVIOUS
<1>2. f \in Bijection(S, 1 .. Cardinality(S))
  BY <1>1, RankIsBijection
<1>3. First(n, S) = {x \in S : f[x] <= n}
  BY <1>1 DEF First, Rank
<1> DEFINE T == {x \in S : f[x] <= n}
           g == [x \in T |-> f[x]]
<1>4. Cardinality(S) \in Nat
  BY FS_CardinalityType
<1>5. g \in Bijection(T, 1 .. n)
  <2>1. \A x \in S : f[x] \in 1 .. Cardinality(S)
    BY <1>2 DEF Bijection, Injection
  <2>2. g \in [T -> 1 .. n]
    <3>1. \A x \in T : f[x] \in 1 .. n
      BY <2>1, <1>4
    <3> QED
      BY <3>1
  <2>3. \A x, y \in T : g[x] = g[y] => x = y
    BY <1>2 DEF Bijection, Injection, IsInjective
  <2>4. \A i \in 1 .. n : \E x \in T : g[x] = i
    <3> SUFFICES ASSUME NEW i \in 1 .. n
                 PROVE  \E x \in T : g[x] = i
      OBVIOUS
    <3>1. i \in 1 .. Cardinality(S)
      BY <1>4
    <3>2. PICK x \in S : f[x] = i
      BY <1>2, <3>1 DEF Bijection, Surjection
    <3> QED
      BY <3>2
  <2> QED
    BY <2>2, <2>3, <2>4 DEF Bijection, Injection, Surjection, IsInjective
<1>6. T \subseteq S /\ IsFiniteSet(T)
  BY FS_Subset
<1>7. Cardinality(1 .. n) = Cardinality(T)
  BY <1>5, <1>6, FS_Bijection DEF ExistsBijection
<1> HIDE DEF T
<1> QED
  BY <1>3, <1>6, <1>7, FS_Interval DEF T

(* InOrder names every element once. *)
LEMMA InOrderIsEnumeration ==
  ASSUME NEW S \in SUBSET Nat, IsFiniteSet(S)
  PROVE  InOrder(S) \in Seq(S) /\ Range(InOrder(S)) = S
<1> DEFINE n == Cardinality(S)
<1>1. PICK f : f = Rank(S)
  OBVIOUS
<1>2. f \in Bijection(S, 1 .. n) /\ \A x, y \in S : x < y => f[x] < f[y]
  BY <1>1, RankIsBijection
<1>3. n \in Nat
  BY FS_CardinalityType
<1> DEFINE s == [i \in 1 .. n |-> CHOOSE x \in S : f[x] = i]
<1> HIDE DEF n
<1>4. \A i \in 1 .. n : s[i] \in S /\ f[s[i]] = i
  BY <1>2 DEF Bijection, Surjection
<1>5. s \in [1 .. n -> S]
  BY <1>4
<1>6. \A i, k \in 1 .. n : s[i] = s[k] => i = k
  BY <1>4
<1>7. \A i, k \in DOMAIN s : i < k => s[i] < s[k]
  <2> SUFFICES ASSUME NEW i \in 1 .. n, NEW k \in 1 .. n, i < k, ~ s[i] < s[k]
               PROVE  FALSE
    BY <1>5
  <2>1. s[k] < s[i]
    <3>1. s[i] \in Nat /\ s[k] \in Nat /\ s[i] # s[k]
      <4>1. i # k
        BY <1>3
      <4>2. s[i] \in S /\ s[k] \in S
        BY <1>4
      <4>3. s[i] # s[k]
        BY <1>6, <4>1
      <4> QED
        BY <4>2, <4>3
    <3> QED
      BY <3>1
  <2>2. f[s[k]] < f[s[i]]
    BY <2>1, <1>4, <1>2
  <2> QED
    BY <2>2, <1>4, <1>3
<1>8. s \in InAnyOrder(S)
  BY <1>5, <1>6 DEF InAnyOrder, IsInjective, n
<1> HIDE DEF s
<1>9. InOrder(S) \in InAnyOrder(S)
  BY <1>7, <1>8 DEF InOrder
<1>10. InOrder(S) \in [1 .. n -> S] /\ IsInjective(InOrder(S))
  BY <1>9 DEF InAnyOrder, n
<1>11. InOrder(S) \in Surjection(1 .. n, S)
  <2>1. InOrder(S) \in Injection(1 .. n, S)
    BY <1>10 DEF Injection
  <2>2. Cardinality(1 .. n) = Cardinality(S)
    BY <1>3, FS_Interval DEF n
  <2> QED
    BY <2>1, <2>2, FS_Injection
<1>12. InOrder(S) \in Seq(S)
  BY <1>3, <1>10
<1>13. Range(InOrder(S)) = S
  BY <1>10, <1>11 DEF Range, Surjection
<1> QED
  BY <1>12, <1>13

-----------------------------------------------------------------------------
(* Sequences of jobs. *)
LEMMA RangeOfSequences ==
  /\ Range(<<>>) = {}
  /\ \A x : Range(<<x>>) = {x}
  /\ \A s \in Seq(JobIds) : Range(s) \subseteq JobIds
  /\ \A s \in Seq(JobIds) : s # <<>> =>
       /\ Head(s) \in JobIds /\ Head(s) \in Range(s) /\ Tail(s) \in Seq(JobIds)
       /\ Range(s) = {Head(s)} \cup Range(Tail(s))
  /\ \A s \in Seq(JobIds), x \in JobIds :
       Append(s, x) \in Seq(JobIds) /\ Range(Append(s, x)) = Range(s) \cup {x}
<1>1. Range(<<>>) = {} /\ \A x : Range(<<x>>) = {x}
  BY DEF Range
<1>2. \A s \in Seq(JobIds) : Range(s) \subseteq JobIds
  BY DEF Range
<1>3. ASSUME NEW s \in Seq(JobIds), s # <<>>
      PROVE  /\ Head(s) \in JobIds /\ Head(s) \in Range(s) /\ Tail(s) \in Seq(JobIds)
             /\ Range(s) = {Head(s)} \cup Range(Tail(s))
  <2>1. Len(s) \in Nat /\ Len(s) >= 1 /\ Head(s) = s[1] /\ DOMAIN s = 1 .. Len(s) /\ s[1] \in JobIds
    BY <1>3
  <2>2. Tail(s) \in Seq(JobIds) /\ DOMAIN Tail(s) = 1 .. Len(s) - 1
        /\ \A i \in 1 .. Len(s) - 1 : Tail(s)[i] = s[i + 1]
    BY <1>3, <2>1
  <2>3. Range(Tail(s)) \subseteq Range(s)
    BY <2>1, <2>2 DEF Range
  <2>4. ASSUME NEW i \in 1 .. Len(s)
        PROVE  s[i] \in {Head(s)} \cup Range(Tail(s))
    <3>1. CASE i = 1
      BY <3>1, <2>1
    <3>2. CASE i # 1
      <4>1. i - 1 \in 1 .. Len(s) - 1 /\ Tail(s)[i - 1] = s[i]
        BY <3>2, <2>1, <2>2
      <4> QED
        BY <4>1, <2>2 DEF Range
    <3> QED
      BY <3>1, <3>2
  <2> QED
    BY <2>1, <2>2, <2>3, <2>4 DEF Range
<1>4. ASSUME NEW s \in Seq(JobIds), NEW x \in JobIds
      PROVE  Append(s, x) \in Seq(JobIds) /\ Range(Append(s, x)) = Range(s) \cup {x}
  <2>1. Append(s, x) \in Seq(JobIds) /\ DOMAIN Append(s, x) = 1 .. Len(s) + 1
        /\ DOMAIN s = 1 .. Len(s) /\ Len(s) \in Nat
        /\ Append(s, x)[Len(s) + 1] = x
        /\ \A i \in 1 .. Len(s) : Append(s, x)[i] = s[i]
    OBVIOUS
  <2>2. Range(Append(s, x)) \subseteq Range(s) \cup {x}
    BY <2>1 DEF Range
  <2>3. Range(s) \cup {x} \subseteq Range(Append(s, x))
    BY <2>1 DEF Range
  <2> QED
    BY <2>1, <2>2, <2>3
<1> QED
  BY <1>1, <1>2, <1>3, <1>4

(* What is killed at the end of a study, or with the server. *)
LEMMA EverythingIsKilled ==
  ASSUME TypeOK, server # None
  PROVE  /\ Everything \in Seq(JobIds)
         /\ Range(Everything) = AllJobs \cup ServerJobs
<1>1. AllJobs \subseteq JobIds /\ server.job \in JobIds
  BY DEF TypeOK, AllJobs, RunnerObjects, ServerObjects
<1>2. JobIds \subseteq Nat /\ IsFiniteSet(JobIds)
  BY FS_Interval, LauncherAssumption DEF JobIds
<1>3. AllJobs \in SUBSET Nat /\ IsFiniteSet(AllJobs)
  BY <1>1, <1>2, FS_Subset
<1>4. InOrder(AllJobs) \in Seq(AllJobs) /\ Range(InOrder(AllJobs)) = AllJobs
  BY <1>3, InOrderIsEnumeration
<1>5. InOrder(AllJobs) \in Seq(JobIds)
  BY <1>1, <1>4
<1> QED
  BY <1>1, <1>4, <1>5, RangeOfSequences DEF Everything, ServerJobs

(* A launched runner is in the group it is said to be of. *)
LEMMA GroupOfRunner ==
  ASSUME NEW r \in launched_runners
  PROVE  runner_group_of(r) \in Groups /\ r \in runners[runner_group_of(r)].runner_ids
BY DEF launched_runners, runner_group_of

(* Groups that go are those whose jobs are killed. *)
LEMMA JobsOfTheRest ==
  ASSUME TypeOK, NEW gs \in SUBSET Groups
  PROVE  /\ Without(gs) \in [Groups \ gs -> RunnerObjects]
         /\ DOMAIN Without(gs) = Groups \ gs
         /\ \A g \in Groups \ gs : Without(gs)[g] = runners[g]
         /\ AllJobs = {Without(gs)[g].job : g \in Groups \ gs} \cup {runners[g].job : g \in gs}
<1>1. Without(gs) \in [Groups \ gs -> RunnerObjects]
  BY DEF Without, TypeOK
<1> QED
  BY <1>1 DEF Without, AllJobs

-----------------------------------------------------------------------------
(***************************************************************************)
(* The table of jobs and the nodes, when nothing happens to them, when a   *)
(* job is added and when a thread removes one.                             *)
(***************************************************************************)
(* A job holds what it held. *)
LEMMA NodesAreHeldAsBefore ==
  ASSUME NEW j \in JobIds, NEW n,
         InTable' = InTable, UNCHANGED to_free,
         \A i \in InTable : jobs'[i].vcoords = jobs[i].vcoords,
         \A t \in Threads : Removes(t, j)' <=> Removes(t, j)
  PROVE  Has(j, n)' <=> Has(j, n)
<1>1. CASE j \in InTable
  <2>1. jobs[j] # None /\ jobs'[j] # None /\ jobs'[j].vcoords = jobs[j].vcoords
    BY <1>1 DEF InTable
  <2> QED
    BY <2>1 DEF Has
<1>2. CASE j \notin InTable
  <2>1. jobs[j] = None /\ jobs'[j] = None
    BY <1>2 DEF InTable
  <2> QED
    BY <2>1 DEF Has
<1> QED
  BY <1>1, <1>2

(* Jobs that stay in the table are counted as before. *)
LEMMA CountedWithoutSomeJobs ==
  ASSUME NodesCounted, InTable' \subseteq InTable, UNCHANGED task,
         \A j \in InTable' : jobs'[j].vcoords = jobs[j].vcoords
  PROVE  NodesCounted'
<1>1. ASSUME NEW S \in SUBSET InTable'
      PROVE  NodesUsedBy(S)' = NodesUsedBy(S) /\ ServersOf(S)' = ServersOf(S) /\ RunnersOf(S)' = RunnersOf(S)
  BY DEF NodesUsedBy, ServersOf, RunnersOf
<1>2. SUBSET InTable' \subseteq SUBSET InTable
  OBVIOUS
<1> QED
  BY <1>1, <1>2 DEF NodesCounted

(* No thread starts or ends to free nodes, and none changes hands. *)
LEMMA HoldersKept ==
  ASSUME Removals, NodesHeld, NodesCounted, InTable' = InTable, UNCHANGED <<nodes, task, to_free>>,
         \A j \in InTable : jobs'[j].vcoords = jobs[j].vcoords,
         \A t \in Threads : IsFreeing(t) \/ IsFreeing(t)' =>
           removing'[t] = removing[t] /\ Target(t)' = Target(t)
  PROVE  NodesHeld' /\ NodesCounted'
<1>1. \A j : \A t \in Threads : Removes(t, j)' <=> Removes(t, j)
  BY DEF Removes, IsFreeing
<1>2. \A n : \A j \in JobIds : Has(j, n)' <=> Has(j, n)
  BY <1>1, NodesAreHeldAsBefore
<1>3. RemovedTwice' <=> RemovedTwice
  <2>1. \A t \in Threads : removing'[t] = "freeing" <=> removing[t] = "freeing"
    BY DEF IsFreeing
  <2>2. \A t \in Threads : removing[t] = "freeing" => Target(t)' = Target(t) /\ Target(t) \in JobIds
    BY DEF IsFreeing, Removals
  <2>3. \A j \in JobIds : jobs'[j] = None <=> jobs[j] = None
    BY DEF InTable
  <2>4. \A t \in Threads : removing[t] = "freeing" =>
           (jobs'[Target(t)'] = None <=> jobs[Target(t)] = None)
    BY <2>2, <2>3
  <2>5. \A t, u \in Threads : removing[t] = "freeing" =>
           (Removes(u, Target(t))' <=> Removes(u, Target(t)))
    BY <2>2, <1>1 DEF Removes
  <2> QED
    BY <2>1, <2>4, <2>5 DEF RemovedTwice
<1>4. NodesHeld'
  BY <1>2, <1>3 DEF NodesHeld
<1>5. NodesCounted'
  BY CountedWithoutSomeJobs
<1> QED
  BY <1>4, <1>5

(* No thread gets on with the job it removes. *)
LEMMA TableKept ==
  ASSUME Removals, NodesHeld, NodesCounted, InTable' = InTable,
         UNCHANGED <<nodes, task, removing, to_free, polled>>,
         removing["main"] # "no" => kills' = kills,
         \A j \in InTable :
           jobs'[j].vcoords = jobs[j].vcoords /\ jobs'[j].vcoordfile = jobs[j].vcoordfile,
         \A j \in JobIds : proc[j] = "ended" => proc'[j] = "ended"
  PROVE  Removals' /\ NodesHeld' /\ NodesCounted'
<1>1. \A t \in Threads : removing[t] # "no" => Target(t)' = Target(t)
  BY DEF Target
<1>2. \A t \in Threads : removing[t] \notin {"no", "found"} => Target(t) \in JobIds
  BY DEF Removals
<1>3. \A j \in JobIds : jobs'[j] = None <=> jobs[j] = None
  BY DEF InTable
<1>4. \A j \in JobIds : jobs[j] # None =>
        jobs'[j].vcoords = jobs[j].vcoords /\ jobs'[j].vcoordfile = jobs[j].vcoordfile
  BY DEF InTable
<1>5. Removals'
  <2>1. removing'["main"] # "no" => Busy'
    BY DEF Removals, Busy
  <2>2. \A t \in Threads : removing'[t] \notin {"no", "found"} =>
          Target(t)' \in JobIds /\ proc'[Target(t)'] = "ended"
    BY <1>1 DEF Removals
  <2>3. \A t \in Threads : removing'[t] = "freeing" /\ jobs'[Target(t)'] # None =>
          to_free'[t] \subseteq jobs'[Target(t)'].vcoords
    BY <1>1, <1>2, <1>3, <1>4 DEF Removals
  <2>4. \A t \in Threads : removing'[t] = "deleting" =>
          jobs'[Target(t)'] # None /\ ~ jobs'[Target(t)'].vcoordfile /\ to_free'[t] = {}
    BY <1>1, <1>2, <1>3, <1>4 DEF Removals
  <2>5. \A t, u \in Threads :
          removing'[t] = "deleting" /\ removing'[u] = "deleting" /\ Target(t)' = Target(u)' => t = u
    BY <1>1 DEF Removals
  <2>6. Cluster = "Local" => \A t \in Threads : ~ IsFreeing(t)'
    BY DEF Removals, IsFreeing
  <2> QED
    BY <2>1, <2>2, <2>3, <2>4, <2>5, <2>6 DEF Removals
<1>6. \A j \in InTable : jobs'[j].vcoords = jobs[j].vcoords
  OBVIOUS
<1>7. \A t \in Threads : IsFreeing(t) \/ IsFreeing(t)' =>
        removing'[t] = removing[t] /\ Target(t)' = Target(t)
  BY <1>1 DEF IsFreeing
<1> QED
  BY <1>5, <1>6, <1>7, HoldersKept

(* Nodes are free or in use, and there are NbNodes of them. *)
LEMMA FreeNodesAreFinite ==
  /\ FreeNodes \in SUBSET Nat /\ FreeNodes \subseteq Nodes /\ IsFiniteSet(FreeNodes)
  /\ IsFiniteSet(Nodes) /\ Cardinality(Nodes) = NbNodes
  /\ UsedNodes \subseteq Nodes /\ IsFiniteSet(UsedNodes)
  /\ Cardinality(FreeNodes) = NbNodes - Cardinality(UsedNodes)
<1>1. IsFiniteSet(Nodes) /\ Cardinality(Nodes) = NbNodes /\ Nodes \subseteq Nat
  BY FS_Interval, LauncherAssumption DEF Nodes
<1>2. FreeNodes \subseteq Nodes /\ UsedNodes \subseteq Nodes /\ FreeNodes = Nodes \ UsedNodes
      /\ Nodes \cap UsedNodes = UsedNodes
  BY DEF FreeNodes, UsedNodes
<1>3. IsFiniteSet(FreeNodes) /\ IsFiniteSet(UsedNodes)
  BY <1>1, <1>2, FS_Subset
<1>4. Cardinality(Nodes \ UsedNodes) = Cardinality(Nodes) - Cardinality(Nodes \cap UsedNodes)
  BY <1>1, FS_Difference
<1> QED
  BY <1>1, <1>2, <1>3, <1>4

(* A new job gets as many free nodes as it asks for. *)
LEMMA NodesOfANewJob ==
  ASSUME NEW n \in Nat, CanSchedule(n)
  PROVE  /\ Vcoords(n) \subseteq FreeNodes /\ IsFiniteSet(Vcoords(n))
         /\ Cluster = "Fugaku" => Cardinality(Vcoords(n)) = n
<1>1. CASE Cluster = "Local"
  BY <1>1, FS_EmptySet DEF Vcoords
<1>2. CASE Cluster = "Fugaku"
  BY <1>2, FirstHasSize, FreeNodesAreFinite DEF Vcoords, CanSchedule
<1> QED
  BY <1>1, <1>2, LauncherAssumption

(* ScheduleJob enters one new job, on nodes that were free, and starts its *)
(* process.                                                                *)
LEMMA JobAdded ==
  ASSUME TypeOK, OnlyStarted,
         NEW n \in Nat, CanSchedule(n), NEW kind \in {"server", "runner"}, NEW what \in Tasks,
         ScheduleJob(n, kind, what)
  PROVE  /\ NextJob \in JobIds /\ NextJob \notin Started /\ NextJob \notin InTable
         /\ Started' = Started \cup {NextJob} /\ Started' = 1 .. Cardinality(Started')
         /\ InTable' = InTable \cup {NextJob}
         /\ jobs' \in [JobIds -> Entries \cup {None}]
         /\ jobs'[NextJob].vcoords = Vcoords(n)
         /\ \A i \in InTable : jobs'[i] = jobs[i]
         /\ \A i \in JobIds \ {NextJob} : jobs'[i] = jobs[i] /\ proc'[i] = proc[i]
         /\ nodes' \in [Nodes -> {"free", "server", "runner"}]
         /\ UsedNodes' = UsedNodes \cup Vcoords(n)
         /\ task' \in [JobIds -> Tasks \cup {None}]
         /\ task'[NextJob] = what
         /\ \A i \in Started : task'[i] = task[i]
         /\ proc' \in [JobIds -> {"none", "running", "ended"}]
<1> DEFINE j == NextJob
           c == Cardinality(Started)
<1>1. IsFiniteSet(Started) /\ c \in Nat
  <2>1. IsFiniteSet(JobIds) /\ Started \in SUBSET JobIds
    BY FS_Interval, LauncherAssumption DEF JobIds, Started
  <2> QED
    BY <2>1, FS_Subset, FS_CardinalityType
<1>2. j = 1 + c /\ Started = 1 .. c
  BY DEF NextJob, Started, OnlyStarted
<1>3. j \in JobIds /\ j \notin Started
  BY <1>1, <1>2 DEF ScheduleJob
<1>4. j \notin InTable
  BY <1>3 DEF OnlyStarted
<1> HIDE DEF j
<1>5. /\ proc' = [proc EXCEPT ![j] = "running"] /\ task' = [task EXCEPT ![j] = what]
      /\ jobs' = [jobs EXCEPT ![j] = [vcoords |-> Vcoords(n), children |-> FALSE, vcoordfile |-> TRUE]]
      /\ nodes' = [i \in Nodes |-> IF i \in Vcoords(n) THEN kind ELSE nodes[i]]
  BY DEF ScheduleJob, j
<1>6. Started' = Started \cup {j}
  BY <1>3, <1>5 DEF Started, TypeOK
<1>7. Started' = 1 .. Cardinality(Started')
  <2>1. Cardinality(Started \cup {j}) = c + 1
    BY <1>1, <1>3, FS_AddElement
  <2>2. 1 .. c + 1 = (1 .. c) \cup {c + 1}
    BY <1>1
  <2> QED
    BY <2>1, <2>2, <1>2, <1>6, <1>1
<1>8. Vcoords(n) \subseteq Nodes
  BY NodesOfANewJob, FreeNodesAreFinite
<1>9. [vcoords |-> Vcoords(n), children |-> FALSE, vcoordfile |-> TRUE] \in Entries
  BY <1>8 DEF Entries
<1>10. jobs' \in [JobIds -> Entries \cup {None}] /\ jobs'[j].vcoords = Vcoords(n)
       /\ \A i \in JobIds \ {j} : jobs'[i] = jobs[i]
  BY <1>3, <1>5, <1>9 DEF TypeOK
<1>11. InTable' = InTable \cup {j}
  <2>1. jobs'[j] \in Entries
    BY <1>3, <1>5, <1>9 DEF TypeOK
  <2> QED
    BY <2>1, <1>3, <1>10, LauncherAssumption DEF InTable
<1>12. nodes' \in [Nodes -> {"free", "server", "runner"}] /\ UsedNodes' = UsedNodes \cup Vcoords(n)
  BY <1>5, <1>8 DEF TypeOK, UsedNodes
<1>13. /\ task' \in [JobIds -> Tasks \cup {None}] /\ task'[j] = what
       /\ \A i \in JobIds \ {j} : task'[i] = task[i]
       /\ proc' \in [JobIds -> {"none", "running", "ended"}]
       /\ \A i \in JobIds \ {j} : proc'[i] = proc[i]
  BY <1>3, <1>5 DEF TypeOK
<1>14. \A i \in InTable : jobs'[i] = jobs[i]
  BY <1>4, <1>10 DEF InTable
<1>15. \A i \in Started : task'[i] = task[i]
  BY <1>3, <1>13 DEF Started
<1> QED
  BY <1>3, <1>4, <1>6, <1>7, <1>10, <1>11, <1>12, <1>13, <1>14, <1>15 DEF j

(* A new job gets nodes that nobody holds. *)
LEMMA HeldWithNewJob ==
  ASSUME TypeOK, OnlyStarted, Removals, NodesHeld, ~ Busy, UNCHANGED <<removal, polled>>,
         NEW n \in Nat, CanSchedule(n), NEW kind \in {"server", "runner"}, NEW what \in Tasks,
         ScheduleJob(n, kind, what)
  PROVE  Removals' /\ NodesHeld'
<1>0. PICK j : j = NextJob
  OBVIOUS
<1>1. /\ j \in JobIds /\ j \notin Started /\ j \notin InTable /\ InTable' = InTable \cup {j}
      /\ jobs'[j].vcoords = Vcoords(n)
      /\ \A i \in JobIds \ {j} : jobs'[i] = jobs[i] /\ proc'[i] = proc[i]
      /\ UsedNodes' = UsedNodes \cup Vcoords(n)
  BY <1>0, JobAdded
<1>2. Vcoords(n) \subseteq FreeNodes /\ FreeNodes \subseteq Nodes /\ (Cluster = "Local" => Vcoords(n) = {})
  BY NodesOfANewJob, FreeNodesAreFinite DEF Vcoords
<1>3. /\ kills' = kills /\ polled' = polled /\ removing' = removing /\ to_free' = to_free
      /\ \A t \in Threads : Target(t)' = Target(t)
  BY DEF removal, steps, Target
<1>4. \A t \in Threads : removing[t] \notin {"no", "found"} =>
        /\ Target(t) \in JobIds \ {j}
        /\ jobs'[Target(t)] = jobs[Target(t)] /\ proc'[Target(t)] = proc[Target(t)]
  BY <1>1 DEF Removals, Started
<1>5. Removals'
  <2>1. removing'["main"] # "no" => Busy'
    BY <1>3 DEF Removals, Busy
  <2>2. \A t \in Threads : removing'[t] \notin {"no", "found"} =>
          Target(t)' \in JobIds /\ proc'[Target(t)'] = "ended"
    BY <1>3, <1>4 DEF Removals
  <2>3. \A t \in Threads : removing'[t] = "freeing" /\ jobs'[Target(t)'] # None =>
          to_free'[t] \subseteq jobs'[Target(t)'].vcoords
    BY <1>3, <1>4 DEF Removals
  <2>4. \A t \in Threads : removing'[t] = "deleting" =>
          jobs'[Target(t)'] # None /\ ~ jobs'[Target(t)'].vcoordfile /\ to_free'[t] = {}
    BY <1>3, <1>4 DEF Removals
  <2>5. \A t, u \in Threads :
          removing'[t] = "deleting" /\ removing'[u] = "deleting" /\ Target(t)' = Target(u)' => t = u
    BY <1>3 DEF Removals
  <2>6. Cluster = "Local" => \A t \in Threads : ~ IsFreeing(t)'
    BY <1>3 DEF Removals, IsFreeing
  <2> QED
    BY <2>1, <2>2, <2>3, <2>4, <2>5, <2>6 DEF Removals
<1>6. \A i : \A t \in Threads : (Removes(t, i)' <=> Removes(t, i)) /\ ~ Removes(t, j)
  BY <1>3, <1>4 DEF Removes
<1>7. RemovedTwice' <=> RemovedTwice
  <2>1. \A t \in Threads : removing[t] = "freeing" => jobs'[Target(t)] = jobs[Target(t)]
    BY <1>4
  <2> QED
    BY <1>3, <1>6, <2>1 DEF RemovedTwice
<1>8. /\ \A i \in JobIds \ {j}, m \in Nodes : Has(i, m)' <=> Has(i, m)
      /\ \A m \in Nodes : ~ Has(j, m) /\ (Has(j, m)' <=> m \in Vcoords(n))
  <2>1. \A i \in JobIds \ {j}, m \in Nodes : Has(i, m)' <=> Has(i, m)
    BY <1>1, <1>3, <1>6 DEF Has
  <2>2. \A m \in Nodes : ~ Has(j, m)
    BY <1>1 DEF Has, InTable
  <2>3. jobs'[j] # None
    BY <1>1 DEF InTable
  <2>4. \A m \in Nodes : Has(j, m)' <=> m \in Vcoords(n)
    BY <1>1, <1>6, <2>3 DEF Has
  <2> QED
    BY <2>1, <2>2, <2>4
<1>9. \A m \in Nodes : /\ nodes'[m] # "free" <=> nodes[m] # "free" \/ m \in Vcoords(n)
                       /\ m \in Vcoords(n) => nodes[m] = "free"
  <2>1. \A m \in Nodes : (m \in UsedNodes' <=> nodes'[m] # "free") /\ (m \in UsedNodes <=> nodes[m] # "free")
    BY DEF UsedNodes
  <2>2. \A m \in Vcoords(n) : nodes[m] = "free"
    BY <1>2 DEF FreeNodes
  <2> QED
    BY <1>1, <2>1, <2>2
<1>10. \A m \in Nodes : nodes'[m] # "free" => \E i \in JobIds : Has(i, m)'
  BY <1>1, <1>8, <1>9 DEF NodesHeld
<1>11. ASSUME ~ RemovedTwice, NEW i \in JobIds, NEW m \in Nodes, Has(i, m)'
       PROVE  nodes'[m] # "free" /\ \A k \in JobIds : Has(k, m)' => k = i
  <2>1. \A k \in JobIds : Has(k, m) => nodes[m] # "free" /\ \A l \in JobIds : Has(l, m) => l = k
    BY <1>11 DEF NodesHeld
  <2>2. CASE i = j
    BY <2>1, <2>2, <1>8, <1>9, <1>11
  <2>3. CASE i # j
    BY <2>1, <2>3, <1>8, <1>9, <1>11
  <2> QED
    BY <2>2, <2>3
<1>12. Cluster = "Local" => \A i \in InTable' : jobs'[i].vcoords = {}
  <2>1. \A i \in InTable : i \in JobIds \ {j}
    BY <1>1 DEF InTable
  <2> QED
    BY <1>1, <1>2, <2>1 DEF NodesHeld
<1>13. NodesHeld'
  BY <1>7, <1>10, <1>11, <1>12 DEF NodesHeld
<1> QED
  BY <1>5, <1>13

(* A part of the table holds finitely many servers, runners and nodes. *)
LEMMA TableIsFinite ==
  ASSUME TypeOK, OnlyStarted, Described, NEW S \in SUBSET InTable
  PROVE  /\ IsFiniteSet(ServersOf(S)) /\ Cardinality(ServersOf(S)) \in Nat
         /\ IsFiniteSet(RunnersOf(S)) /\ Cardinality(RunnersOf(S)) \in Nat
         /\ IsFiniteSet(NodesUsedBy(S)) /\ Cardinality(NodesUsedBy(S)) \in Nat
<1>1. IsFiniteSet(JobIds) /\ IsFiniteSet(Nodes)
  BY FS_Interval, LauncherAssumption DEF JobIds, Nodes
<1>2. ServersOf(S) \in SUBSET JobIds
  BY DEF ServersOf, InTable
<1>3. IsFiniteSet(0 .. next_runner_id - 1)
  BY FS_Interval DEF TypeOK
<1>4. RunnersOf(S) \in SUBSET (0 .. next_runner_id - 1)
  <2>1. S \subseteq Started
    BY DEF OnlyStarted
  <2> QED
    BY <2>1 DEF RunnersOf, Described
<1>5. NodesUsedBy(S) \in SUBSET Nodes
  BY DEF NodesUsedBy, TypeOK, InTable, Entries
<1> QED
  BY <1>1, <1>2, <1>3, <1>4, <1>5, FS_Subset, FS_CardinalityType

(* A node more or less is counted for the kind of job that has it. *)
LEMMA Distributes ==
  ASSUME NEW a \in Nat, NEW b \in Nat, NEW k \in Nat
  PROVE  (a + b) * k = a * k + b * k
OBVIOUS

(* Two sets have at most as many elements as both together, and as many if *)
(* they share none.                                                        *)
LEMMA SizeOfUnion ==
  ASSUME NEW A, NEW B, IsFiniteSet(A), IsFiniteSet(B)
  PROVE  /\ Cardinality(A \cup B) <= Cardinality(A) + Cardinality(B)
         /\ A \cap B = {} => Cardinality(A \cup B) = Cardinality(A) + Cardinality(B)
<1>1. Cardinality(A \cup B) = Cardinality(A) + Cardinality(B) - Cardinality(A \cap B)
  BY FS_Union
<1>2. Cardinality(A) \in Nat /\ Cardinality(B) \in Nat
  BY FS_CardinalityType
<1>3. Cardinality(A \cap B) \in Nat
  <2>1. IsFiniteSet(A \cap B)
    BY FS_Intersection
  <2> QED
    BY <2>1, FS_CardinalityType
<1>4. A \cap B = {} => Cardinality(A \cap B) = 0
  BY FS_EmptySet
<1> QED
  BY <1>1, <1>2, <1>3, <1>4

(* A new job takes as many nodes as its kind and runners ask for. *)
LEMMA CountedWithNewJob ==
  ASSUME TypeOK, OnlyStarted, Described, NodesCounted,
         NEW n \in Nat, CanSchedule(n), NEW kind \in {"server", "runner"}, NEW what \in Tasks,
         ScheduleJob(n, kind, what),
         \A i \in Started : task[i].runner_ids \cap what.runner_ids = {},
         IsFiniteSet(what.runner_ids),
         n = IF what.runner_ids = {} THEN NodesServer ELSE Cardinality(what.runner_ids) * NodesRunner
  PROVE  NodesCounted'
<1> SUFFICES ASSUME Cluster = "Fugaku", NEW S \in SUBSET InTable'
             PROVE  Cardinality(NodesUsedBy(S)') <= Cardinality(ServersOf(S)') * NodesServer
                                                     + Cardinality(RunnersOf(S)') * NodesRunner
  BY DEF NodesCounted
<1>0. PICK j : j = NextJob
  OBVIOUS
<1> DEFINE T == S \ {j}
           N == Cardinality(NodesUsedBy(T))
           s == Cardinality(ServersOf(T))
           r == Cardinality(RunnersOf(T))
<1>1. /\ j \in JobIds /\ j \notin Started /\ InTable' = InTable \cup {j}
      /\ jobs'[j].vcoords = Vcoords(n)
      /\ \A i \in InTable : jobs'[i] = jobs[i]
      /\ task'[j] = what /\ \A i \in Started : task'[i] = task[i]
  BY <1>0, JobAdded
<1>2. InTable \subseteq Started
  BY DEF OnlyStarted
<1>3. IsFiniteSet(Vcoords(n)) /\ Cardinality(Vcoords(n)) = n
  BY NodesOfANewJob
<1>4. T \in SUBSET InTable /\ T \subseteq Started /\ (S = T \/ S = T \cup {j}) /\ j \notin T
  BY <1>1, <1>2
<1>5. \A i \in T : jobs'[i] = jobs[i] /\ task'[i] = task[i]
  BY <1>1, <1>4
<1> HIDE DEF T
<1>6. /\ IsFiniteSet(ServersOf(T)) /\ s \in Nat /\ IsFiniteSet(RunnersOf(T)) /\ r \in Nat
      /\ IsFiniteSet(NodesUsedBy(T)) /\ N \in Nat
  BY <1>4, TableIsFinite
<1>7. N <= s * NodesServer + r * NodesRunner
  BY <1>4 DEF NodesCounted
<1>8. NodesUsedBy(T)' = NodesUsedBy(T) /\ ServersOf(T)' = ServersOf(T) /\ RunnersOf(T)' = RunnersOf(T)
  BY <1>5 DEF NodesUsedBy, ServersOf, RunnersOf, T
<1>9. CASE S = T
  BY <1>7, <1>8, <1>9
<1>10. CASE S = T \cup {j}
  <2>1. NodesUsedBy(S)' = NodesUsedBy(T) \cup Vcoords(n)
    <3>1. NodesUsedBy(S)' = UNION {jobs'[i].vcoords : i \in T \cup {j}}
      BY <1>10 DEF NodesUsedBy
    <3>2. \A i \in T : jobs'[i].vcoords = jobs[i].vcoords
      BY <1>5
    <3>3. jobs'[j].vcoords = Vcoords(n)
      BY <1>1
    <3> QED
      BY <3>1, <3>2, <3>3 DEF NodesUsedBy
  <2>2. RunnersOf(S)' = RunnersOf(T) \cup what.runner_ids
    <3>1. RunnersOf(S)' = UNION {task'[i].runner_ids : i \in T \cup {j}}
      BY <1>10 DEF RunnersOf
    <3>2. \A i \in T : task'[i].runner_ids = task[i].runner_ids
      BY <1>5
    <3>3. task'[j].runner_ids = what.runner_ids
      BY <1>1
    <3> QED
      BY <3>1, <3>2, <3>3 DEF RunnersOf
  <2>3. Cardinality(NodesUsedBy(S)') <= N + n /\ Cardinality(NodesUsedBy(S)') \in Nat
    <3>1. Cardinality(NodesUsedBy(S)') <= N + n
      BY <2>1, <1>3, <1>6, SizeOfUnion
    <3>2. IsFiniteSet(NodesUsedBy(T) \cup Vcoords(n))
      BY <1>3, <1>6, FS_Union
    <3> QED
      BY <3>1, <3>2, <2>1, FS_CardinalityType
  <2>4. CASE what.runner_ids = {}
    <3>1. ServersOf(S)' = ServersOf(T) \cup {j} /\ j \notin ServersOf(T)
      BY <1>1, <1>4, <1>5, <1>10, <2>4 DEF ServersOf
    <3>2. Cardinality(ServersOf(S)') = s + 1
      BY <3>1, <1>6, FS_AddElement
    <3>3. Cardinality(RunnersOf(S)') = r
      BY <2>2, <2>4
    <3>4. n = NodesServer
      BY <2>4
    <3> HIDE DEF N, s, r
    <3>5. (s + 1) * NodesServer = s * NodesServer + 1 * NodesServer
      BY <1>6, Distributes, LauncherAssumption
    <3>6. s * NodesServer \in Nat /\ r * NodesRunner \in Nat
      BY <1>6, LauncherAssumption
    <3>7. Cardinality(NodesUsedBy(S)') <= (s + 1) * NodesServer + r * NodesRunner
      BY <2>3, <3>4, <3>5, <3>6, <1>6, <1>7, LauncherAssumption
    <3> QED
      BY <3>2, <3>3, <3>7
  <2>5. CASE what.runner_ids # {}
    <3> DEFINE k == Cardinality(what.runner_ids)
    <3>1. k \in Nat
      BY FS_CardinalityType
    <3>2. ServersOf(S)' = ServersOf(T)
      BY <1>1, <1>5, <1>10, <2>5 DEF ServersOf
    <3>3. RunnersOf(T) \cap what.runner_ids = {}
      BY <1>4 DEF RunnersOf
    <3>4. Cardinality(RunnersOf(S)') = r + k
      BY <2>2, <3>3, <1>6, SizeOfUnion
    <3>5. n = k * NodesRunner
      BY <2>5
    <3>6. Cardinality(ServersOf(S)') = s
      BY <3>2
    <3> HIDE DEF N, s, r, k
    <3>7. (r + k) * NodesRunner = r * NodesRunner + k * NodesRunner
      BY <1>6, <3>1, Distributes, LauncherAssumption
    <3>8. s * NodesServer \in Nat /\ r * NodesRunner \in Nat
      BY <1>6, LauncherAssumption
    <3>9. Cardinality(NodesUsedBy(S)') <= s * NodesServer + (r + k) * NodesRunner
      BY <2>3, <3>5, <3>7, <3>8, <1>6, <1>7
    <3> QED
      BY <3>4, <3>6, <3>9
  <2> QED
    BY <2>4, <2>5
<1> QED
  BY <1>4, <1>9, <1>10

-----------------------------------------------------------------------------
(***************************************************************************)
(* RemoveJob.                                                              *)
(***************************************************************************)
(* A thread that raises an exception changes nothing else. *)
LEMMA RaisesInv ==
  ASSUME Inv, Up, NEW t \in Threads, NEW what, what \notin {"up", "ended"}, Raises(t, what)
  PROVE  Inv'
<1> USE DEF Raises, objects, cluster, place, removal, steps, world
<1>1. TypeOK'
  BY DEF Inv, TypeOK, Groups
<1>2. CASE t = "main"
  <2>1. outcome' = what
    BY <1>2
  <2>2. Ended' /\ ~ Up'
    BY <2>1 DEF Ended, Up
  <2> QED
    BY <1>1, <2>2 DEF Inv
<1>3. CASE t # "main"
  <2>1. outcome' = outcome
    BY <1>3
  <2>2. InTable' = InTable /\ Started' = Started /\ KnownJobs' = KnownJobs
    BY DEF InTable, Started, KnownJobs, AllJobs, ServerJobs, Groups
  <2>3. Orderly
    BY DEF Inv
  <2>4. OnlyStarted' /\ Tracked' /\ InPlace' /\ Described'
    BY <2>2, <2>3 DEF Orderly, OnlyStarted, Tracked, InPlace, Described, Groups, Busy
  <2>5. Removals' /\ NodesHeld' /\ NodesCounted'
    BY <2>2, <2>3, TableKept DEF Orderly
  <2> QED
    BY <1>1, <2>1, <2>3, <2>4, <2>5 DEF Inv, Orderly, Ended, Up
<1> QED
  BY <1>2, <1>3

(* Nodes are held by the same jobs, unless both threads had removed one. *)
LEMMA HeldAsBefore ==
  ASSUME NodesHeld, UNCHANGED nodes, InTable' \subseteq InTable,
         \A j \in InTable' : jobs'[j].vcoords = jobs[j].vcoords,
         \A n \in Nodes : \A j \in JobIds : Has(j, n)' <=> Has(j, n),
         RemovedTwice => RemovedTwice'
  PROVE  NodesHeld'
<1>1. \A n \in Nodes : nodes'[n] # "free" => \E j \in JobIds : Has(j, n)'
  BY DEF NodesHeld
<1>2. ~ RemovedTwice' =>
        \A j \in JobIds, n \in Nodes : Has(j, n)' =>
          nodes'[n] # "free" /\ \A i \in JobIds : Has(i, n)' => i = j
  BY DEF NodesHeld
<1>3. Cluster = "Local" => \A j \in InTable' : jobs'[j].vcoords = {}
  BY DEF NodesHeld
<1> QED
  BY <1>1, <1>2, <1>3 DEF NodesHeld

(* The books agree with the table as long as the job is in it. *)
LEMMA BooksAgree ==
  ASSUME Inv, Up,
         UNCHANGED <<objects, listed, cstate, place, kills, refreshing, outcome, world>>,
         jobs' \in [JobIds -> Entries \cup {None}], InTable' = InTable,
         nodes' \in [Nodes -> {"free", "server", "runner"}],
         removing' \in [Threads -> Phases], to_free' \in [Threads -> SUBSET Nodes],
         removing["main"] # "no" => removing'["main"] # "no",
         Removals', NodesHeld', NodesCounted'
  PROVE  Inv'
<1> USE DEF objects, place, refreshing, world
<1>1. TypeOK /\ Orderly
  BY DEF Inv
<1>2. Started' = Started /\ KnownJobs' = KnownJobs
  BY DEF Started, KnownJobs, AllJobs, ServerJobs, Groups
<1>3. TypeOK'
  BY <1>1 DEF TypeOK, Groups
<1>4. OnlyStarted' /\ Tracked' /\ InPlace' /\ Described'
  BY <1>1, <1>2 DEF Orderly, OnlyStarted, Tracked, InPlace, Described, Groups, Busy
<1> QED
  BY <1>1, <1>3, <1>4 DEF Inv, Orderly, Ended, Up

(* What the steps of RemoveJob find. *)
LEMMA JobToRemove ==
  ASSUME Inv, Up, NEW t \in Threads, removing[t] \notin {"no", "found"}
  PROVE  /\ Target(t) \in JobIds /\ proc[Target(t)] = "ended"
         /\ jobs[Target(t)] # None => jobs[Target(t)] \in Entries
         /\ t = "main" => Target(t) = Head(kills) /\ Busy
         /\ t = "refresher" => Target(t) = polled
BY DEF Inv, Orderly, Removals, TypeOK, Target, Threads

(* The job leaves the table: none of its nodes is left to it. *)
LEMMA DeletesInv ==
  ASSUME Inv, Up, NEW t \in Threads, Deletes(t), jobs[Target(t)] # None,
         \/ removing[t] = "deleting"
         \/ removing[t] = "killed" /\ Cluster = "Local"
  PROVE  Inv'
<1> USE DEF objects, place, refreshing, world
<1>1. TypeOK /\ Orderly
  BY DEF Inv
<1>2. PICK j : j = Target(t)
  OBVIOUS
<1>3. /\ j \in JobIds /\ j \in InTable /\ proc[j] = "ended"
      /\ t = "main" => j = Head(kills) /\ Busy
      /\ t = "refresher" => j = polled
  BY <1>2, JobToRemove DEF InTable
<1>4. /\ jobs' = [jobs EXCEPT ![j] = None] /\ removing' = [removing EXCEPT ![t] = "no"]
      /\ t = "main" => kills' = Tail(kills) /\ UNCHANGED <<cstate, polled>>
      /\ t = "refresher" => cstate' = [cstate EXCEPT ![polled] = "stop"] /\ polled' = None /\ UNCHANGED kills
      /\ UNCHANGED <<objects, listed, nodes, place, to_free, snapshot, refresher, outcome, world>>
  BY <1>2 DEF Deletes, Threads
<1>5. /\ jobs' \in [JobIds -> Entries \cup {None}] /\ InTable' = InTable \ {j} /\ jobs'[j] = None
      /\ \A i \in JobIds \ {j} : jobs'[i] = jobs[i]
  BY <1>1, <1>3, <1>4 DEF TypeOK, InTable
<1>6. /\ removing' \in [Threads -> Phases] /\ removing'[t] = "no"
      /\ \A u \in Threads \ {t} : removing'[u] = removing[u] /\ Target(u)' = Target(u)
  BY <1>1, <1>4 DEF TypeOK, Phases, Target, Threads
<1>7. ASSUME t = "main" PROVE TypeOK' /\ OnlyStarted' /\ Tracked' /\ InPlace'
  <2>1. /\ kills \in Seq(JobIds) /\ kills # <<>> /\ kills' = Tail(kills) /\ cstate' = cstate /\ polled' = polled
        /\ j = Head(kills) /\ removing'["main"] = "no"
    BY <1>1, <1>3, <1>4, <1>6, <1>7 DEF TypeOK, Busy
  <2>2. kills' \in Seq(JobIds) /\ Range(kills) = {j} \cup Range(kills')
    BY <2>1, RangeOfSequences
  <2>3. TypeOK'
    BY <1>1, <1>4, <1>5, <1>6, <2>1, <2>2 DEF TypeOK, Groups
  <2>4. Started' = Started /\ KnownJobs' \subseteq KnownJobs /\ KnownJobs \subseteq KnownJobs' \cup {j}
    BY <1>4, <2>2 DEF Started, KnownJobs, AllJobs, ServerJobs, Groups
  <2>5. OnlyStarted'
    BY <1>1, <1>4, <1>5, <2>1, <2>4 DEF Orderly, OnlyStarted
  <2>6. Tracked'
    BY <1>1, <1>3, <1>4, <1>5, <2>1, <2>4 DEF Orderly, Tracked
  <2>7. InPlace'
    <3>1. pc \in {"cleanup", "final"} => InTable' \subseteq Range(kills')
      BY <1>1, <1>5, <2>2 DEF Orderly, InPlace
    <3>2. server # None
      BY <1>1, <1>3, <1>7 DEF Orderly, InPlace
    <3> QED
      BY <1>1, <1>4, <3>1, <3>2 DEF Orderly, InPlace, Groups
  <2> QED
    BY <2>3, <2>5, <2>6, <2>7
<1>8. ASSUME t = "refresher" PROVE TypeOK' /\ OnlyStarted' /\ Tracked' /\ InPlace'
  <2>1. /\ cstate' = [cstate EXCEPT ![j] = "stop"] /\ polled' = None /\ kills' = kills
        /\ removing'["main"] = removing["main"]
    BY <1>3, <1>4, <1>6, <1>8 DEF Threads
  <2>2. TypeOK'
    BY <1>1, <1>3, <1>4, <1>5, <1>6, <2>1 DEF TypeOK, Groups
  <2>3. Started' = Started /\ KnownJobs' = KnownJobs
    BY <1>4, <2>1 DEF Started, KnownJobs, AllJobs, ServerJobs, Groups
  <2>4. OnlyStarted'
    BY <1>1, <1>4, <1>5, <2>1, <2>3 DEF Orderly, OnlyStarted
  <2>5. Tracked'
    <3>1. \A i \in InTable' : cstate'[i] = cstate[i]
      BY <1>1, <1>5, <2>1 DEF TypeOK, InTable
    <3> QED
      BY <1>1, <1>3, <1>4, <1>5, <2>1, <2>3, <3>1 DEF Orderly, Tracked
  <2>6. InPlace'
    BY <1>1, <1>4, <1>5, <2>1 DEF Orderly, InPlace, Groups, Busy
  <2> QED
    BY <2>2, <2>4, <2>5, <2>6
<1>9. TypeOK' /\ OnlyStarted' /\ Tracked' /\ InPlace'
  BY <1>7, <1>8 DEF Threads
<1>10. Described'
  BY <1>1, <1>4 DEF Orderly, Described, Groups, Started
<1>11. NodesCounted'
  <2>1. \A i \in InTable' : jobs'[i].vcoords = jobs[i].vcoords
    BY <1>5 DEF InTable
  <2>2. InTable' \subseteq InTable /\ task' = task
    BY <1>4, <1>5
  <2> QED
    BY <1>1, <2>1, <2>2, CountedWithoutSomeJobs DEF Orderly
<1>12. Removals'
  <2>1. removing'["main"] # "no" => Busy'
    BY <1>1, <1>4, <1>6 DEF Orderly, Removals, Busy, Threads
  <2>2. \A u \in Threads : removing'[u] \notin {"no", "found"} =>
          u # t /\ removing[u] = removing'[u] /\ Target(u)' = Target(u) /\ Target(u) \in JobIds
    BY <1>1, <1>6 DEF Orderly, Removals
  <2>3. \A u \in Threads : removing'[u] = "deleting" => Target(u) # j
    BY <1>1, <1>2, <1>6, <2>2 DEF Orderly, Removals, IsFreeing
  <2>4. \A u \in Threads : removing'[u] = "freeing" /\ jobs'[Target(u)'] # None =>
          to_free'[u] \subseteq jobs'[Target(u)'].vcoords
    BY <1>1, <1>4, <1>5, <2>2 DEF Orderly, Removals
  <2>5. \A u \in Threads : removing'[u] = "deleting" =>
          jobs'[Target(u)'] # None /\ ~ jobs'[Target(u)'].vcoordfile /\ to_free'[u] = {}
    BY <1>1, <1>4, <1>5, <2>2, <2>3 DEF Orderly, Removals
  <2>6. \A u, v \in Threads :
          removing'[u] = "deleting" /\ removing'[v] = "deleting" /\ Target(u)' = Target(v)' => u = v
    BY <1>1, <2>2 DEF Orderly, Removals
  <2>7. \A u \in Threads : removing'[u] \notin {"no", "found"} =>
          Target(u)' \in JobIds /\ proc'[Target(u)'] = "ended"
    BY <1>1, <1>4, <2>2 DEF Orderly, Removals
  <2>8. Cluster = "Local" => \A u \in Threads : ~ IsFreeing(u)'
    BY <1>1, <1>6 DEF Orderly, Removals, IsFreeing
  <2> QED
    BY <2>1, <2>4, <2>5, <2>6, <2>7, <2>8 DEF Removals
<1>13. NodesHeld'
  <2>1. \A i : \A u \in Threads : i # j => (Removes(u, i)' <=> Removes(u, i))
    BY <1>2, <1>6 DEF Removes
  <2>2. \A n \in Nodes : \A i \in JobIds : Has(i, n)' <=> Has(i, n)
    <3>1. ASSUME NEW n \in Nodes PROVE ~ Has(j, n)
      <4>1. CASE removing[t] = "deleting"
        BY <4>1, <1>1, <1>2 DEF Orderly, Removals, Has, Removes
      <4>2. CASE Cluster = "Local"
        BY <4>2, <1>1, <1>3 DEF Orderly, NodesHeld, Has
      <4> QED
        BY <4>1, <4>2
    <3>2. \A n \in Nodes : ~ Has(j, n)'
      BY <1>5 DEF Has
    <3>3. \A n \in Nodes : \A i \in JobIds \ {j} : Has(i, n)' <=> Has(i, n)
      BY <1>4, <1>5, <2>1 DEF Has
    <3> QED
      BY <3>1, <3>2, <3>3
  <2>3. RemovedTwice => RemovedTwice'
    <3> SUFFICES ASSUME NEW u \in Threads, NEW v \in Threads, u # v, removing[u] = "freeing",
                        jobs[Target(u)] = None \/ Removes(v, Target(u))
                 PROVE  RemovedTwice'
      BY DEF RemovedTwice
    <3>1. u # t /\ removing'[u] = "freeing" /\ Target(u)' = Target(u) /\ Target(u) \in JobIds
      BY <1>1, <1>6 DEF Orderly, Removals
    <3>2. v = t
      BY <3>1 DEF Threads
    <3>3. CASE jobs[Target(u)] = None
      BY <3>1, <3>3, <1>5 DEF RemovedTwice
    <3>4. CASE Removes(v, Target(u))
      <4>1. Target(u) = j
        BY <3>2, <3>4, <1>2 DEF Removes
      <4> QED
        BY <3>1, <4>1, <1>5 DEF RemovedTwice
    <3> QED
      BY <3>3, <3>4
  <2>4. \A i \in InTable' : jobs'[i].vcoords = jobs[i].vcoords
    BY <1>5 DEF InTable
  <2>5. InTable' \subseteq InTable /\ nodes' = nodes
    BY <1>4, <1>5
  <2> QED
    BY <1>1, <2>2, <2>3, <2>4, <2>5, HeldAsBefore DEF Orderly
<1> QED
  BY <1>1, <1>4, <1>9, <1>10, <1>11, <1>12, <1>13 DEF Inv, Orderly, Ended, Up

(* The thread fetches the nodes of the job. *)
LEMMA FindNodesInv == ASSUME NEW t \in Threads PROVE Inv /\ FindNodes(t) => Inv'
<1> SUFFICES ASSUME Inv, FindNodes(t) PROVE Inv'
  OBVIOUS
<1> USE DEF objects, cluster, place, refreshing, world
<1>1. Up /\ TypeOK /\ Orderly /\ removing[t] = "killed" /\ jobs[Target(t)] # None
  BY DEF Inv, Up, FindNodes, Calls, Killable
<1>2. CASE Cluster = "Local"
  <2>1. Deletes(t)
    BY <1>2 DEF FindNodes
  <2> QED
    BY <1>1, <1>2, <2>1, DeletesInv
<1>3. CASE Cluster = "Fugaku"
  <2>1. PICK j : j = Target(t)
    OBVIOUS
  <2>2. j \in JobIds /\ jobs[j] \in Entries /\ proc[j] = "ended"
    BY <1>1, <2>1, JobToRemove
  <2>3. /\ removing' = [removing EXCEPT ![t] = "freeing"]
        /\ to_free' = [to_free EXCEPT ![t] = jobs[j].vcoords]
        /\ UNCHANGED <<objects, listed, cstate, cluster, place, kills, refreshing, outcome, world>>
    BY <1>3, <2>1 DEF FindNodes, NodesOf
  <2>4. /\ removing' \in [Threads -> Phases] /\ removing'[t] = "freeing"
        /\ to_free' \in [Threads -> SUBSET Nodes] /\ to_free'[t] = jobs[j].vcoords
        /\ \A u \in Threads \ {t} : removing'[u] = removing[u] /\ to_free'[u] = to_free[u]
    BY <1>1, <2>2, <2>3 DEF TypeOK, Phases, Entries
  <2>5. \A u \in Threads : Target(u)' = Target(u)
    BY <2>3 DEF Target
  <2>6. Removals'
    <3>1. \A u \in Threads : removing'[u] \notin {"no", "found"} => removing[u] \notin {"no", "found"}
      BY <1>1, <2>4
    <3>2. \A u \in Threads : removing'[u] = "deleting" => removing[u] = "deleting" /\ to_free'[u] = to_free[u]
      BY <2>4
    <3>3. removing'["main"] # "no" => Busy'
      BY <1>1, <2>3, <2>4 DEF Orderly, Removals, Busy, Threads
    <3>4. \A u \in Threads : removing'[u] = "freeing" /\ jobs[Target(u)] # None =>
            to_free'[u] \subseteq jobs[Target(u)].vcoords
      BY <1>1, <2>1, <2>4 DEF Orderly, Removals
    <3>5. Cluster = "Local" => \A u \in Threads : ~ IsFreeing(u)'
      BY <1>3
    <3> QED
      BY <1>1, <2>3, <2>5, <3>1, <3>2, <3>3, <3>4, <3>5 DEF Orderly, Removals
  <2>7. InTable' = InTable
    BY <2>3 DEF InTable
  <2>8. NodesHeld'
    <3>1. \A n \in Nodes : \A i \in JobIds : Has(i, n)' <=> Has(i, n)
      <4>1. \A i : \A u \in Threads \ {t} : Removes(u, i)' <=> Removes(u, i)
        BY <2>4, <2>5 DEF Removes
      <4>2. \A i : ~ Removes(t, i) /\ (Removes(t, i)' <=> i = j)
        BY <1>1, <2>1, <2>4, <2>5 DEF Removes
      <4> QED
        BY <2>3, <2>4, <4>1, <4>2 DEF Has
    <3>2. RemovedTwice => RemovedTwice'
      <4> SUFFICES ASSUME NEW u \in Threads, NEW v \in Threads, u # v, removing[u] = "freeing",
                          jobs[Target(u)] = None \/ Removes(v, Target(u))
                   PROVE  RemovedTwice'
        BY DEF RemovedTwice
      <4>1. u # t /\ removing'[u] = "freeing" /\ Target(u)' = Target(u)
        BY <1>1, <2>4, <2>5
      <4>2. v = t /\ ~ Removes(v, Target(u))
        BY <1>1, <4>1 DEF Threads, Removes
      <4> QED
        BY <2>3, <4>1, <4>2 DEF RemovedTwice
    <3> QED
      BY <1>1, <2>3, <2>7, <3>1, <3>2, HeldAsBefore DEF Orderly
  <2>9. NodesCounted'
    BY <1>1, <2>3, <2>7, CountedWithoutSomeJobs DEF Orderly
  <2> QED
    BY <1>1, <2>3, <2>4, <2>6, <2>7, <2>8, <2>9, BooksAgree DEF TypeOK
<1> QED
  BY <1>2, <1>3, LauncherAssumption

(* It frees one of them.  If it is the only one to remove the job, nobody  *)
(* else holds that node.                                                   *)
LEMMA FreeNodeInv == ASSUME NEW t \in Threads PROVE Inv /\ FreeNode(t) => Inv'
<1> SUFFICES ASSUME Inv, FreeNode(t) PROVE Inv'
  OBVIOUS
<1> USE DEF objects, place, refreshing, world
<1>1. Up /\ TypeOK /\ Orderly /\ removing[t] = "freeing"
  BY DEF Inv, Up, FreeNode, Calls
<1>2. PICK n \in to_free[t] :
        /\ nodes' = [nodes EXCEPT ![n] = "free"]
        /\ to_free' = [to_free EXCEPT ![t] = @ \ {n}]
  BY DEF FreeNode
<1>3. UNCHANGED <<objects, listed, cstate, jobs, place, kills, removing, refreshing, outcome, world>>
  BY DEF FreeNode
<1>4. PICK j : j = Target(t)
  OBVIOUS
<1>5. j \in JobIds /\ (jobs[j] # None => jobs[j] \in Entries /\ n \in jobs[j].vcoords)
  BY <1>1, <1>4, JobToRemove DEF Orderly, Removals
<1>6. /\ nodes' \in [Nodes -> {"free", "server", "runner"}] /\ n \in Nodes /\ nodes'[n] = "free"
      /\ \A m \in Nodes \ {n} : nodes'[m] = nodes[m]
      /\ to_free' \in [Threads -> SUBSET Nodes] /\ to_free'[t] = to_free[t] \ {n}
      /\ \A u \in Threads \ {t} : to_free'[u] = to_free[u]
  BY <1>1, <1>2 DEF TypeOK
<1>7. \A u \in Threads : Target(u)' = Target(u)
  BY <1>3 DEF Target
<1>8. InTable' = InTable
  BY <1>3 DEF InTable
<1>9. Removals'
  <2>1. removing'["main"] # "no" => Busy'
    BY <1>1, <1>3 DEF Orderly, Removals, Busy
  <2>2. \A u \in Threads : to_free'[u] \subseteq to_free[u]
    BY <1>6
  <2>3. Cluster = "Local" => \A u \in Threads : ~ IsFreeing(u)'
    BY <1>1, <1>3 DEF Orderly, Removals, IsFreeing
  <2> QED
    BY <1>1, <1>3, <1>7, <2>1, <2>2, <2>3 DEF Orderly, Removals
<1>10. \A i : \A u \in Threads : Removes(u, i)' <=> Removes(u, i)
  BY <1>3, <1>7 DEF Removes
<1>11. RemovedTwice' <=> RemovedTwice
  BY <1>3, <1>7, <1>10 DEF RemovedTwice
<1>12. \A i \in JobIds, m \in Nodes :
         /\ Has(i, m)' => Has(i, m)
         /\ m # n => (Has(i, m)' <=> Has(i, m))
         /\ i = j /\ m = n => ~ Has(i, m)'
  <2>1. \A i \in JobIds, m \in Nodes : Has(i, m)' => Has(i, m)
    BY <1>3, <1>6, <1>10 DEF Has
  <2>2. \A i \in JobIds, m \in Nodes : m # n => (Has(i, m)' <=> Has(i, m))
    BY <1>3, <1>6, <1>10 DEF Has
  <2>3. Removes(t, j)'
    BY <1>1, <1>3, <1>4, <1>7 DEF Removes
  <2>4. ~ Has(j, n)'
    BY <1>6, <2>3 DEF Has
  <2> QED
    BY <2>1, <2>2, <2>4
<1>13. ~ RemovedTwice => Has(j, n)
  <2>1. \A u \in Threads \ {t} : ~ RemovedTwice => jobs[j] # None /\ ~ Removes(u, j)
    BY <1>1, <1>4 DEF RemovedTwice
  <2>2. \E u \in Threads : u # t
    BY DEF Threads
  <2>3. ~ RemovedTwice => jobs[j] # None
    BY <2>1, <2>2
  <2> QED
    BY <2>1, <2>3, <1>5 DEF Has
<1>14. NodesHeld'
  <2>1. \A m \in Nodes : nodes'[m] # "free" => \E i \in JobIds : Has(i, m)'
    BY <1>1, <1>6, <1>12 DEF Orderly, NodesHeld
  <2>2. ASSUME ~ RemovedTwice, NEW i \in JobIds, NEW m \in Nodes, Has(i, m)'
        PROVE  nodes'[m] # "free" /\ \A k \in JobIds : Has(k, m)' => k = i
    <3>1. \A k \in JobIds : Has(k, m) => nodes[m] # "free" /\ \A l \in JobIds : Has(l, m) => l = k
      BY <1>1, <2>2 DEF Orderly, NodesHeld
    <3>2. Has(i, m)
      BY <1>12, <2>2
    <3>3. m # n
      BY <1>5, <1>12, <1>13, <2>2, <3>1, <3>2
    <3> QED
      BY <1>6, <1>12, <3>1, <3>2, <3>3
  <2>3. Cluster = "Local" => \A i \in InTable' : jobs'[i].vcoords = {}
    BY <1>1, <1>3, <1>8 DEF Orderly, NodesHeld
  <2> QED
    BY <1>11, <2>1, <2>2, <2>3 DEF NodesHeld
<1>15. NodesCounted'
  BY <1>1, <1>3, <1>8, CountedWithoutSomeJobs DEF Orderly
<1> QED
  BY <1>1, <1>3, <1>6, <1>8, <1>9, <1>14, <1>15, BooksAgree DEF TypeOK

(* It removes the file: only one thread finds it. *)
LEMMA RemoveVcoordFileInv == ASSUME NEW t \in Threads PROVE Inv /\ RemoveVcoordFile(t) => Inv'
<1> SUFFICES ASSUME Inv, RemoveVcoordFile(t) PROVE Inv'
  OBVIOUS
<1> USE DEF objects, place, refreshing, world
<1>1. Up /\ TypeOK /\ Orderly /\ removing[t] = "freeing" /\ to_free[t] = {}
  BY DEF Inv, Up, RemoveVcoordFile, Freed, Calls
<1>2. PICK j : j = Target(t)
  OBVIOUS
<1>3. /\ jobs[j] # None /\ jobs[j].vcoordfile
      /\ jobs' = [jobs EXCEPT ![j].vcoordfile = FALSE]
      /\ removing' = [removing EXCEPT ![t] = "deleting"]
      /\ UNCHANGED <<objects, listed, cstate, nodes, place, kills, to_free, refreshing, outcome, world>>
  BY <1>2 DEF RemoveVcoordFile
<1>4. j \in JobIds /\ jobs[j] \in Entries
  BY <1>1, <1>2, <1>3, JobToRemove
<1>5. [jobs[j] EXCEPT !.vcoordfile = FALSE] \in Entries
      /\ [jobs[j] EXCEPT !.vcoordfile = FALSE].vcoords = jobs[j].vcoords
      /\ [jobs[j] EXCEPT !.vcoordfile = FALSE].vcoordfile = FALSE
  BY <1>4 DEF Entries
<1>6. \A i \in JobIds : jobs'[i] = IF i = j THEN [jobs[j] EXCEPT !.vcoordfile = FALSE] ELSE jobs[i]
  BY <1>1, <1>3 DEF TypeOK
<1>7. jobs' \in [JobIds -> Entries \cup {None}]
  BY <1>1, <1>3, <1>5 DEF TypeOK
<1>8. /\ \A i \in JobIds : jobs'[i] = None <=> jobs[i] = None
      /\ \A i \in JobIds : jobs[i] # None => jobs'[i].vcoords = jobs[i].vcoords
      /\ \A i \in JobIds \ {j} : jobs'[i] = jobs[i]
      /\ ~ jobs'[j].vcoordfile
  <2>1. [jobs[j] EXCEPT !.vcoordfile = FALSE] # None
    BY <1>5, LauncherAssumption
  <2>2. jobs'[j] = [jobs[j] EXCEPT !.vcoordfile = FALSE]
    BY <1>4, <1>6
  <2>3. \A i \in JobIds \ {j} : jobs'[i] = jobs[i]
    BY <1>6
  <2> QED
    BY <1>3, <1>5, <2>1, <2>2, <2>3
<1>9. InTable' = InTable
  BY <1>8 DEF InTable
<1>10. /\ removing' \in [Threads -> Phases] /\ removing'[t] = "deleting"
       /\ \A u \in Threads \ {t} : removing'[u] = removing[u]
       /\ \A u \in Threads : Target(u)' = Target(u)
  BY <1>1, <1>3 DEF TypeOK, Phases, Target
<1>11. \A u \in Threads : removing[u] = "deleting" => Target(u) # j
  BY <1>1, <1>3 DEF Orderly, Removals
<1>12. Removals'
  <2>1. removing'["main"] # "no" => Busy'
    BY <1>1, <1>3, <1>10 DEF Orderly, Removals, Busy, Threads
  <2>2. \A u \in Threads : removing'[u] \notin {"no", "found"} =>
          removing[u] \notin {"no", "found"} /\ Target(u) \in JobIds
    BY <1>1, <1>10 DEF Orderly, Removals
  <2>3. \A u \in Threads : removing'[u] \notin {"no", "found"} =>
          Target(u)' \in JobIds /\ proc'[Target(u)'] = "ended"
    BY <1>1, <1>3, <1>10, <2>2 DEF Orderly, Removals
  <2>4. \A u \in Threads : removing'[u] = "freeing" => removing[u] = "freeing" /\ Target(u) \in JobIds
    BY <1>10, <2>2
  <2>5. \A u \in Threads : removing'[u] = "freeing" /\ jobs'[Target(u)'] # None =>
          to_free'[u] \subseteq jobs'[Target(u)'].vcoords
    BY <1>1, <1>3, <1>8, <1>10, <2>4 DEF Orderly, Removals
  <2>6. \A u \in Threads : removing'[u] = "deleting" =>
          jobs'[Target(u)'] # None /\ ~ jobs'[Target(u)'].vcoordfile /\ to_free'[u] = {}
    <3>1. \A u \in Threads \ {t} : removing'[u] = "deleting" =>
            Target(u) \in JobIds \ {j} /\ removing[u] = "deleting"
      BY <1>10, <1>11, <2>2
    <3>2. \A u \in Threads \ {t} : removing'[u] = "deleting" =>
            jobs'[Target(u)'] # None /\ ~ jobs'[Target(u)'].vcoordfile /\ to_free'[u] = {}
      BY <1>1, <1>3, <1>8, <1>10, <3>1 DEF Orderly, Removals
    <3>3. jobs'[Target(t)'] # None /\ ~ jobs'[Target(t)'].vcoordfile /\ to_free'[t] = {}
      BY <1>1, <1>2, <1>3, <1>4, <1>8, <1>10
    <3> QED
      BY <3>2, <3>3
  <2>7. \A u, v \in Threads :
          removing'[u] = "deleting" /\ removing'[v] = "deleting" /\ Target(u)' = Target(v)' => u = v
    BY <1>1, <1>2, <1>10, <1>11 DEF Orderly, Removals
  <2>8. Cluster = "Local" => \A u \in Threads : ~ IsFreeing(u)'
    BY <1>1, <1>10 DEF Orderly, Removals, IsFreeing
  <2> QED
    BY <2>1, <2>3, <2>5, <2>6, <2>7, <2>8 DEF Removals
<1>13. \A i : \A u \in Threads : Removes(u, i)' <=> Removes(u, i)
  BY <1>1, <1>10 DEF Removes
<1>14. NodesHeld'
  <2>1. \A n \in Nodes : \A i \in JobIds : Has(i, n)' <=> Has(i, n)
    BY <1>3, <1>8, <1>13 DEF Has
  <2>2. RemovedTwice => RemovedTwice'
    <3> SUFFICES ASSUME NEW u \in Threads, NEW v \in Threads, u # v, removing[u] = "freeing",
                        jobs[Target(u)] = None \/ Removes(v, Target(u))
                 PROVE  RemovedTwice'
      BY DEF RemovedTwice
    <3>1. PICK k : k = Target(u)
      OBVIOUS
    <3>2. CASE u # t
      <4>1. removing'[u] = "freeing" /\ Target(u)' = k /\ k \in JobIds
        BY <1>1, <1>10, <3>1, <3>2 DEF Orderly, Removals
      <4>2. jobs'[k] = None \/ Removes(v, k)'
        BY <1>8, <1>13, <3>1, <4>1
      <4> QED
        BY <4>1, <4>2 DEF RemovedTwice, Removes
    <3>3. CASE u = t
      <4>1. Removes(v, j)
        BY <1>2, <1>3, <3>3
      <4>2. removing[v] = "freeing" /\ Target(v) = j
        BY <1>11, <4>1 DEF Removes
      <4>3. removing'[v] = "freeing" /\ Target(v)' = j /\ v # t
        BY <1>10, <3>3, <4>2
      <4>4. Removes(t, j)'
        BY <1>2, <1>10 DEF Removes
      <4> QED
        BY <4>3, <4>4 DEF RemovedTwice, Removes
    <3> QED
      BY <3>2, <3>3
  <2>3. \A i \in InTable : jobs'[i].vcoords = jobs[i].vcoords
    BY <1>8 DEF InTable
  <2> QED
    BY <1>1, <1>3, <1>9, <2>1, <2>2, <2>3, HeldAsBefore DEF Orderly
<1>15. NodesCounted'
  <2>1. \A i \in InTable : jobs'[i].vcoords = jobs[i].vcoords
    BY <1>8 DEF InTable
  <2> QED
    BY <1>1, <1>3, <1>9, <2>1, CountedWithoutSomeJobs DEF Orderly
<1> QED
  BY <1>1, <1>3, <1>7, <1>9, <1>10, <1>12, <1>14, <1>15, BooksAgree DEF TypeOK

(* All steps of RemoveJob, of either thread. *)
LEMMA RemoveJobInv == ASSUME NEW t \in Threads PROVE Inv /\ RemoveJob(t) => Inv'
<1> SUFFICES ASSUME Inv, RemoveJob(t) PROVE Inv'
  OBVIOUS
<1>1. CASE DeleteJob(t)
  <2>1. Up /\ removing[t] = "deleting" /\ Deletes(t)
    BY <1>1 DEF DeleteJob, Calls, Up
  <2>2. jobs[Target(t)] # None
    BY <2>1 DEF Inv, Orderly, Removals
  <2> QED
    BY <2>1, <2>2, DeletesInv
<1>2. CASE CannotRemove(t)
  <2>1. Up /\ (Raises(t, "KeyError") \/ Raises(t, "FileNotFoundError"))
    BY <1>2 DEF CannotRemove, Freed, Calls, Up
  <2> QED
    BY <2>1, RaisesInv
<1> QED
  BY <1>1, <1>2, FindNodesInv, FreeNodeInv, RemoveVcoordFileInv DEF RemoveJob

-----------------------------------------------------------------------------
(***************************************************************************)
(* The refresher, and the steps that touch no job.                         *)
(***************************************************************************)
(* What touches no job: the main thread moves on, notes states and names,  *)
(* enters children, and messages come and go.                              *)
LEMMA BooksKept ==
  ASSUME Inv,
         server' \in ServerObjects \cup {None}, server = None <=> server' = None,
         server # None => server'.job = server.job,
         runners' \in [Groups -> RunnerObjects],
         \A g \in Groups : /\ runners'[g].job = runners[g].job
                           /\ runners'[g].runner_ids = runners[g].runner_ids,
         jobs' \in [JobIds -> Entries \cup {None}], InTable' = InTable,
         \A j \in InTable :
           jobs'[j].vcoords = jobs[j].vcoords /\ jobs'[j].vcoordfile = jobs[j].vcoordfile,
         UNCHANGED <<next_group_id, next_runner_id, listed, cstate, nodes, removal, snapshot, polled,
                     outcome, proc, task>>,
         pc' \in MainPlaces,
         pc' = pc \/ (pc' \notin {"cleanup", "final"} /\ (pc' # "server" => server # None)),
         server_msgs' \in Seq(Messages), queue' \in Seq(Messages)
  PROVE  Inv'
<1> USE DEF removal, steps
<1>1. Groups' = Groups /\ Started' = Started
  BY DEF Groups, Started
<1>2. TypeOK'
  BY <1>1 DEF Inv, TypeOK
<1>3. Ended'
  BY DEF Inv, Ended
<1>4. ASSUME Up PROVE Orderly'
  <2>1. TypeOK /\ Orderly
    BY <1>4 DEF Inv
  <2>2. KnownJobs' = KnownJobs
    <3>1. AllJobs' = AllJobs
      BY <1>1 DEF AllJobs
    <3>2. ServerJobs' = ServerJobs
      BY DEF ServerJobs
    <3> QED
      BY <3>1, <3>2 DEF KnownJobs
  <2>3. OnlyStarted'
    BY <1>1, <2>1, <2>2 DEF Orderly, OnlyStarted
  <2>4. Tracked'
    BY <1>1, <2>1, <2>2 DEF Orderly, Tracked, Busy
  <2>5. InPlace'
    BY <1>1, <2>1 DEF Orderly, InPlace, Busy
  <2>6. Described'
    BY <1>1, <2>1 DEF Orderly, Described
  <2>7. Removals' /\ NodesHeld' /\ NodesCounted'
    BY <1>1, <2>1, TableKept DEF Orderly
  <2> QED
    BY <2>3, <2>4, <2>5, <2>6, <2>7 DEF Orderly
<1> QED
  BY <1>2, <1>3, <1>4 DEF Inv, Up

(* The children of a job are entered, if it is still there. *)
LEMMA UpdatedTable ==
  ASSUME TypeOK, NEW j \in JobIds, jobs' = UpdateJob(jobs, j)
  PROVE  /\ jobs' \in [JobIds -> Entries \cup {None}]
         /\ InTable' = InTable
         /\ \A i \in InTable :
              jobs'[i].vcoords = jobs[i].vcoords /\ jobs'[i].vcoordfile = jobs[i].vcoordfile
<1>1. CASE jobs[j] = None \/ polled = j
  BY <1>1 DEF UpdateJob, InTable, TypeOK
<1>2. CASE ~ (jobs[j] = None \/ polled = j)
  <2>1. jobs[j] \in Entries
    BY <1>2 DEF TypeOK
  <2>2. [jobs[j] EXCEPT !.children = TRUE] \in Entries
        /\ [jobs[j] EXCEPT !.children = TRUE].vcoords = jobs[j].vcoords
        /\ [jobs[j] EXCEPT !.children = TRUE].vcoordfile = jobs[j].vcoordfile
    BY <2>1 DEF Entries
  <2>3. jobs' = [jobs EXCEPT ![j] = [jobs[j] EXCEPT !.children = TRUE]]
    BY <1>2 DEF UpdateJob
  <2>4. \A i \in JobIds : jobs'[i] = IF i = j THEN [jobs[j] EXCEPT !.children = TRUE] ELSE jobs[i]
    BY <2>3 DEF TypeOK
  <2>5. jobs' \in [JobIds -> Entries \cup {None}]
    BY <2>2, <2>3 DEF TypeOK
  <2>6. InTable' = InTable
    BY <2>2, <2>4, <1>2, LauncherAssumption DEF InTable
  <2>7. \A i \in InTable :
          jobs'[i].vcoords = jobs[i].vcoords /\ jobs'[i].vcoordfile = jobs[i].vcoordfile
    BY <2>2, <2>4 DEF InTable
  <2> QED
    BY <2>5, <2>6, <2>7
<1> QED
  BY <1>1, <1>2

LEMMA InitInv == Init => Inv
<1> SUFFICES ASSUME Init PROVE Inv
  OBVIOUS
<1>1. Groups = {} /\ runners \in [Groups -> RunnerObjects]
  <2>1. runners \in Seq(RunnerObjects) /\ Len(runners) = 0
    BY DEF Init
  <2>2. runners \in [1 .. 0 -> RunnerObjects]
    BY <2>1
  <2> QED
    BY <2>2 DEF Groups
<1>2. TypeOK
  BY <1>1 DEF Init, TypeOK, MainPlaces, Phases
<1>3. Started = {} /\ InTable = {} /\ KnownJobs = {}
  <2>1. Started = {} /\ InTable = {}
    BY DEF Init, Started, InTable
  <2>2. AllJobs = {} /\ ServerJobs = {} /\ Range(kills) = {}
    BY <1>1, RangeOfSequences DEF Init, AllJobs, ServerJobs
  <2> QED
    BY <2>1, <2>2 DEF KnownJobs
<1>4. OnlyStarted
  BY <1>3, FS_EmptySet DEF Init, OnlyStarted
<1>5. Tracked
  BY <1>3 DEF Init, Tracked, Threads
<1>6. InPlace
  BY <1>1, <1>3 DEF Init, InPlace, Busy
<1>7. Removals /\ NodesHeld
  <2>1. \A t \in Threads : removing[t] = "no"
    BY DEF Init
  <2>2. Removals
    BY <2>1 DEF Removals, IsFreeing, Threads
  <2>3. \A j \in JobIds, n \in Nodes : ~ Has(j, n)
    BY DEF Init, Has
  <2>4. \A n \in Nodes : nodes[n] = "free"
    BY DEF Init
  <2>5. NodesHeld
    BY <1>3, <2>3, <2>4 DEF NodesHeld
  <2> QED
    BY <2>2, <2>5
<1>8. Described
  BY <1>1, <1>3 DEF Init, Described
<1>9. NodesCounted
  <2>1. \A S \in SUBSET InTable : NodesUsedBy(S) = {} /\ ServersOf(S) = {} /\ RunnersOf(S) = {}
    BY <1>3 DEF NodesUsedBy, ServersOf, RunnersOf
  <2>2. Cardinality({}) = 0 /\ 0 <= 0 * NodesServer + 0 * NodesRunner
    BY FS_EmptySet, LauncherAssumption
  <2> QED
    BY <2>1, <2>2 DEF NodesCounted
<1>10. Ended
  BY DEF Init, Ended
<1> QED
  BY <1>2, <1>4, <1>5, <1>6, <1>7, <1>8, <1>9, <1>10 DEF Inv, Orderly

(* The refresher starts a round: nothing that matters here changes. *)
LEMMA StartRoundInv == Inv /\ StartRound => Inv'
<1> SUFFICES ASSUME Inv, StartRound PROVE Inv'
  OBVIOUS
<1> QED
  BY BooksKept DEF StartRound, Inv, objects, cluster, place, world, TypeOK, InTable, refreshing

(* It takes the list of jobs that have not ended. *)
LEMMA SnapshotInv == Inv /\ Snapshot => Inv'
<1> SUFFICES ASSUME Inv, Snapshot PROVE Inv'
  OBVIOUS
<1> USE DEF Snapshot, objects, cluster, place, removal, steps, world
<1>1. Up /\ TypeOK /\ Orderly
  BY DEF Inv, Up
<1>2. InTable' = InTable /\ Started' = Started /\ KnownJobs' = KnownJobs
  BY DEF InTable, Started, KnownJobs, AllJobs, ServerJobs, Groups
<1>3. snapshot' \subseteq listed
  BY DEF NotStopped
<1>4. TypeOK'
  BY <1>1, <1>3 DEF TypeOK, Groups
<1>5. OnlyStarted'
  BY <1>1, <1>2, <1>3 DEF Orderly, OnlyStarted
<1>6. Tracked' /\ InPlace' /\ Described'
  BY <1>1, <1>2 DEF Orderly, Tracked, InPlace, Described, Groups, Busy
<1>7. Removals' /\ NodesHeld' /\ NodesCounted'
  BY <1>1, <1>2, TableKept DEF Orderly
<1> QED
  BY <1>1, <1>4, <1>5, <1>6, <1>7 DEF Inv, Orderly, Ended, Up

(* It asks for one job, and is about to remove it if it has ended. *)
LEMMA CheckJobStateInv == ASSUME NEW j \in JobIds PROVE Inv /\ CheckJobState(j) => Inv'
<1> SUFFICES ASSUME Inv, CheckJobState(j) PROVE Inv'
  OBVIOUS
<1> USE DEF CheckJobState, objects, cluster, place, world
<1>1. Up /\ TypeOK /\ Orderly /\ polled = None
  BY DEF Inv, Up
<1>2. InTable' = InTable /\ Started' = Started /\ KnownJobs' = KnownJobs
  BY DEF InTable, Started, KnownJobs, AllJobs, ServerJobs, Groups
<1>3. /\ \/ polled' = polled /\ removing' = removing
         \/ /\ polled' = j /\ proc[j] = "ended"
            /\ removing' = [removing EXCEPT !["refresher"] = "killed"]
      /\ cstate' \in [JobIds -> {"waiting", "running", "stop"}]
      /\ \A i \in InTable : cstate[i] # "stop" => cstate'[i] # "stop"
  BY <1>1 DEF TypeOK, InTable
<1>4. /\ removing' \in [Threads -> Phases] /\ removing'["main"] = removing["main"]
      /\ removing'["refresher"] \in {removing["refresher"], "killed"}
  BY <1>1, <1>3 DEF TypeOK, Phases, Threads
<1>5. TypeOK'
  BY <1>1, <1>3, <1>4 DEF TypeOK, Groups
<1>6. OnlyStarted'
  BY <1>1, <1>2, <1>3 DEF Orderly, OnlyStarted
<1>7. Tracked'
  BY <1>1, <1>2, <1>3, <1>4 DEF Orderly, Tracked
<1>8. InPlace' /\ Described'
  BY <1>1, <1>2 DEF Orderly, InPlace, Described, Groups, Busy
<1>9. removing["refresher"] \in {"no", "found"}
  <2>1. Target("refresher") \notin JobIds
    BY <1>1, LauncherAssumption DEF Target, JobIds
  <2> QED
    BY <1>1, <2>1 DEF Orderly, Removals, Threads, TypeOK, Phases
<1>10. Target("main")' = Target("main") /\ Target("refresher")' = polled'
  BY DEF Target
<1>11. CASE polled' = polled /\ removing' = removing
  <2>1. Removals' /\ NodesHeld' /\ NodesCounted'
    BY <1>1, <1>2, <1>11, TableKept DEF Orderly
  <2> QED
    BY <1>1, <1>5, <1>6, <1>7, <1>8, <2>1 DEF Inv, Orderly, Ended, Up
<1>12. CASE polled' = j /\ proc[j] = "ended" /\ removing' = [removing EXCEPT !["refresher"] = "killed"]
  <2>1. removing'["refresher"] = "killed"
    BY <1>1, <1>12 DEF TypeOK, Threads
  <2>2. ~ IsFreeing("refresher") /\ ~ IsFreeing("refresher")' /\ (IsFreeing("main")' <=> IsFreeing("main"))
    BY <1>4, <1>9, <2>1 DEF IsFreeing
  <2>3. \A t \in Threads : IsFreeing(t) \/ IsFreeing(t)' =>
          t = "main" /\ removing'[t] = removing[t] /\ Target(t)' = Target(t)
    BY <1>4, <1>10, <2>2 DEF Threads
  <2>4. NodesHeld' /\ NodesCounted'
    BY <1>1, <1>2, <2>3, HoldersKept DEF Orderly
  <2>5. Removals'
    <3>1. removing'["main"] # "no" => Busy'
      BY <1>1, <1>4 DEF Orderly, Removals, Busy
    <3>2. \A t \in Threads : removing'[t] \notin {"no", "found"} =>
            Target(t)' \in JobIds /\ proc'[Target(t)'] = "ended"
      <4>1. Target("refresher")' \in JobIds /\ proc'[Target("refresher")'] = "ended"
        BY <1>10, <1>12
      <4>2. removing'["main"] \notin {"no", "found"} =>
              Target("main")' \in JobIds /\ proc'[Target("main")'] = "ended"
        BY <1>1, <1>4, <1>10 DEF Orderly, Removals, Threads
      <4> QED
        BY <4>1, <4>2 DEF Threads
    <3>3. \A t \in Threads : removing'[t] \in {"freeing", "deleting"} => IsFreeing(t)'
      BY DEF IsFreeing
    <3>4. \A t \in Threads : removing'[t] = "freeing" /\ jobs'[Target(t)'] # None =>
            to_free'[t] \subseteq jobs'[Target(t)'].vcoords
      BY <1>1, <2>3, <3>3 DEF Orderly, Removals
    <3>5. \A t \in Threads : removing'[t] = "deleting" =>
            jobs'[Target(t)'] # None /\ ~ jobs'[Target(t)'].vcoordfile /\ to_free'[t] = {}
      BY <1>1, <2>3, <3>3 DEF Orderly, Removals
    <3>6. \A t, u \in Threads :
            removing'[t] = "deleting" /\ removing'[u] = "deleting" /\ Target(t)' = Target(u)' => t = u
      BY <2>3, <3>3
    <3>7. Cluster = "Local" => \A t \in Threads : ~ IsFreeing(t)'
      BY <1>1, <2>3 DEF Orderly, Removals, IsFreeing
    <3> QED
      BY <3>1, <3>2, <3>4, <3>5, <3>6, <3>7 DEF Removals
  <2> QED
    BY <1>1, <1>5, <1>6, <1>7, <1>8, <2>4, <2>5 DEF Inv, Orderly, Ended, Up
<1> QED
  BY <1>3, <1>11, <1>12

-----------------------------------------------------------------------------
(***************************************************************************)
(* Jobs that are killed.                                                   *)
(***************************************************************************)
(* The main thread looks the job up. *)
LEMMA removeInv == Inv /\ remove => Inv'
<1> SUFFICES ASSUME Inv, remove PROVE Inv'
  OBVIOUS
<1> USE DEF remove, objects, cluster, place, refreshing, world
<1>1. Up /\ TypeOK /\ Orderly
  BY DEF Inv, Up
<1>2. InTable' = InTable /\ Started' = Started /\ AllJobs' = AllJobs /\ ServerJobs' = ServerJobs
  BY DEF InTable, Started, AllJobs, ServerJobs, Groups
<1>3. /\ kills \in Seq(JobIds) /\ kills # <<>> /\ removing["main"] = "no"
      /\ Head(kills) \in JobIds /\ Head(kills) \in Range(kills) /\ Tail(kills) \in Seq(JobIds)
      /\ Range(kills) = {Head(kills)} \cup Range(Tail(kills))
  BY <1>1, RangeOfSequences DEF TypeOK, Busy
<1>4. /\ \/ kills' = kills /\ removing' = [removing EXCEPT !["main"] = "found"]
         \/ kills' = Tail(kills) /\ removing' = removing /\ Head(kills) \notin InTable
      /\ Range(kills') \subseteq Range(kills)
      /\ InTable \cap Range(kills) \subseteq Range(kills')
  <2>1. CASE Head(kills) \in listed /\ jobs[Head(kills)] # None
    BY <2>1, <1>3
  <2>2. CASE ~ (Head(kills) \in listed /\ jobs[Head(kills)] # None)
    <3>1. Head(kills) \notin InTable
      BY <1>1, <1>3, <2>2 DEF Orderly, Tracked, InTable
    <3> QED
      BY <1>3, <2>2, <3>1
  <2> QED
    BY <2>1, <2>2
<1>5. /\ removing' \in [Threads -> Phases] /\ removing'["refresher"] = removing["refresher"]
      /\ removing'["main"] \in {"no", "found"}
      /\ removing'["main"] = "found" => kills' = kills
      /\ removing'["main"] = "no" => Head(kills) \notin InTable
  BY <1>1, <1>3, <1>4 DEF TypeOK, Phases, Threads
<1>6. KnownJobs' \subseteq KnownJobs /\ InTable \cap KnownJobs \subseteq KnownJobs'
  BY <1>2, <1>4 DEF KnownJobs
<1>7. TypeOK'
  BY <1>1, <1>3, <1>4, <1>5 DEF TypeOK, Groups
<1>8. OnlyStarted'
  BY <1>1, <1>2, <1>6 DEF Orderly, OnlyStarted
<1>9. Tracked'
  BY <1>1, <1>2, <1>3, <1>5, <1>6 DEF Orderly, Tracked
<1>10. InPlace'
  BY <1>1, <1>2, <1>3, <1>4 DEF Orderly, InPlace, Groups, Busy
<1>11. Described'
  BY <1>1, <1>2 DEF Orderly, Described, Groups
<1>12. \A t \in Threads : removing'[t] \notin {"no", "found"} \/ removing[t] \notin {"no", "found"} =>
         removing'[t] = removing[t] /\ Target(t)' = Target(t)
  BY <1>3, <1>5 DEF Threads, Target
<1>13. NodesHeld' /\ NodesCounted'
  <2>1. \A t \in Threads : IsFreeing(t) \/ IsFreeing(t)' => removing'[t] = removing[t] /\ Target(t)' = Target(t)
    BY <1>12 DEF IsFreeing
  <2> QED
    BY <1>1, <1>2, <2>1, HoldersKept DEF Orderly
<1>14. Removals'
  <2>1. removing'["main"] # "no" => Busy'
    BY <1>3, <1>5 DEF Busy
  <2>2. Cluster = "Local" => \A t \in Threads : ~ IsFreeing(t)'
    BY <1>1, <1>12 DEF Orderly, Removals, IsFreeing
  <2> QED
    BY <1>1, <1>12, <2>1, <2>2 DEF Orderly, Removals
<1> QED
  BY <1>1, <1>7, <1>8, <1>9, <1>10, <1>11, <1>13, <1>14 DEF Inv, Orderly, Ended, Up

(* It kills the processes of the job. *)
LEMMA KillProcessInv == Inv /\ KillProcess => Inv'
<1> SUFFICES ASSUME Inv, KillProcess PROVE Inv'
  OBVIOUS
<1>1. CASE ~ (Cluster = "Fugaku" => Killable(Head(kills)))
  BY <1>1, RaisesInv DEF KillProcess, Up, Threads
<1>2. CASE Cluster = "Fugaku" => Killable(Head(kills))
  <2> USE DEF objects, cluster, place, refreshing, world
  <2>1. /\ Up /\ TypeOK /\ Orderly /\ kills \in Seq(JobIds) /\ kills # <<>> /\ removing["main"] = "found"
        /\ removing' = [removing EXCEPT !["main"] = "killed"]
        /\ proc' = [proc EXCEPT ![Head(kills)] = "ended"]
        /\ UNCHANGED <<objects, listed, cstate, cluster, place, kills, to_free, refreshing, outcome,
                       task, queue, said, faults>>
    BY <1>2 DEF Inv, Up, KillProcess, Busy, TypeOK
  <2>2. Head(kills) \in JobIds /\ Head(kills) \in Range(kills)
    BY <2>1, RangeOfSequences
  <2>3. Head(kills) \in Started
    BY <2>1, <2>2 DEF Orderly, OnlyStarted, KnownJobs
  <2>4. InTable' = InTable /\ Started' = Started /\ KnownJobs' = KnownJobs
    BY <2>1, <2>2, <2>3 DEF InTable, Started, KnownJobs, AllJobs, ServerJobs, Groups, TypeOK
  <2>5. /\ proc' \in [JobIds -> {"none", "running", "ended"}]
        /\ \A j \in JobIds : proc'[j] = proc[j] \/ proc'[j] = "ended"
        /\ proc'[Head(kills)] = "ended"
    BY <2>1, <2>2 DEF TypeOK
  <2>6. /\ removing' \in [Threads -> Phases] /\ removing'["refresher"] = removing["refresher"]
        /\ removing'["main"] = "killed"
        /\ \A t \in Threads : Target(t)' = Target(t)
    BY <2>1 DEF TypeOK, Phases, Threads, Target
  <2>7. TypeOK'
    BY <2>1, <2>5, <2>6 DEF TypeOK, Groups
  <2>8. OnlyStarted'
    BY <2>1, <2>4, <2>5 DEF Orderly, OnlyStarted, TypeOK
  <2>9. Tracked'
    BY <2>1, <2>4, <2>5, <2>6 DEF Orderly, Tracked, Busy
  <2>10. InPlace' /\ Described'
    BY <2>1, <2>4 DEF Orderly, InPlace, Described, Groups, Busy
  <2>11. \A t \in Threads : IsFreeing(t) \/ IsFreeing(t)' =>
           t = "refresher" /\ removing'[t] = removing[t] /\ Target(t)' = Target(t)
    BY <2>1, <2>6 DEF IsFreeing, Threads
  <2>12. NodesHeld' /\ NodesCounted'
    BY <2>1, <2>4, <2>11, HoldersKept DEF Orderly
  <2>13. Removals'
    <3>1. Busy'
      BY <2>1 DEF Busy
    <3>2. \A t \in Threads : removing'[t] \notin {"no", "found"} =>
            Target(t)' \in JobIds /\ proc'[Target(t)'] = "ended"
      <4>1. Target("main")' \in JobIds /\ proc'[Target("main")'] = "ended"
        BY <2>2, <2>5, <2>6 DEF Target, Threads
      <4>2. removing'["refresher"] \notin {"no", "found"} =>
              Target("refresher") \in JobIds /\ proc[Target("refresher")] = "ended"
        BY <2>1, <2>6 DEF Orderly, Removals, Threads
      <4>3. removing'["refresher"] \notin {"no", "found"} =>
              Target("refresher")' \in JobIds /\ proc'[Target("refresher")'] = "ended"
        BY <2>5, <2>6, <4>2 DEF Threads
      <4> QED
        BY <4>1, <4>3 DEF Threads
    <3>3. \A t \in Threads : removing'[t] \in {"freeing", "deleting"} => IsFreeing(t)'
      BY DEF IsFreeing
    <3>4. \A t \in Threads : removing'[t] = "freeing" /\ jobs'[Target(t)'] # None =>
            to_free'[t] \subseteq jobs'[Target(t)'].vcoords
      BY <2>1, <2>11, <3>3 DEF Orderly, Removals
    <3>5. \A t \in Threads : removing'[t] = "deleting" =>
            jobs'[Target(t)'] # None /\ ~ jobs'[Target(t)'].vcoordfile /\ to_free'[t] = {}
      BY <2>1, <2>11, <3>3 DEF Orderly, Removals
    <3>6. \A t, u \in Threads :
            removing'[t] = "deleting" /\ removing'[u] = "deleting" /\ Target(t)' = Target(u)' => t = u
      BY <2>11, <3>3
    <3>7. Cluster = "Local" => \A t \in Threads : ~ IsFreeing(t)'
      BY <2>1, <2>11 DEF Orderly, Removals, IsFreeing
    <3> QED
      BY <3>1, <3>2, <3>4, <3>5, <3>6, <3>7 DEF Removals
  <2> QED
    BY <2>1, <2>7, <2>8, <2>9, <2>10, <2>12, <2>13 DEF Inv, Orderly, Ended, Up
<1> QED
  BY <1>1, <1>2

-----------------------------------------------------------------------------
(***************************************************************************)
(* The server is started and seen.                                         *)
(***************************************************************************)
LEMMA StartServerInv == Inv /\ StartServer => Inv'
<1> SUFFICES ASSUME Inv, StartServer PROVE Inv'
  OBVIOUS
<1> USE DEF StartServer, Main, place, removal, steps, refreshing
<1>1. Up /\ TypeOK /\ Orderly /\ server = None /\ ~ Busy /\ pc = "server"
  BY DEF Inv, Up
<1>2. outcome' \in {"may not restart", "too many restarts", "no nodes", "up"}
      /\ (outcome' = "up" => CanSchedule(NodesServer))
  OBVIOUS
<1>3. CASE outcome' # "up"
  <2>1. UNCHANGED <<server, listed, cstate, cluster, proc, task>>
    BY <1>3
  <2>2. UNCHANGED <<runners, next_group_id, next_runner_id, place, removal, refreshing, queue>>
    OBVIOUS
  <2> HIDE DEF StartServer
  <2>3. TypeOK'
    BY <1>1, <2>1, <2>2 DEF TypeOK, Groups, cluster
  <2> QED
    BY <1>2, <1>3, <2>3 DEF Inv, Ended, Up
<1>4. CASE outcome' = "up"
  <2> DEFINE j == NextJob
             what == [runner_ids |-> {}, node_name |-> None]
  <2>1. /\ ScheduleJob(NodesServer, "server", what)
        /\ server' = [job |-> j, state |-> "waiting", node_name |-> None]
        /\ CanSchedule(NodesServer)
        /\ UNCHANGED <<runners, next_group_id, next_runner_id, place, removal, refreshing, queue>>
    BY <1>2, <1>4
  <2> HIDE DEF StartServer
  <2>2. what \in Tasks /\ NodesServer \in Nat
    BY LauncherAssumption DEF Tasks
  <2> HIDE DEF what
  <2>3. /\ j \in JobIds /\ j \notin Started /\ j \notin InTable
        /\ Started' = Started \cup {j} /\ Started' = 1 .. Cardinality(Started')
        /\ InTable' = InTable \cup {j}
        /\ jobs' \in [JobIds -> Entries \cup {None}]
        /\ nodes' \in [Nodes -> {"free", "server", "runner"}]
        /\ task' \in [JobIds -> Tasks \cup {None}]
        /\ task'[j] = what
        /\ \A i \in Started : task'[i] = task[i]
        /\ proc' \in [JobIds -> {"none", "running", "ended"}]
    BY <1>1, <2>1, <2>2, JobAdded DEF Orderly
  <2>4. /\ proc' = [proc EXCEPT ![j] = "running"]
        /\ listed' = {i \in listed : cstate[i] # "stop"} \cup {j}
        /\ cstate' = [cstate EXCEPT ![j] = "waiting"]
    BY <2>1 DEF ScheduleJob
  <2> HIDE DEF j
  <2>5. server' \in ServerObjects /\ server' # None /\ server'.job = j
    BY <2>1, <2>3, LauncherAssumption DEF ServerObjects
  <2>6. Groups = {} /\ AllJobs = {} /\ AllJobs' = {} /\ Groups' = {} /\ Range(kills) = {} /\ Range(kills') = {}
    BY <1>1, <2>1, RangeOfSequences DEF Orderly, InPlace, AllJobs, Groups, Busy
  <2>7. KnownJobs = {} /\ KnownJobs' = {j}
    BY <1>1, <2>5, <2>6 DEF KnownJobs, ServerJobs
  <2>8. InTable = {}
    BY <1>1, <2>7 DEF Orderly, Tracked
  <2>9. TypeOK'
    BY <1>1, <2>1, <2>3, <2>4, <2>5 DEF TypeOK, Groups
  <2>10. OnlyStarted'
    <3>1. \A i \in Started' : task'[i] \in Tasks
      BY <1>1, <2>2, <2>3 DEF Orderly, OnlyStarted
    <3>2. polled' # None => proc'[polled'] = "ended"
      BY <1>1, <2>1, <2>3, <2>4 DEF Orderly, OnlyStarted, TypeOK, Started
    <3> QED
      BY <1>1, <2>1, <2>3, <2>4, <2>7, <3>1, <3>2 DEF Orderly, OnlyStarted
  <2>11. Tracked'
    <3>1. removing["main"] = "no" /\ removing' = removing
      BY <1>1, <2>1 DEF Orderly, Removals
    <3>2. InTable' = {j} /\ j \in listed' /\ cstate'[j] # "stop"
      BY <1>1, <2>3, <2>4, <2>8 DEF TypeOK
    <3>3. \A i \in JobIds : proc'[i] = "running" => i = j
      BY <1>1, <2>3, <2>4, <2>8 DEF Orderly, Tracked, TypeOK
    <3> QED
      BY <3>1, <3>2, <3>3, <2>7 DEF Tracked
  <2>12. InPlace'
    BY <1>1, <2>1, <2>5, <2>6 DEF InPlace, Busy
  <2>13. what.runner_ids = {}
    BY DEF what
  <2>14. Removals' /\ NodesHeld'
    BY <1>1, <2>1, <2>2, HeldWithNewJob DEF Orderly
  <2>15. Described'
    <3>1. \A i \in Started : i # j /\ task'[i] = task[i]
      BY <2>3
    <3>2. task'[j].runner_ids = {}
      BY <2>3, <2>13
    <3>3. \A i, k \in Started' : i # k => task'[i].runner_ids \cap task'[k].runner_ids = {}
      BY <1>1, <2>3, <3>1, <3>2 DEF Orderly, Described
    <3> QED
      BY <1>1, <2>1, <2>3, <2>5, <2>6, <3>1, <3>2, <3>3 DEF Orderly, Described
  <2>16. NodesCounted'
    BY <1>1, <2>1, <2>2, <2>13, CountedWithNewJob, FS_EmptySet DEF Orderly
  <2> QED
    BY <1>1, <1>4, <2>9, <2>10, <2>11, <2>12, <2>14, <2>15, <2>16 DEF Inv, Orderly, Ended, Up
<1> QED
  BY <1>3, <1>4

(* The main thread sees the server run. *)
LEMMA SeeServerInv == Inv /\ SeeServer => Inv'
<1> SUFFICES ASSUME Inv, SeeServer PROVE Inv'
  OBVIOUS
<1> USE DEF SeeServer, Main, refreshing, removal, steps, world
<1>1. Up /\ TypeOK /\ Orderly /\ server # None /\ server \in ServerObjects /\ ~ Busy
  BY DEF Inv, Up, TypeOK
<1>2. /\ server' \in ServerObjects /\ server'.job = server.job /\ server' # None
      /\ pc' \in {"launch", "server"}
  BY <1>1, LauncherAssumption DEF ServerObjects
<1>3. /\ jobs' \in [JobIds -> Entries \cup {None}]
      /\ InTable' = InTable
      /\ \A i \in InTable :
           jobs'[i].vcoords = jobs[i].vcoords /\ jobs'[i].vcoordfile = jobs[i].vcoordfile
  <2>1. jobs' = jobs \/ jobs' = UpdateJob(jobs, server.job)
    OBVIOUS
  <2>2. CASE jobs' = jobs
    BY <2>2, <1>1 DEF TypeOK, InTable
  <2>3. CASE jobs' = UpdateJob(jobs, server.job)
    <3>1. server.job \in JobIds
      BY <1>1 DEF ServerObjects
    <3> QED
      BY <2>3, <1>1, <3>1, UpdatedTable
  <2> QED
    BY <2>1, <2>2, <2>3
<1>4. Started' = Started /\ KnownJobs' = KnownJobs
  BY <1>1, <1>2 DEF Started, KnownJobs, AllJobs, ServerJobs, Groups
<1>5. TypeOK'
  BY <1>1, <1>2, <1>3 DEF TypeOK, Groups, MainPlaces
<1>6. OnlyStarted'
  BY <1>1, <1>3, <1>4 DEF Orderly, OnlyStarted
<1>7. Tracked'
  BY <1>1, <1>3, <1>4 DEF Orderly, Tracked, Busy
<1>8. InPlace'
  BY <1>1, <1>2, <1>3 DEF Orderly, InPlace, Groups, Busy
<1>9. Described'
  BY <1>1, <1>2, <1>4 DEF Orderly, Described, Groups
<1>10. Removals' /\ NodesHeld' /\ NodesCounted'
  BY <1>1, <1>3, <1>4, TableKept DEF Orderly
<1> QED
  BY <1>1, <1>5, <1>6, <1>7, <1>8, <1>9, <1>10 DEF Inv, Orderly, Ended, Up

-----------------------------------------------------------------------------
(***************************************************************************)
(* Groups are launched and killed.                                         *)
(***************************************************************************)
LEMMA LaunchedRunnersAreFinite ==
  ASSUME TypeOK, OnlyStarted, Described
  PROVE  /\ launched_runners \subseteq 0 .. next_runner_id - 1
         /\ IsFiniteSet(launched_runners) /\ Cardinality(launched_runners) \in Nat
         /\ \A g \in Groups : runners[g].job \in Started
<1>1. \A g \in Groups : runners[g].job \in Started
  BY DEF OnlyStarted, KnownJobs, AllJobs
<1>2. launched_runners \in SUBSET (0 .. next_runner_id - 1)
  BY <1>1 DEF launched_runners, Described
<1>3. IsFiniteSet(0 .. next_runner_id - 1)
  BY FS_Interval DEF TypeOK
<1> QED
  BY <1>1, <1>2, <1>3, FS_Subset, FS_CardinalityType

(* What LaunchGroup takes for the size and the ids of the next group. *)
GroupSizeFor(mr) ==
  LET active == Cardinality(launched_runners) IN
  IF GroupSize <= mr - active THEN GroupSize ELSE mr - active

IdsFor(mr) == next_runner_id .. next_runner_id + GroupSizeFor(mr) - 1

(* The next group is not empty, no larger than there is room for, and its  *)
(* ids are new.                                                            *)
LEMMA SizeOfGroup ==
  ASSUME TypeOK, OnlyStarted, Described, NEW mr \in Loads, Cardinality(launched_runners) < mr
  PROVE  /\ GroupSizeFor(mr) \in Nat \ {0} /\ GroupSizeFor(mr) <= GroupSize
         /\ Cardinality(launched_runners) + GroupSizeFor(mr) <= mr
         /\ IdsFor(mr) \in SUBSET Nat /\ IsFiniteSet(IdsFor(mr)) /\ IdsFor(mr) # {}
         /\ Cardinality(IdsFor(mr)) = GroupSizeFor(mr)
         /\ IdsFor(mr) \subseteq 0 .. next_runner_id + GroupSizeFor(mr) - 1
         /\ \A j \in Started : task[j].runner_ids \cap IdsFor(mr) = {}
<1>1. next_runner_id \in Nat /\ mr \in Nat /\ GroupSize \in Nat \ {0}
      /\ Cardinality(launched_runners) \in Nat
  BY LaunchedRunnersAreFinite, LauncherAssumption DEF TypeOK
<1>2. GroupSizeFor(mr) \in Nat \ {0} /\ GroupSizeFor(mr) <= GroupSize
      /\ Cardinality(launched_runners) + GroupSizeFor(mr) <= mr
  BY <1>1 DEF GroupSizeFor
<1>3. IsFiniteSet(IdsFor(mr)) /\ Cardinality(IdsFor(mr)) = GroupSizeFor(mr)
  <2> DEFINE a == next_runner_id
             b == next_runner_id + GroupSizeFor(mr) - 1
  <2>1. a \in Int /\ b \in Int /\ a <= b /\ (b - a) + 1 = GroupSizeFor(mr)
    BY <1>1, <1>2
  <2>2. IdsFor(mr) = a .. b
    BY DEF IdsFor
  <2> HIDE DEF a, b
  <2>3. IsFiniteSet(a .. b) /\ Cardinality(a .. b) = (b - a) + 1
    BY <2>1, FS_Interval
  <2> QED
    BY <2>1, <2>2, <2>3
<1>4. IdsFor(mr) \in SUBSET Nat /\ IdsFor(mr) # {} /\ IdsFor(mr) \subseteq 0 .. next_runner_id + GroupSizeFor(mr) - 1
  BY <1>1, <1>2 DEF IdsFor
<1>5. \A j \in Started : task[j].runner_ids \cap IdsFor(mr) = {}
  BY <1>1, <1>2 DEF IdsFor, Described
<1> QED
  BY <1>2, <1>3, <1>4, <1>5

(* A group is launched. *)
LEMMA LaunchGroupInv ==
  ASSUME Inv, Up, pc = "launch", ~ Busy, pc' = "check",
         UNCHANGED <<todo, removed, server_msgs, steps, refreshing, queue, said, faults>>,
         NEW mr \in Loads, LaunchGroup(mr)
  PROVE  Inv'
<1> USE DEF refreshing, steps
<1>1. TypeOK /\ Orderly /\ server # None /\ server \in ServerObjects
  BY DEF Inv, Orderly, InPlace, TypeOK
<1> DEFINE size == GroupSizeFor(mr)
           ids == IdsFor(mr)
           what == [runner_ids |-> ids, node_name |-> server.node_name]
           n == size * NodesRunner
<1>2. CASE ~ CanSchedule(n)
  <2>1. outcome' = "no nodes" /\ UNCHANGED <<objects, listed, cstate, cluster, proc, task, kills>>
    BY <1>2 DEF LaunchGroup, GroupSizeFor
  <2>2. TypeOK'
    BY <1>1, <2>1 DEF TypeOK, Groups, cluster, objects, steps, MainPlaces
  <2> QED
    BY <2>1, <2>2 DEF Inv, Ended, Up
<1>3. CASE CanSchedule(n)
  <2> DEFINE j == NextJob
  <2>1. /\ ScheduleJob(n, "runner", what)
        /\ UNCHANGED <<outcome, server, starts, kills>>
        /\ next_runner_id' = next_runner_id + size
        /\ next_group_id' = next_group_id + 1
        /\ runners' = [g \in Groups \cup {next_group_id} |->
              IF g = next_group_id
              THEN [job |-> j, runner_ids |-> ids, state |-> "waiting", server_knows_it |-> {}]
              ELSE runners[g]]
        /\ Cardinality(launched_runners) < mr
    BY <1>3 DEF LaunchGroup, GroupSizeFor, IdsFor
  <2>2. /\ size \in Nat \ {0} /\ ids \in SUBSET Nat /\ IsFiniteSet(ids) /\ ids # {}
        /\ Cardinality(ids) = size /\ ids \subseteq 0 .. next_runner_id + size - 1
        /\ \A i \in Started : task[i].runner_ids \cap ids = {}
    BY <1>1, <2>1, SizeOfGroup DEF Orderly
  <2> HIDE DEF size, ids
  <2>3. what \in Tasks /\ n \in Nat /\ what.runner_ids = ids
    BY <1>1, <2>2, LauncherAssumption DEF Tasks, ServerObjects
  <2> HIDE DEF what, n
  <2>4. /\ j \in JobIds /\ j \notin Started /\ j \notin InTable
        /\ Started' = Started \cup {j} /\ Started' = 1 .. Cardinality(Started')
        /\ InTable' = InTable \cup {j}
        /\ jobs' \in [JobIds -> Entries \cup {None}]
        /\ nodes' \in [Nodes -> {"free", "server", "runner"}]
        /\ task' \in [JobIds -> Tasks \cup {None}]
        /\ task'[j] = what
        /\ \A i \in Started : task'[i] = task[i]
        /\ proc' \in [JobIds -> {"none", "running", "ended"}]
    BY <1>1, <1>3, <2>1, <2>3, JobAdded DEF Orderly
  <2>5. /\ proc' = [proc EXCEPT ![j] = "running"]
        /\ listed' = {i \in listed : cstate[i] # "stop"} \cup {j}
        /\ cstate' = [cstate EXCEPT ![j] = "waiting"]
    BY <2>1 DEF ScheduleJob
  <2> HIDE DEF j
  <2>6. next_group_id \notin Groups /\ next_group_id \in Nat /\ next_runner_id \in Nat
        /\ Groups \subseteq 0 .. next_group_id - 1
    BY <1>1 DEF TypeOK
  <2>7. /\ Groups' = Groups \cup {next_group_id}
        /\ \A g \in Groups : runners'[g] = runners[g]
        /\ runners'[next_group_id] = [job |-> j, runner_ids |-> ids, state |-> "waiting", server_knows_it |-> {}]
    BY <2>1, <2>6 DEF Groups
  <2>8. runners' \in [Groups' -> RunnerObjects] /\ Groups' \subseteq 0 .. next_group_id' - 1
    <3>1. runners'[next_group_id] \in RunnerObjects
      BY <2>2, <2>4, <2>7 DEF RunnerObjects
    <3>2. \A g \in Groups : runners'[g] \in RunnerObjects
      BY <1>1, <2>7 DEF TypeOK
    <3>3. Groups' \subseteq 0 .. next_group_id' - 1
      <4>1. next_group_id' - 1 = next_group_id
        BY <2>1, <2>6
      <4>2. \A x \in 0 .. next_group_id - 1 : x \in 0 .. next_group_id
        BY <2>6
      <4>3. next_group_id \in 0 .. next_group_id
        BY <2>6
      <4> QED
        BY <2>6, <2>7, <4>1, <4>2, <4>3
    <3> QED
      BY <2>1, <2>7, <3>1, <3>2, <3>3
  <2>9. KnownJobs' = KnownJobs \cup {j}
    <3>1. AllJobs' = AllJobs \cup {j}
      BY <2>7 DEF AllJobs
    <3> QED
      BY <3>1, <2>1 DEF KnownJobs, ServerJobs
  <2>10. TypeOK'
    <3>1. next_group_id' \in Nat /\ next_runner_id' \in Nat
      BY <2>1, <2>2, <2>6
    <3>2. listed' \subseteq JobIds /\ cstate' \in [JobIds -> {"waiting", "running", "stop"}]
      BY <1>1, <2>4, <2>5 DEF TypeOK
    <3> QED
      BY <1>1, <2>1, <2>4, <2>8, <3>1, <3>2 DEF TypeOK, MainPlaces
  <2>11. OnlyStarted'
    <3>1. \A i \in Started' : task'[i] \in Tasks
      BY <1>1, <2>3, <2>4 DEF Orderly, OnlyStarted
    <3>2. polled' # None => proc'[polled'] = "ended"
      BY <1>1, <2>1, <2>4, <2>5 DEF Orderly, OnlyStarted, TypeOK, Started
    <3> QED
      BY <1>1, <2>1, <2>4, <2>5, <2>9, <3>1, <3>2 DEF Orderly, OnlyStarted
  <2>12. Tracked'
    <3>1. removing["main"] = "no" /\ removing' = removing
      BY <1>1 DEF Orderly, Removals
    <3>2. \A i \in InTable' : cstate'[i] # "stop" /\ i \in listed'
      BY <1>1, <2>4, <2>5, <3>1 DEF TypeOK, Orderly, Tracked, InTable
    <3>3. \A i \in JobIds : proc'[i] = "running" => i \in InTable'
      BY <1>1, <2>4, <2>5 DEF Orderly, Tracked, TypeOK
    <3>4. InTable' \subseteq KnownJobs'
      BY <1>1, <2>4, <2>9 DEF Orderly, Tracked
    <3> QED
      BY <3>1, <3>2, <3>3, <3>4 DEF Tracked
  <2>13. InPlace'
    BY <1>1, <2>1 DEF InPlace
  <2>14. Removals' /\ NodesHeld'
    BY <1>1, <1>3, <2>1, <2>3, HeldWithNewJob DEF Orderly, removal
  <2>15. Described'
    <3>1. \A i \in Started' : task'[i].runner_ids \subseteq 0 .. next_runner_id' - 1
      <4>1. task'[j].runner_ids \subseteq 0 .. next_runner_id' - 1
        <5>1. task'[j].runner_ids = ids
          BY <2>3, <2>4
        <5>2. next_runner_id' - 1 = next_runner_id + size - 1
          BY <2>1, <2>2, <2>6
        <5> QED
          BY <2>2, <5>1, <5>2
      <4>2. \A x \in 0 .. next_runner_id - 1 : x \in 0 .. next_runner_id' - 1
        BY <2>1, <2>2, <2>6
      <4>3. \A i \in Started : task'[i].runner_ids \subseteq 0 .. next_runner_id - 1
        BY <1>1, <2>4 DEF Orderly, Described
      <4> QED
        BY <2>4, <4>1, <4>2, <4>3
    <3>2. \A g \in Groups' : /\ runners'[g].runner_ids = task'[runners'[g].job].runner_ids
                              /\ runners'[g].runner_ids # {}
      <4>1. \A g \in Groups : runners[g].job \in Started
        BY <1>1, LaunchedRunnersAreFinite DEF Orderly
      <4> QED
        BY <1>1, <4>1, <2>2, <2>3, <2>4, <2>7 DEF Orderly, Described
    <3>3. server' # None => task'[server'.job].runner_ids = {}
      <4>1. server.job \in Started
        BY <1>1 DEF Orderly, OnlyStarted, KnownJobs, ServerJobs
      <4> QED
        BY <1>1, <4>1, <2>1, <2>4 DEF Orderly, Described
    <3>4. \A i, k \in Started' : i # k => task'[i].runner_ids \cap task'[k].runner_ids = {}
      <4>1. task'[j].runner_ids = ids /\ \A i \in Started : task'[i].runner_ids \cap ids = {}
        BY <2>2, <2>3, <2>4
      <4>2. \A i, k \in Started : i # k => task'[i].runner_ids \cap task'[k].runner_ids = {}
        BY <1>1, <2>4 DEF Orderly, Described
      <4> QED
        BY <2>4, <4>1, <4>2
    <3> QED
      BY <3>1, <3>2, <3>3, <3>4 DEF Described
  <2>16. NodesCounted'
    <3>1. n = Cardinality(what.runner_ids) * NodesRunner
      BY <2>2, <2>3 DEF n
    <3> QED
      BY <1>1, <1>3, <2>1, <2>2, <2>3, <3>1, CountedWithNewJob DEF Orderly
  <2> QED
    BY <2>1, <2>10, <2>11, <2>12, <2>13, <2>14, <2>15, <2>16 DEF Inv, Orderly, Ended, Up
<1> QED
  BY <1>2, <1>3

(***************************************************************************)
(* Groups gs leave the books and their jobs are to be killed, and no more. *)
(***************************************************************************)
LEMMA GroupsDropped ==
  ASSUME Inv, Up, ~ Busy, pc \notin {"cleanup", "final"}, pc # "server",
         NEW gs \in SUBSET Groups,
         runners' = Without(gs),
         kills' \in Seq(JobIds), {runners[g].job : g \in gs} \subseteq Range(kills'),
         Range(kills') \subseteq AllJobs \cup ServerJobs,
         UNCHANGED <<server, starts, next_group_id, next_runner_id, listed, cstate, jobs, nodes, steps,
                     refreshing, outcome, proc, task, queue>>,
         pc' \in MainPlaces, server_msgs' \in Seq(Messages),
         pc' \in {"cleanup", "final"} => Groups' = {} /\ AllJobs \cup ServerJobs \subseteq Range(kills')
  PROVE  Inv'
<1> USE DEF refreshing, steps
<1>1. TypeOK /\ Orderly /\ server # None
  BY DEF Inv, Orderly, InPlace
<1>2. /\ runners' \in [Groups' -> RunnerObjects]
      /\ Groups' = Groups \ gs
      /\ \A g \in Groups' : runners'[g] = runners[g]
      /\ AllJobs = AllJobs' \cup {runners[g].job : g \in gs}
  <2>1. Groups' = Groups \ gs
    BY <1>1, JobsOfTheRest DEF Groups
  <2>2. runners' \in [Groups' -> RunnerObjects] /\ \A g \in Groups' : runners'[g] = runners[g]
    BY <1>1, <2>1, JobsOfTheRest
  <2>3. AllJobs' = {Without(gs)[g].job : g \in Groups \ gs}
    BY <2>1 DEF AllJobs
  <2> QED
    BY <1>1, <2>1, <2>2, <2>3, JobsOfTheRest
<1>3. Range(kills) = {}
  BY RangeOfSequences DEF Busy
<1>4. KnownJobs' = KnownJobs
  BY <1>1, <1>2, <1>3 DEF KnownJobs, ServerJobs
<1>5. InTable' = InTable /\ Started' = Started
  BY DEF InTable, Started
<1>6. TypeOK'
  BY <1>1, <1>2 DEF TypeOK
<1>7. OnlyStarted'
  BY <1>1, <1>4, <1>5 DEF Orderly, OnlyStarted
<1>8. Tracked'
  <2>1. removing["main"] = "no"
    BY <1>1 DEF Orderly, Removals
  <2> QED
    BY <1>1, <1>4, <1>5, <2>1 DEF Orderly, Tracked
<1>9. InPlace'
  <2>1. InTable \subseteq AllJobs \cup ServerJobs
    BY <1>1, <1>3 DEF Orderly, Tracked, KnownJobs
  <2> QED
    BY <1>1, <1>5, <2>1 DEF InPlace
<1>10. Described'
  BY <1>1, <1>2, <1>5 DEF Orderly, Described
<1>11. Removals' /\ NodesHeld' /\ NodesCounted'
  <2>1. removing["main"] = "no"
    BY <1>1 DEF Orderly, Removals
  <2> QED
    BY <1>1, <1>5, <2>1, TableKept DEF Orderly
<1> QED
  BY <1>1, <1>6, <1>7, <1>8, <1>9, <1>10, <1>11 DEF Inv, Orderly, Ended, Up

(* Groups are killed until there are few enough runners. *)
LEMMA KillSurplusInv ==
  ASSUME Inv, Up, pc = "launch", ~ Busy, pc' = "check",
         UNCHANGED <<todo, removed, server_msgs, steps, refreshing, queue, said, faults>>,
         NEW mr \in Loads, KillSurplus(mr)
  PROVE  Inv'
<1>1. PICK gs \in SUBSET Groups :
        runners' = Without(gs) /\ kills' \in InAnyOrder({runners[g].job : g \in gs})
  BY DEF KillSurplus
<1> DEFINE js == {runners[g].job : g \in gs}
<1>2. TypeOK
  BY DEF Inv
<1>3. js \subseteq JobIds /\ js \subseteq AllJobs
  BY <1>2 DEF TypeOK, AllJobs, RunnerObjects
<1>4. IsFiniteSet(js) /\ Cardinality(js) \in Nat
  <2>1. IsFiniteSet(JobIds)
    BY FS_Interval, LauncherAssumption DEF JobIds
  <2> QED
    BY <1>3, <2>1, FS_Subset, FS_CardinalityType
<1> HIDE DEF js
<1>5. kills' \in [1 .. Cardinality(js) -> js] /\ IsInjective(kills')
  BY <1>1 DEF InAnyOrder, js
<1>6. kills' \in Seq(js)
  BY <1>4, <1>5
<1>7. kills' \in Seq(JobIds)
  BY <1>3, <1>6
<1>8. Range(kills') = js
  <2>1. kills' \in Injection(1 .. Cardinality(js), js)
    BY <1>5 DEF Injection
  <2>2. Cardinality(1 .. Cardinality(js)) = Cardinality(js)
    BY <1>4, FS_Interval
  <2>3. kills' \in Surjection(1 .. Cardinality(js), js)
    BY <2>1, <2>2, <1>4, FS_Injection
  <2> QED
    BY <2>3, <1>5 DEF Surjection, Range
<1>9. UNCHANGED <<server, starts, next_group_id, next_runner_id, listed, cstate, jobs, nodes, steps,
                  refreshing, outcome, proc, task, queue>>
  BY DEF KillSurplus, cluster
<1>10. server_msgs' \in Seq(Messages) /\ pc' \in MainPlaces
  BY <1>2 DEF TypeOK, MainPlaces
<1> QED
  BY <1>1, <1>3, <1>7, <1>8, <1>9, <1>10, GroupsDropped DEF js

(* The main thread launches or kills groups, or waits for the node name of *)
(* the server.                                                             *)
LEMMA LaunchRunnersInv == Inv /\ LaunchRunners => Inv'
<1> SUFFICES ASSUME Inv, LaunchRunners PROVE Inv'
  OBVIOUS
<1>1. /\ Up /\ pc = "launch" /\ ~ Busy /\ pc' = "check"
      /\ UNCHANGED <<todo, removed, server_msgs, steps, refreshing, queue, said, faults>>
  BY DEF LaunchRunners, Main, Up
<1>2. \/ UNCHANGED <<objects, listed, cstate, cluster, kills, outcome, proc, task>>
      \/ \E mr \in Loads : LaunchGroup(mr) \/ KillSurplus(mr)
  BY DEF LaunchRunners
<1>3. CASE UNCHANGED <<objects, listed, cstate, cluster, kills, outcome, proc, task>>
  <2> USE <1>1, <1>3 DEF objects, cluster, steps, refreshing
  <2>1. TypeOK /\ Orderly
    BY DEF Inv
  <2>2. InTable' = InTable /\ Started' = Started /\ KnownJobs' = KnownJobs
    BY DEF InTable, Started, KnownJobs, AllJobs, ServerJobs, Groups
  <2>3. TypeOK'
    BY <2>1 DEF TypeOK, Groups, MainPlaces
  <2>4. OnlyStarted' /\ Tracked' /\ Described'
    BY <2>1, <2>2 DEF Orderly, OnlyStarted, Tracked, Described, Groups, Busy
  <2>5. InPlace'
    BY <2>1 DEF Orderly, InPlace, Groups
  <2>6. Removals' /\ NodesHeld' /\ NodesCounted'
    BY <2>1, <2>2, TableKept DEF Orderly
  <2> QED
    BY <2>3, <2>4, <2>5, <2>6 DEF Inv, Orderly, Ended, Up
<1>4. CASE \E mr \in Loads : LaunchGroup(mr) \/ KillSurplus(mr)
  BY <1>1, <1>4, LaunchGroupInv, KillSurplusInv
<1> QED
  BY <1>2, <1>3, <1>4


-----------------------------------------------------------------------------
(***************************************************************************)
(* The rest of the main loop, and the processes.                           *)
(***************************************************************************)
(* The server is given up with all its runners. *)
LEMMA ServerGoneInv == Inv /\ ServerGone => Inv'
<1> SUFFICES ASSUME Inv, ServerGone PROVE Inv'
  OBVIOUS
<1>1. /\ Up /\ ~ Busy /\ pc = "check" /\ pc' = "cleanup"
      /\ kills' = Everything /\ runners' = Without(Groups)
      /\ UNCHANGED <<server, starts, next_group_id, next_runner_id, listed, cstate, jobs, nodes, server_msgs,
                     steps, refreshing, outcome, proc, task, queue>>
  BY DEF ServerGone, Main, Up, cluster
<1>2. TypeOK /\ server # None
  BY <1>1 DEF Inv, Orderly, InPlace
<1>3. Everything \in Seq(JobIds) /\ Range(Everything) = AllJobs \cup ServerJobs
  BY <1>2, EverythingIsKilled
<1>4. Groups' = {}
  BY <1>1, <1>2, JobsOfTheRest DEF Groups
<1>5. {runners[g].job : g \in Groups} \subseteq Range(kills')
  BY <1>1, <1>3 DEF AllJobs
<1>6. pc' \in MainPlaces /\ server_msgs' \in Seq(Messages)
  BY <1>1, <1>2 DEF MainPlaces, TypeOK
<1> QED
  BY <1>1, <1>3, <1>4, <1>5, <1>6, GroupsDropped

(* Once all jobs of the table have been killed, CleanUp does nothing. *)
LEMMA NothingToCleanUp ==
  ASSUME Inv, Up, ~ Busy, pc \in {"cleanup", "final"}, CleanUp
  PROVE  /\ jobs' = jobs /\ proc' = proc /\ Groups = {} /\ InTable = {}
         /\ \A j \in JobIds : proc[j] # "running"
<1>1. TypeOK /\ Orderly
  BY DEF Inv
<1>2. Groups = {} /\ InTable = {}
  BY <1>1, RangeOfSequences DEF Orderly, InPlace, Busy
<1>3. \A j \in JobIds : jobs[j] = None /\ ~ Killable(j)
  BY <1>2 DEF InTable, Killable
<1>4. jobs' = jobs
  BY <1>1, <1>3 DEF CleanUp, TypeOK
<1>5. proc' = proc
  BY <1>1, <1>3 DEF CleanUp, TypeOK
<1> QED
  BY <1>1, <1>2, <1>4, <1>5 DEF Orderly, Tracked

(* The server's record is dropped once all its jobs are killed. *)
LEMMA DropServerInv == Inv /\ DropServer => Inv'
<1> SUFFICES ASSUME Inv, DropServer PROVE Inv'
  OBVIOUS
<1> USE DEF refreshing, removal, steps
<1>1. /\ Up /\ ~ Busy /\ pc = "cleanup" /\ pc' = "server" /\ CleanUp /\ server' = None
      /\ UNCHANGED <<starts, runners, next_group_id, next_runner_id, listed, cstate, server_msgs,
                     kills, steps, snapshot, polled, outcome, nodes, task, queue>>
  BY DEF DropServer, Main, Up, CleanUp, NoServer
<1>2. /\ jobs' = jobs /\ proc' = proc /\ Groups = {} /\ InTable = {}
      /\ \A j \in JobIds : proc[j] # "running"
  BY <1>1, NothingToCleanUp
<1>3. TypeOK /\ Orderly
  BY <1>1 DEF Inv
<1>4. Groups' = Groups /\ InTable' = InTable /\ Started' = Started
  BY <1>1, <1>2 DEF Groups, InTable, Started
<1>5. TypeOK'
  BY <1>1, <1>2, <1>3, <1>4 DEF TypeOK, MainPlaces
<1>6. KnownJobs' \subseteq KnownJobs
  BY <1>1, <1>4 DEF KnownJobs, AllJobs, ServerJobs
<1>7. OnlyStarted'
  BY <1>1, <1>2, <1>3, <1>4, <1>6 DEF Orderly, OnlyStarted
<1>8. Tracked'
  <2>1. removing["main"] = "no"
    BY <1>1, <1>3 DEF Orderly, Removals
  <2> QED
    BY <1>1, <1>2, <1>3, <1>4, <2>1 DEF Orderly, Tracked, Busy
<1>9. InPlace'
  BY <1>1, <1>2, <1>4 DEF InPlace, Busy
<1>10. Described'
  BY <1>1, <1>2, <1>3, <1>4 DEF Orderly, Described
<1>11. Removals' /\ NodesHeld' /\ NodesCounted'
  BY <1>1, <1>2, <1>3, <1>4, TableKept DEF Orderly
<1> QED
  BY <1>1, <1>2, <1>3, <1>5, <1>7, <1>8, <1>9, <1>10, <1>11 DEF Inv, Orderly, Ended, Up

(* The end of the study: everything has been killed, so nothing runs.     *)
LEMMA EndStudyInv == Inv /\ EndStudy => Inv'
<1> SUFFICES ASSUME Inv, EndStudy PROVE Inv'
  OBVIOUS
<1> USE DEF refreshing, removal, steps, place
<1>1. /\ Up /\ ~ Busy /\ pc = "final" /\ CleanUp /\ server' = None /\ outcome' = "ended"
      /\ UNCHANGED <<starts, runners, next_group_id, next_runner_id, listed, cstate, pc, server_msgs,
                     kills, steps, snapshot, polled, nodes, task, queue>>
  BY DEF EndStudy, Main, Up, CleanUp
<1>2. jobs' = jobs /\ proc' = proc /\ \A j \in JobIds : proc[j] # "running"
  BY <1>1, NothingToCleanUp
<1>3. Groups' = Groups
  BY <1>1 DEF Groups
<1>4. TypeOK'
  BY <1>1, <1>2, <1>3 DEF Inv, TypeOK
<1> QED
  BY <1>1, <1>2, <1>4 DEF Inv, Ended, Up

(* The server is alive. *)
LEMMA ServerUpInv == Inv /\ ServerUp => Inv'
<1> SUFFICES ASSUME Inv, ServerUp PROVE Inv'
  OBVIOUS
<1>1. /\ Up /\ pc = "check" /\ pc' = "runners"
      /\ UNCHANGED <<objects, listed, cstate, cluster, server_msgs, removal, refreshing, outcome, world>>
  BY DEF ServerUp, Main, Up
<1>2. TypeOK /\ server # None
  BY <1>1 DEF Inv, Orderly, InPlace
<1>3. pc' \in MainPlaces /\ pc' \notin {"cleanup", "final"}
  BY <1>1 DEF MainPlaces
<1> QED
  BY <1>1, <1>2, <1>3, BooksKept DEF objects, cluster, world, TypeOK, InTable, refreshing

(* One group leaves the books, and its job is to be killed. *)
LEMMA RemoveGroupInv ==
  ASSUME Inv, Up, ~ Busy, pc \in {"runners", "messages"}, pc' = pc,
         NEW g \in Groups, RemoveGroup(g),
         UNCHANGED <<server, starts, next_group_id, next_runner_id, listed, cstate, jobs, nodes, steps,
                     refreshing, outcome, proc, task, queue>>,
         server_msgs' \in Seq(Messages)
  PROVE  Inv'
<1>1. TypeOK
  BY DEF Inv
<1>2. runners[g].job \in JobIds /\ runners[g].job \in AllJobs
  BY <1>1 DEF TypeOK, RunnerObjects, AllJobs
<1>3. runners' = Without({g}) /\ kills' = <<runners[g].job>>
  BY DEF RemoveGroup
<1>4. kills' \in Seq(JobIds) /\ Range(kills') = {runners[g].job}
  BY <1>2, <1>3, RangeOfSequences
<1>5. {runners[h].job : h \in {g}} \subseteq Range(kills')
  BY <1>4
<1>6. pc' \in MainPlaces /\ pc \notin {"cleanup", "final", "server"}
  BY DEF MainPlaces
<1> QED
  BY <1>2, <1>3, <1>4, <1>5, <1>6, GroupsDropped

(* The loop over the launched runners. *)
LEMMA LookAtRunnerInv == Inv /\ LookAtRunner => Inv'
<1> SUFFICES ASSUME Inv, LookAtRunner PROVE Inv'
  OBVIOUS
<1>1. /\ Up /\ ~ Busy /\ pc = "runners" /\ pc' = pc
      /\ UNCHANGED <<server, starts, next_group_id, next_runner_id, listed, cstate, jobs, nodes, server_msgs,
                     steps, refreshing, outcome, proc, task, queue>>
  BY DEF LookAtRunner, Main, Up, cluster
<1>2. TypeOK /\ server # None
  BY <1>1 DEF Inv, Orderly, InPlace
<1>3. PICK r \in First(1, todo) : SkipRunner(r) \/ KeepRunner(r) \/ RunnerGone(r) \/ RunnerLate(r)
  BY DEF LookAtRunner
<1> DEFINE g == runner_group_of(r)
<1>4. CASE SkipRunner(r)
  <2>1. runners' = runners /\ kills' = kills
    BY <1>4 DEF SkipRunner
  <2> QED
    BY <1>1, <1>2, <2>1, BooksKept DEF TypeOK, InTable, removal, refreshing
<1>5. CASE KeepRunner(r)
  <2>1. runners' = [runners EXCEPT ![g].state = Seen(g)] /\ kills' = kills /\ g \in Groups
    BY <1>5, GroupOfRunner DEF KeepRunner
  <2>2. Seen(g) \in {"waiting", "running"}
    BY <1>2, <2>1 DEF Seen, TypeOK, RunnerObjects
  <2>3. runners' \in [Groups -> RunnerObjects]
    <3>1. runners \in [Groups -> RunnerObjects] /\ runners[g] \in RunnerObjects
      BY <1>2, <2>1 DEF TypeOK
    <3>2. [runners[g] EXCEPT !.state = Seen(g)] \in RunnerObjects
      BY <2>2, <3>1 DEF RunnerObjects
    <3> QED
      BY <2>1, <3>1, <3>2
  <2>4. \A h \in Groups : runners'[h].job = runners[h].job /\ runners'[h].runner_ids = runners[h].runner_ids
    BY <1>2, <2>1 DEF TypeOK, RunnerObjects
  <2> QED
    BY <1>1, <1>2, <2>1, <2>3, <2>4, BooksKept DEF TypeOK, InTable, removal, refreshing
<1>6. CASE RunnerGone(r) \/ RunnerLate(r)
  <2>1. g \in Groups /\ RemoveGroup(g)
    BY <1>6, GroupOfRunner DEF RunnerGone, RunnerLate
  <2> QED
    BY <1>1, <1>2, <2>1, RemoveGroupInv DEF TypeOK
<1> QED
  BY <1>3, <1>4, <1>5, <1>6

(* The state of a job that was removed as late is read once more. *)
LEMMA LookAgainInv == Inv /\ LookAgain => Inv'
<1> SUFFICES ASSUME Inv, LookAgain PROVE Inv'
  OBVIOUS
<1>1. CASE Raises("main", "KeyError")
  BY <1>1, RaisesInv DEF LookAgain, Main, Up, Threads
<1>2. CASE UNCHANGED <<objects, listed, cstate, cluster, pc, todo, server_msgs, removal, refreshing, outcome, world>>
  BY <1>2, BooksKept DEF Inv, objects, cluster, world, TypeOK, InTable, refreshing
<1> QED
  BY <1>1, <1>2 DEF LookAgain

(* All queued messages are read. *)
LEMMA get_server_messagesInv == Inv /\ get_server_messages => Inv'
<1> SUFFICES ASSUME Inv, get_server_messages PROVE Inv'
  OBVIOUS
<1>1. /\ Up /\ pc = "runners" /\ pc' = "messages" /\ server_msgs' = queue /\ queue' = <<>>
      /\ UNCHANGED <<objects, listed, cstate, cluster, removal, refreshing, outcome, proc, task>>
  BY DEF get_server_messages, Main, Up
<1>2. TypeOK /\ server # None
  BY <1>1 DEF Inv, Orderly, InPlace
<1>3. pc' \in MainPlaces /\ pc' \notin {"cleanup", "final"} /\ queue' \in Seq(Messages)
  BY <1>1 DEF MainPlaces
<1> QED
  BY <1>1, <1>2, <1>3, BooksKept DEF objects, cluster, TypeOK, InTable, refreshing

(* The loop starts again. *)
LEMMA NextIterationInv == Inv /\ NextIteration => Inv'
<1> SUFFICES ASSUME Inv, NextIteration PROVE Inv'
  OBVIOUS
<1>1. /\ pc' = "server"
      /\ UNCHANGED <<objects, listed, cstate, cluster, server_msgs, removal, refreshing, outcome, world>>
  BY DEF NextIteration
<1>2. TypeOK
  BY DEF Inv
<1>3. pc' \in MainPlaces /\ pc' \notin {"cleanup", "final"}
  BY <1>1 DEF MainPlaces
<1> QED
  BY <1>1, <1>2, <1>3, BooksKept DEF objects, cluster, world, TypeOK, InTable, refreshing

(* Messages of the server are handled one by one, STOP last. *)
LEMMA HandleMessageInv == Inv /\ HandleMessage => Inv'
<1> SUFFICES ASSUME Inv, HandleMessage PROVE Inv'
  OBVIOUS
<1> DEFINE m == Head(server_msgs)
           g == runner_group_of(m.runner_id)
<1>1. /\ Up /\ ~ Busy /\ pc = "messages" /\ server_msgs # <<>>
      /\ UNCHANGED <<starts, next_group_id, next_runner_id, listed, cstate, nodes, steps, refreshing, outcome,
                     proc, task, queue>>
  BY DEF HandleMessage, Main, Up, world
<1>2. TypeOK /\ server # None /\ server \in ServerObjects
  BY <1>1 DEF Inv, Orderly, InPlace, TypeOK
<1>3. m \in Messages /\ Tail(server_msgs) \in Seq(Messages)
  BY <1>1, <1>2 DEF TypeOK
<1>4. pc \in MainPlaces /\ pc \notin {"cleanup", "final", "server"}
  BY <1>1 DEF MainPlaces
<1>5. CASE m.type = "STOP"
  <2>1. Concerns(m)
    BY <1>5 DEF Concerns
  <2>2. runners' = Without(Groups) /\ kills' = Everything /\ UNCHANGED <<server, jobs>>
        /\ pc' = "final" /\ server_msgs' = <<>>
    BY <1>5, <2>1 DEF HandleMessage
  <2>3. Everything \in Seq(JobIds) /\ Range(Everything) = AllJobs \cup ServerJobs
    BY <1>2, EverythingIsKilled
  <2>4. Groups' = {}
    BY <2>2, <1>2, JobsOfTheRest DEF Groups
  <2>5. {runners[h].job : h \in Groups} \subseteq Range(kills')
    BY <2>2, <2>3 DEF AllJobs
  <2>6. pc' \in MainPlaces /\ server_msgs' \in Seq(Messages)
    BY <2>2 DEF MainPlaces
  <2> QED
    BY <1>1, <1>4, <2>2, <2>3, <2>4, <2>5, <2>6, GroupsDropped
<1>6. CASE m.type # "STOP"
  <2>1. server_msgs' = Tail(server_msgs) /\ pc' = pc
    BY <1>6 DEF HandleMessage
  <2>2. CASE ~ Concerns(m)
    <3>1. UNCHANGED <<server, runners, jobs, kills>>
      BY <2>2 DEF HandleMessage, Concerns
    <3> QED
      BY <1>1, <1>2, <1>3, <1>4, <2>1, <3>1, BooksKept DEF TypeOK, InTable, removal, refreshing
  <2>3. CASE m.type = "SERVER_NODE_NAME"
    <3>1. server' = [server EXCEPT !.node_name = m.node_name] /\ UNCHANGED <<runners, jobs, kills>>
      BY <2>3 DEF HandleMessage, Concerns
    <3>2. server' \in ServerObjects /\ server'.job = server.job
      BY <1>2, <1>3, <3>1 DEF ServerObjects, Messages
    <3>3. server' # None
      BY <3>2, LauncherAssumption
    <3> QED
      BY <1>1, <1>2, <1>3, <1>4, <2>1, <3>1, <3>2, <3>3, BooksKept DEF TypeOK, InTable, removal, refreshing
  <2>4. CASE m.type = "TIMEOUT" /\ Concerns(m)
    <3>1. RemoveGroup(g) /\ UNCHANGED <<server, jobs>>
      BY <2>4 DEF HandleMessage, Concerns
    <3>2. g \in Groups
      BY <2>4, GroupOfRunner DEF Concerns
    <3> QED
      BY <1>1, <1>3, <2>1, <3>1, <3>2, RemoveGroupInv
  <2>5. CASE m.type = "REGISTERED" /\ Concerns(m)
    <3>1. /\ runners' = [runners EXCEPT ![g].server_knows_it = @ \cup {m.runner_id}]
          /\ jobs' = UpdateJob(jobs, runners[g].job)
          /\ UNCHANGED <<server, kills>>
      BY <2>5 DEF HandleMessage, Concerns
    <3>2. g \in Groups /\ m.runner_id \in runners[g].runner_ids
      BY <2>5, GroupOfRunner DEF Concerns
    <3>3. runners[g] \in RunnerObjects
      BY <1>2, <3>2 DEF TypeOK
    <3>4. m.runner_id \in Nat /\ runners[g].job \in JobIds
      BY <3>2, <3>3 DEF RunnerObjects
    <3>5. runners' \in [Groups -> RunnerObjects]
      BY <1>2, <3>1, <3>2, <3>3, <3>4 DEF TypeOK, RunnerObjects
    <3>6. \A h \in Groups : runners'[h].job = runners[h].job /\ runners'[h].runner_ids = runners[h].runner_ids
      BY <1>2, <3>1, <3>2 DEF TypeOK, RunnerObjects
    <3>7. /\ jobs' \in [JobIds -> Entries \cup {None}] /\ InTable' = InTable
          /\ \A i \in InTable :
               jobs'[i].vcoords = jobs[i].vcoords /\ jobs'[i].vcoordfile = jobs[i].vcoordfile
      BY <1>2, <3>1, <3>4, UpdatedTable
    <3> QED
      BY <1>1, <1>2, <1>3, <1>4, <2>1, <3>1, <3>5, <3>6, <3>7, BooksKept DEF TypeOK, removal, refreshing
  <2> QED
    BY <1>3, <1>6, <2>2, <2>3, <2>4, <2>5 DEF Messages
<1> QED
  BY <1>5, <1>6

-----------------------------------------------------------------------------
(* All actions of the main thread, of the refresher and of the processes.  *)
LEMMA MainThreadInv == Inv /\ MainThread => Inv'
BY StartServerInv, SeeServerInv, LaunchRunnersInv, ServerGoneInv, DropServerInv, ServerUpInv,
   LookAtRunnerInv, LookAgainInv, get_server_messagesInv, HandleMessageInv, NextIterationInv,
   EndStudyInv, removeInv, KillProcessInv, RemoveJobInv
   DEF MainThread, KillJob, Threads

LEMMA RefresherInv == Inv /\ refresh_states => Inv'
BY StartRoundInv, SnapshotInv, CheckJobStateInv, RemoveJobInv DEF refresh_states, Threads

(* A message of a server is queued, and nothing else changes. *)
LEMMA SayInv ==
  ASSUME Inv, NEW m \in Messages, Say(m), UNCHANGED <<others, proc>>
  PROVE  Inv'
<1>1. TypeOK
  BY DEF Inv
<1>2. queue' \in Seq(Messages)
  BY <1>1 DEF Say, TypeOK
<1> QED
  BY <1>1, <1>2, BooksKept DEF others, objects, cluster, place, TypeOK, InTable, refreshing

(* A process ends or crashes; the launcher has yet to find out. *)
LEMMA EndProcessInv ==
  ASSUME NEW j \in JobIds
  PROVE  Inv /\ EndProcess(j) => Inv'
<1> SUFFICES ASSUME Inv, EndProcess(j) PROVE Inv'
  OBVIOUS
<1> USE DEF others, objects, cluster, place, removal, steps, refreshing
<1>1. /\ proc[j] = "running" /\ proc' = [proc EXCEPT ![j] = "ended"]
      /\ UNCHANGED <<others, queue>>
  BY DEF EndProcess
<1>2. TypeOK
  BY DEF Inv
<1>3. /\ \A i \in JobIds : proc'[i] = "running" => proc[i] = "running"
      /\ \A i \in JobIds : proc[i] = "ended" => proc'[i] = "ended"
      /\ \A i \in JobIds : proc'[i] # "none" <=> proc[i] # "none"
      /\ proc' \in [JobIds -> {"none", "running", "ended"}]
  BY <1>1, <1>2 DEF TypeOK
<1>4. Started' = Started /\ InTable' = InTable /\ Groups' = Groups
  BY <1>1, <1>3 DEF Started, InTable, Groups
<1>5. TypeOK'
  BY <1>1, <1>2, <1>3, <1>4 DEF TypeOK
<1>6. Ended'
  BY <1>1, <1>3 DEF Inv, Ended
<1>7. ASSUME Up PROVE Orderly'
  <2>1. Orderly
    BY <1>7 DEF Inv
  <2>2. KnownJobs' = KnownJobs
    BY <1>1, <1>4 DEF KnownJobs, AllJobs, ServerJobs
  <2>3. OnlyStarted'
    BY <1>1, <1>2, <1>3, <1>4, <2>1, <2>2 DEF Orderly, OnlyStarted, TypeOK
  <2>4. Tracked'
    BY <1>1, <1>3, <1>4, <2>1, <2>2 DEF Orderly, Tracked
  <2>5. InPlace' /\ Described'
    BY <1>1, <1>4, <2>1 DEF Orderly, InPlace, Described, Busy
  <2>6. Removals' /\ NodesHeld' /\ NodesCounted'
    BY <1>1, <1>3, <1>4, <2>1, TableKept DEF Orderly
  <2> QED
    BY <2>3, <2>4, <2>5, <2>6 DEF Orderly
<1> QED
  BY <1>1, <1>5, <1>6, <1>7 DEF Inv, Up

(* All steps of servers and runners. *)
LEMMA ProcessesInv == Inv /\ Processes => Inv'
<1> SUFFICES ASSUME Inv, Processes PROVE Inv'
  OBVIOUS
<1>1. ASSUME NEW j \in JobIds, EndProcess(j) PROVE Inv'
  BY <1>1, EndProcessInv
<1>2. RunnerIds \subseteq Nat
  BY DEF Inv, TypeOK, RunnerIds, Tasks
<1>3. ASSUME NEW s \in JobIds, AnnounceServer(s) \/ StopStudy(s) PROVE Inv'
  <2>1. PICK m \in Messages : Say(m) /\ UNCHANGED <<others, proc>>
    BY <1>3 DEF AnnounceServer, StopStudy, Message, Messages
  <2> QED
    BY <2>1, SayInv
<1>4. ASSUME NEW s \in JobIds, NEW r \in RunnerIds, NotifyRunner(s, r) \/ ReportTimeout(s, r) PROVE Inv'
  <2>1. PICK m \in Messages : Say(m) /\ UNCHANGED <<others, proc>>
    BY <1>2, <1>4 DEF NotifyRunner, ReportTimeout, Message, Messages
  <2> QED
    BY <2>1, SayInv
<1> QED
  BY <1>1, <1>3, <1>4 DEF Processes

(* Nothing happens. *)
LEMMA StutterInv == Inv /\ UNCHANGED vars => Inv'
<1> SUFFICES ASSUME Inv, UNCHANGED vars PROVE Inv'
  OBVIOUS
<1> QED
  BY BooksKept DEF vars, Inv, objects, cluster, place, world, TypeOK, InTable, refreshing

-----------------------------------------------------------------------------
(***************************************************************************)
(* The results.                                                            *)
(***************************************************************************)
LEMMA NextInv == Inv /\ [Next]_vars => Inv'
BY MainThreadInv, RefresherInv, ProcessesInv, StutterInv DEF Next

(* Both threads, all jobs and all messages keep the invariant.             *)
THEOREM InvHolds == Spec => []Inv
<1>1. Init => Inv
  BY InitInv
<1> QED
  BY <1>1, NextInv, PTL DEF Spec

(* The launcher never loses a process: as long as it works, what runs is   *)
(* the server or a group it has on its books, or is about to be killed,    *)
(* whatever the refresher removes in between, and nothing outlives a study *)
(* that has ended.                                                         *)
THEOREM NoOrphansHolds == Spec => []NoOrphans
<1>1. Inv => NoOrphans
  <2> SUFFICES ASSUME Inv, NEW j \in JobIds, proc[j] = "running"
               PROVE  outcome # "ended" /\ (Up => j \in AllJobs \cup ServerJobs \cup Range(kills))
    BY DEF NoOrphans
  <2>1. outcome # "ended"
    BY DEF Inv, Ended
  <2>2. ASSUME Up PROVE j \in KnownJobs
    BY <2>2 DEF Inv, Orderly, Tracked
  <2> QED
    BY <2>1, <2>2 DEF KnownJobs
<1> QED
  BY <1>1, InvHolds, PTL

-----------------------------------------------------------------------------
(***************************************************************************)
(* Enough nodes are left whenever a job is scheduled.                      *)
(***************************************************************************)
LEMMA MoreTakeMore ==
  ASSUME NEW a \in Nat, NEW b \in Nat, NEW k \in Nat, a <= b
  PROVE  a * k <= b * k
<1>1. PICK c \in Nat : b = a + c
  <2>1. b - a \in Nat /\ b = a + (b - a)
    OBVIOUS
  <2> QED
    BY <2>1
<1>2. b * k = a * k + c * k
  BY <1>1, Distributes
<1>3. a * k \in Nat /\ c * k \in Nat
  OBVIOUS
<1> QED
  BY <1>2, <1>3

(* When the main thread kills nothing, the table holds only its server and *)
(* the runners it has launched.                                            *)
LEMMA NodesInUse ==
  ASSUME Inv, Up, ~ Busy, Cluster = "Fugaku"
  PROVE  /\ server = None => Cardinality(FreeNodes) = NbNodes
         /\ Cardinality(FreeNodes) >= NbNodes - (NodesServer + Cardinality(launched_runners) * NodesRunner)
<1>1. TypeOK /\ Orderly
  BY DEF Inv
<1>2. InTable \subseteq AllJobs \cup ServerJobs
  BY <1>1, RangeOfSequences DEF Orderly, Tracked, KnownJobs, Busy
<1>3. Cardinality(FreeNodes) = NbNodes - Cardinality(UsedNodes) /\ NbNodes \in Nat
      /\ NodesServer \in Nat /\ NodesRunner \in Nat
  BY FreeNodesAreFinite, LauncherAssumption
<1>4. /\ Cardinality(UsedNodes) <= Cardinality(NodesUsedBy(InTable)) /\ Cardinality(UsedNodes) \in Nat
      /\ Cardinality(NodesUsedBy(InTable)) \in Nat
      /\ Cardinality(NodesUsedBy(InTable)) <=
           Cardinality(ServersOf(InTable)) * NodesServer + Cardinality(RunnersOf(InTable)) * NodesRunner
  <2>1. UsedNodes \subseteq NodesUsedBy(InTable)
    BY <1>1 DEF Orderly, NodesHeld, Has, UsedNodes, NodesUsedBy, InTable
  <2>2. IsFiniteSet(NodesUsedBy(InTable)) /\ Cardinality(NodesUsedBy(InTable)) \in Nat
    BY <1>1, TableIsFinite DEF Orderly
  <2>3. Cardinality(UsedNodes) <= Cardinality(NodesUsedBy(InTable)) /\ Cardinality(UsedNodes) \in Nat
    BY <2>1, <2>2, FS_Subset, FS_CardinalityType
  <2> QED
    BY <1>1, <2>2, <2>3 DEF Orderly, NodesCounted
<1>5. ASSUME server = None PROVE Cardinality(FreeNodes) = NbNodes
  <2>1. InTable = {}
    BY <1>1, <1>2, <1>5 DEF Orderly, InPlace, AllJobs, ServerJobs
  <2>2. UsedNodes = {}
    BY <1>1, <2>1 DEF Orderly, NodesHeld, Has, UsedNodes, InTable
  <2>3. Cardinality(UsedNodes) = 0
    BY <2>2, FS_EmptySet
  <2> QED
    BY <1>3, <2>3
<1>6. Cardinality(ServersOf(InTable)) \in Nat /\ Cardinality(ServersOf(InTable)) <= 1
  <2>1. ServersOf(InTable) \subseteq ServerJobs
    BY <1>1, <1>2 DEF ServersOf, AllJobs, Orderly, Described
  <2>2. IsFiniteSet(ServerJobs) /\ Cardinality(ServerJobs) <= 1
    <3>1. CASE server = None
      <4>1. ServerJobs = {}
        BY <3>1 DEF ServerJobs
      <4> QED
        BY <4>1, FS_EmptySet
    <3>2. CASE server # None
      <4>1. ServerJobs = {server.job}
        BY <3>2 DEF ServerJobs
      <4>2. IsFiniteSet({server.job}) /\ Cardinality({server.job}) = 1
        BY FS_Singleton
      <4> QED
        BY <4>1, <4>2
    <3> QED
      BY <3>1, <3>2
  <2>3. Cardinality(ServersOf(InTable)) <= Cardinality(ServerJobs) /\ IsFiniteSet(ServersOf(InTable))
    BY <2>1, <2>2, FS_Subset
  <2> QED
    BY <2>2, <2>3, FS_CardinalityType
<1>7. /\ Cardinality(RunnersOf(InTable)) \in Nat /\ Cardinality(launched_runners) \in Nat
      /\ Cardinality(RunnersOf(InTable)) <= Cardinality(launched_runners)
  <2>1. ASSUME NEW j \in InTable PROVE task[j].runner_ids \subseteq launched_runners
    <3>1. CASE j \in AllJobs
      BY <1>1, <3>1 DEF AllJobs, launched_runners, Orderly, Described
    <3>2. CASE j \in ServerJobs
      <4>1. server # None /\ j = server.job
        BY <3>2 DEF ServerJobs
      <4> QED
        BY <1>1, <4>1 DEF Orderly, Described
    <3> QED
      BY <1>2, <3>1, <3>2
  <2>2. RunnersOf(InTable) \subseteq launched_runners
    BY <2>1 DEF RunnersOf
  <2>3. IsFiniteSet(launched_runners) /\ Cardinality(launched_runners) \in Nat
    BY <1>1, LaunchedRunnersAreFinite DEF Orderly
  <2> QED
    BY <2>2, <2>3, FS_Subset, FS_CardinalityType
<1>8. Cardinality(ServersOf(InTable)) * NodesServer <= NodesServer
  <2>1. Cardinality(ServersOf(InTable)) * NodesServer <= 1 * NodesServer
    BY <1>3, <1>6, MoreTakeMore
  <2> QED
    BY <1>3, <2>1
<1>9. Cardinality(RunnersOf(InTable)) * NodesRunner <= Cardinality(launched_runners) * NodesRunner
  BY <1>3, <1>7, MoreTakeMore
<1>10. /\ Cardinality(ServersOf(InTable)) * NodesServer \in Nat
       /\ Cardinality(RunnersOf(InTable)) * NodesRunner \in Nat
       /\ Cardinality(launched_runners) * NodesRunner \in Nat
  BY <1>3, <1>6, <1>7
<1> QED
  BY <1>3, <1>4, <1>5, <1>8, <1>9, <1>10

(* The server finds its nodes. *)
LEMMA ServerFits == Inv /\ EnoughNodes /\ Up /\ ~ Busy /\ server = None => CanSchedule(NodesServer)
<1> SUFFICES ASSUME Inv, EnoughNodes, Up, ~ Busy, server = None PROVE CanSchedule(NodesServer)
  OBVIOUS
<1>1. CASE Cluster = "Local"
  BY <1>1 DEF CanSchedule, EnoughNodes
<1>2. CASE Cluster = "Fugaku"
  BY <1>2, NodesInUse DEF CanSchedule, EnoughNodes
<1> QED
  BY <1>1, <1>2, LauncherAssumption

(* So does the next group of runners. *)
LEMMA GroupFits ==
  ASSUME Inv, EnoughNodes, Up, ~ Busy, NEW mr \in Loads, Cardinality(launched_runners) < mr
  PROVE  CanSchedule(GroupSizeFor(mr) * NodesRunner)
<1> DEFINE size == GroupSizeFor(mr)
           active == Cardinality(launched_runners)
<1>1. /\ size \in Nat \ {0} /\ size <= GroupSize /\ active + size <= mr
      /\ active \in Nat /\ mr \in Nat /\ NbNodes \in Nat
      /\ NodesServer \in Nat /\ NodesRunner \in Nat
  BY SizeOfGroup, LaunchedRunnersAreFinite, LauncherAssumption DEF Inv, Orderly
<1>2. CASE Cluster = "Local"
  <2>1. size = 1 /\ NodesRunner = 1
    BY <1>1, <1>2 DEF EnoughNodes
  <2> QED
    BY <1>2, <2>1 DEF CanSchedule
<1>3. CASE Cluster = "Fugaku"
  <2>1. Cardinality(FreeNodes) >= NbNodes - (NodesServer + active * NodesRunner)
    BY <1>3, NodesInUse
  <2>2. NodesServer + mr * NodesRunner <= NbNodes
    BY <1>3 DEF EnoughNodes
  <2>3. Cardinality(FreeNodes) \in Int
    BY FreeNodesAreFinite, FS_CardinalityType
  <2> HIDE DEF size, active
  <2>4. (active + size) * NodesRunner = active * NodesRunner + size * NodesRunner
    BY <1>1, Distributes
  <2>5. (active + size) * NodesRunner <= mr * NodesRunner
    BY <1>1, MoreTakeMore
  <2>6. active * NodesRunner \in Nat /\ size * NodesRunner \in Nat /\ mr * NodesRunner \in Nat
    BY <1>1
  <2>7. size * NodesRunner <= Cardinality(FreeNodes)
    BY <1>1, <2>1, <2>2, <2>3, <2>4, <2>5, <2>6
  <2> QED
    BY <1>3, <2>7 DEF CanSchedule, size
<1> QED
  BY <1>2, <1>3, LauncherAssumption

(* No step of either thread fails for want of nodes. *)
LEMMA NodesSuffice ==
  ASSUME Inv, EnoughNodes, outcome # "no nodes", [Next]_vars
  PROVE  outcome' # "no nodes"
<1>1. CASE StartServer
  <2>1. CanSchedule(NodesServer)
    BY <1>1, ServerFits DEF StartServer, Main, Up
  <2> QED
    BY <1>1, <2>1 DEF StartServer
<1>2. CASE LaunchRunners
  <2>1. Up /\ ~ Busy
    BY <1>2 DEF LaunchRunners, Main, Up
  <2>2. ASSUME NEW mr \in Loads, LaunchGroup(mr) PROVE outcome' # "no nodes"
    <3>1. Cardinality(launched_runners) < mr
      BY <2>2 DEF LaunchGroup
    <3>2. CanSchedule(GroupSizeFor(mr) * NodesRunner)
      BY <2>1, <3>1, GroupFits
    <3> QED
      BY <2>2, <3>2 DEF LaunchGroup, GroupSizeFor
  <2> QED
    BY <1>2, <2>2 DEF LaunchRunners, KillSurplus
<1>3. ASSUME NEW t \in Threads, NEW what, what # "no nodes", Raises(t, what) PROVE outcome' # "no nodes"
  BY <1>3 DEF Raises
<1>4. ASSUME NEW t \in Threads, RemoveJob(t) PROVE outcome' # "no nodes"
  BY <1>3, <1>4 DEF RemoveJob, FindNodes, FreeNode, RemoveVcoordFile, DeleteJob, CannotRemove, Deletes
<1>5. CASE LookAgain \/ KillProcess
  BY <1>3, <1>5 DEF LookAgain, KillProcess, Threads
<1>6. CASE EndStudy
  BY <1>6 DEF EndStudy
<1>7. CASE \/ SeeServer \/ ServerGone \/ DropServer \/ ServerUp \/ LookAtRunner
           \/ get_server_messages \/ HandleMessage \/ NextIteration \/ remove
  BY <1>7 DEF SeeServer, ServerGone, DropServer, ServerUp, LookAtRunner, get_server_messages, HandleMessage,
              NextIteration, remove
<1>8. CASE refresh_states
  BY <1>4, <1>8 DEF refresh_states, StartRound, Snapshot, CheckJobState, Threads
<1>9. CASE Processes
  BY <1>9 DEF Processes, AnnounceServer, StopStudy, NotifyRunner, ReportTimeout, EndProcess, others
<1>10. CASE UNCHANGED vars
  BY <1>10 DEF vars
<1> QED
  BY <1>1, <1>2, <1>4, <1>5, <1>6, <1>7, <1>8, <1>9, <1>10 DEF Next, MainThread, KillJob, Threads

(* Who holds a node. *)
LEMMA HoldersOfNode ==
  ASSUME Inv, Up, NEW n \in Nodes
  PROVE  LET holders == {j \in JobIds : Has(j, n)} IN
         /\ nodes[n] # "free" => holders # {}
         /\ ~ RemovedTwice => Cardinality(holders) = (IF nodes[n] = "free" THEN 0 ELSE 1)
<1> DEFINE holders == {j \in JobIds : Has(j, n)}
<1>1. NodesHeld
  BY DEF Inv, Orderly
<1>2. nodes[n] # "free" => holders # {}
  BY <1>1 DEF NodesHeld
<1>3. ASSUME ~ RemovedTwice PROVE Cardinality(holders) = (IF nodes[n] = "free" THEN 0 ELSE 1)
  <2>1. CASE nodes[n] = "free"
    <3>1. holders = {}
      BY <1>1, <1>3, <2>1 DEF NodesHeld
    <3> QED
      BY <2>1, <3>1, FS_EmptySet
  <2>2. CASE nodes[n] # "free"
    <3>1. PICK j \in holders : TRUE
      BY <1>2, <2>2
    <3>2. holders = {j}
      BY <1>1, <1>3, <3>1 DEF NodesHeld
    <3> QED
      BY <2>2, <3>2, FS_Singleton
  <2> QED
    BY <2>1, <2>2
<1> QED
  BY <1>2, <1>3

(* If the allocation has room for the server and as many runners as        *)
(* max_runners() ever asks for, no launch finds too few nodes: not after   *)
(* any restart, with any group size, in any order of the steps in which    *)
(* the two threads remove jobs.  A node in use is some job's, and it is    *)
(* one job's alone unless both threads have removed the same job; running  *)
(* processes are in the table.                                             *)
THEOREM NodesAgreeHolds ==
  ASSUME EnoughNodes
  PROVE  Spec => []NodesAgree
<1> DEFINE Fits == outcome # "no nodes"
<1>1. Init => Fits
  BY DEF Init
<1>2. Inv /\ Fits /\ [Next]_vars => Fits'
  BY NodesSuffice
<1>3. Inv /\ Fits => NodesAgree
  BY HoldersOfNode DEF NodesAgree, Inv, Orderly, Tracked, InTable
<1> HIDE DEF Fits
<1>4. Spec => []Fits
  BY <1>1, <1>2, InvHolds, PTL DEF Spec
<1> QED
  BY <1>3, <1>4, InvHolds, PTL
=============================================================================
