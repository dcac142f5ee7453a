# A verification project for Melissa-DA

Melissa-DA runs ensemble data assimilation on a cluster: a *launcher* starts a
*server* and *runners*, the runners propagate ensemble members with a
simulation code, and the server combines their results.  The repository holds
two such systems.  The *P2P* one is a particle filter in which the states stay
in files on the runners and only weights and jobs travel; the *classic* one
sends every state to a parallel server and back (n-to-m).  This project models
both, and the launcher that both share.

## Inventory

| Component | Source | State | Operations | Module |
|---|---|---|---|---|
| P2P weight server | `server-p2p/server.py` | `alpha`, `stealable_jobs`, `scheduled_jobs`, `runners_last`, `DueDates`, `faulty_runners`, `state_weights`, `StateCache`, checkpoint files | weight, delete, prefetch and job requests; update step; expiry of due dates; restart | `WeightServer` |
| P2P application | `api/p2p/app_core.cxx` | current state and job | expose: store, weigh, post to the head rank, ask for a job, load its parent | `RunnerStorage` |
| P2P runner head | `api/p2p/StorageController/*` | local and global checkpoints, `state_pool`, `m_cached_states`, `m_state_pull_requests`, `del_q` | post, load, pull, removal of old global states | `RunnerStorage` |
| Classic server | `server/server.cxx` | tasks per rank in four lists, idle and killed runners, task ids, finished ranks | register, schedule, receive, kill and reschedule, agree, update | `MelissaServer` |
| Classic runner API | `api/melissa_da_api.cxx`, `api_common.cxx` | connections to server ranks, current member and step | register, send and receive parts, end | `MelissaServer`, `FieldParts` |
| n-to-m partition | `common/Part.cxx`, `server/Field.cxx`, `EnsembleMember.cxx` | parts, hidden parts, index map | cut a field, look up and copy parts | `FieldParts` |
| Fault tolerance | `server/FTmodule.cxx`, `FTthreadManager.cxx` | open checkpoint, queue and threads | store a part, flush, finalize, recover | `Checkpoint` |
| Launcher | `launcher/melissa_da_study.py`, `utils.py` | server, groups of runners, states of their jobs | start, restart, kill, react to the server's messages, end | `Launcher` |
| Cluster back ends | `launcher/cluster/fugaku.py`, `local_cluster.py` | job table, nodes | schedule, poll, kill, clean up | `Launcher` |
| Assimilators | `server/*Assimilator.cxx` | numerics | `on_init_state`, `do_update_step` | parts of `MelissaServer`, `FieldParts` |
| Launcher messages | `common/melissa_messages.c`, `melissa_comm4py.c` | none | four messages of the server | in `Launcher` |
| Peer controller, Slurm, timing | | | disabled; batch system; logs | none |

How the parts interact:

- *P2P.* A runner has an application and a head rank, which exchange MPI messages
  (post, load).  Each talks to the server over its own ZeroMQ REQ socket: the
  application asks the *job socket* for work, the head rank uses the *general
  purpose socket* to report weights and to ask what to delete or prefetch.
  The server is one thread.  In each turn it handles at most one general
  purpose message, then at most one job request if `stealable_jobs > 0`, then
  the launcher, then the due dates.
- *Classic.* The server is an MPI program.  Rank 0 hands out members and sends
  each task to the other ranks; every rank has a ROUTER socket to the runner
  ranks whose blocks overlap its own, and exchanges parts of the state with
  them.  Any rank may find a runner late; it tells rank 0, which reschedules.
  The ranks agree on the update by messages about task ids.
- *Launcher.* Its main thread learns from the server which runners are
  connected or late, and kills late ones.  A second thread asks the cluster for
  the state of the jobs.  If the server is gone all runners are killed and a
  new server is started, which reads its checkpoints.

What is hard in it:

- The requests of the two sockets of a P2P runner interleave with each other,
  with those of other runners, and with the update step; `alpha`,
  `stealable_jobs` and the number of weights are kept by different handlers and
  have to meet for a cycle to end.
- Late weights of runners whose due date passed, runners that die silently, and
  a server that dies at any point.
- A full local cache: what may be deleted must never be what a job needs.
- Ranks of the classic server that disagree: on who is faulty, on what is
  finished, on which step it is.
- Two threads of the launcher that share a job table and the list of nodes
  without a lock, and jobs that end at any time.
- A checkpoint that is written part by part, by another thread, on all ranks.

The list `hazards` of `PROJECT.json` names these at their lines.

What makes each component correct:

- *Weight server*: it is a particle filter. Each cycle every parent is
  propagated as often as it was drawn, no more and no less, whatever times out
  or restarts; its books agree with the runners; it does not fail or wait for
  ever.
- *Runner head*: the pool never overflows, a state that a job needs is local
  when it starts, a state that somebody may still load is on the global file
  system.
- *Classic server*: each ensemble member is complete on all ranks, and from one
  runner, before the update; no subtask is lost; runners get parts that belong
  together; the study ends.
- *n-to-m*: both sides cut a field in the same way, into the overlaps of their
  blocks, and every byte comes back in its place.
- *Fault tolerance*: a checkpoint has all parts of one step, and a restarted
  server goes on from it.
- *Launcher*: nothing runs that it does not know of, dead servers and runners
  are replaced, nodes are given to one job at a time (which the code does not
  achieve in all interleavings, see below), and the study ends.

## Modules

- `WeightServer.tla`: the P2P server, with the runners as its environment.
- `ParticleFilter.tla`: what that server promises, as an abstract specification
  with three steps: a copy of a parent comes back weighted, the last copy comes
  back and the next bag is drawn, a cycle starts over.
- `WeightServerProof.tla`: theorems about `WeightServer`, and that it implements
  `ParticleFilter`.
- `DueDatesProof.tla`: that the server's due dates are the runners' jobs, that
  its picture of their caches is right, that it finds a parent for who asks, that
  parents are older than their jobs, and that in a large enough cache there is a
  state to delete.
- `RunnerStorage.tla`: the runners as their code has them, application and head
  rank with local storage and parallel file system, composed with the server.
- `RunnerStorageProof.tla`: that these implement `WeightServer`, and keep their pools.
- `MelissaServer.tla`: the ranks of the classic server and its runners.
- `EnsembleUpdate.tla`: what those ranks promise together.
- `MelissaServerProof.tla`: that the ranks keep their tasks and implement `EnsembleUpdate`.
- `AnswersProof.tla`: that ranks and runners understand each other.
- `FieldParts.tla`: the exchange of one member between blocks of different sizes.
- `FieldPartsProof.tla`: that a field is cut into the overlaps of the blocks, and
  that what is sent has the size the other side expects.
- `Checkpoint.tla`: checkpoints of the classic server.
- `CheckpointProof.tla`: theorems about `Checkpoint`.
- `Launcher.tla`: both threads of the launcher, the cluster and the processes.
- `LauncherProof.tla`: theorems about `Launcher`.
- `MC*.tla`: symmetry and instances for TLC.

### The weight server

Variables carry the names they have in `server.py`. `alpha` is a bag of
parents, `due_dates` is a set of runner, job and parent (the three indices of
`DueDates` are views of it, the due times themselves are abstracted: a due date
may expire at any time, in the order in which it was set), `cr` is
`StateCache.cr`, `checkpoint` the files `checkpoint.bin.<n>`.  `state_weights`
keeps for each weighted state the parent it came from, which the code drops; it
is used in properties and in the choice that resampling makes only as the set of
states.  Weights are abstracted: resampling draws any bag of the right size.

| Action | Code |
|---|---|
| `accept_weight`, with `maybe_update` and `do_update_step` | `accept_weight`, 307-339, 278-304, 773-814 |
| `accept_delete` | 387-461, with `StateCache.update` and `remove_runner` |
| `accept_prefetch` | 463-498, with `select_good_new_parent` 566-608 |
| `give_scheduled_job`, `give_new_job`, `give_no_job` | the outcomes of `handle_job_requests`, 619-674 |
| `ignore_faulty` | `receive_message_nonblocking`, 500-515 |
| `raises` | any handler that ends in an exception or a failed assertion |
| `check_violations` | 157-193 |
| `stop`, `restart` | 294-300; 832-845 and `melissa_da_study.py` 388-402 |

A handler that fails changes nothing but `status`, which then says why; the
server process is gone, and only `restart` follows.

A runner is its application (`app`, `jobs`, `posted`), its head rank (`head`,
`gp`, `pulls`) and its local cache (`held`).  A channel is idle, holds a
request that the server has not read, or a reply the runner has not read.  The
application may run ahead of the head rank by `Backlog` finished states.  Where
the runner is freer in the model than in the code (when the application reads
a reply, which of two pending events the head rank takes first), it is so to
keep the environment general.

A faulty runner is killed by the launcher, early or late: `FaultyLinger`
chooses whether it stops at once or goes on until the end.

### The abstract filter

`ParticleFilter` knows nothing of runners, jobs, caches or due dates.
`WeightServer` implements it under the mapping at its end: a parent is still to
be propagated if a copy of it waits in `alpha` or is out with a due date, and
the results of a cycle are its weighted states.  A timeout, a prefetch, the
hand-out of a job and everything a runner does are stutters.  `Restart` says
what a new server may do: begin the running cycle with the bag that was drawn
for it and nothing else.

### The runners and their storage

`WeightServer` gives the server a general environment: runners that send what a
runner may send.  `RunnerStorage` extends it with what a runner really does and
replaces the runner actions by finer ones.  It adds these variables:

| Variable | Code |
|---|---|
| `l1` | checkpoints in the local storage of each runner, as `is_local` sees them |
| `l2` | checkpoints in the global directory, which all runners and later servers share |
| `used` | `StatePool::m_used_slots` |
| `del_q`, `own_cycle` | `del_q`, `last_assimilation_cycle` of `storage_controller.cxx` |
| `staged` | the state of `m_request_post` between `stage` and the weight |
| `load`, `dirty` | where the application is in `m_load_user`, and how often `FTI_Load` failed there |
| `failed` | the assertion or `IO_TRY` that ended the runner |

`held` and `pulls` of `WeightServer` are `m_cached_states` and
`m_state_pull_requests`.

| Action | Code |
|---|---|
| `StoreState`, `PostState`, `ReceiveJob` | `melissa_p2p_expose`, `push_weight_to_head` |
| `LookUp`, `CheckAnswer`, `ReadState` | the three accesses of `m_load_user` to the local storage, 273-297 |
| `StageToGlobal`, `ReportWeight`, `ReadAck` | `m_request_post` and `m_push_weight_to_server`, with `stage_l1l2` |
| `delete_request`, `ReadDelete` | `Server::delete_request`, before and after the reply |
| `prefetch_request`, `ReadOther` | `Server::prefetch_request` |
| `TakeLoad`, `TakePull`, `FetchState` | `m_request_load`, `m_request_pull`, `m_pull_head` with `stage_l2l1` |
| `RemoveOldest` | the removal at the end of `callback`, 185-196 |
| `StudyRestart` | `restart`, which leaves `l2` as it is |

A step of the head rank ends where it sends a request or where another process
may see what it did.  `FTI_Load` and `FTI_Remove` are one step each.  The head
rank probes for a post, a LOAD and a prefetch one after the other, each at its
own instant, so the model lets any of them come first.  The removal loop takes
one state per step; that it runs every ten seconds is left open.  The size of
the pool is computed as the code does, in unsigned arithmetic of a small width
(`SizeT`).

`pulls` (the states to prefetch) is a set and not the queue of the code, so the head
may take them in any order.

`ImplementsWeightServer` says that every behaviour of this system is one of
`WeightServer`: local reads, staging and removals are stutters, the rest are
steps of the server or of its environment.  So what is checked and proved of
`WeightServer` holds of runners with storage, and `WeightServer` leaves out no
order of requests that the storage code can produce.  It also corrected it: a
base state that is stored but not yet reported is already local and is loaded
without the head rank (`Local` in `WeightServer`).

### The classic server

A task gives a member to a runner; a rank has one subtask per runner rank it is
linked to (`Links`).  `book[s]` holds what rank `s` keeps of tasks: the sets
`unscheduled`, `scheduled`, `running`, `finished`, `killed` and the connections
in `idle_runners`.  The lists of the code are first in first out; a subtask
carries the id of its task, which gives that order.  MPI messages between the
ranks are the sequences `new_task`, `kill_runner`, `rank_finished`, and
`all_finished`; parts on their way are `wire`, answers `answers`.

| Action | Code of `server.cxx` |
|---|---|
| `register_runner_id`, `RegisterField` | 358-503, and the change of phase 1668-1704 |
| `handle_data_response` (`AcceptPart`, `RefusePart`) | 1030-1260, with `schedule_new_task` 727-763 |
| `check_due_dates`, with `FailTask` | 897-963, 871-886 |
| `check_kill_requests` | 965-1028 |
| `check_schedule_new_tasks` | 766-820, with `add_sub_tasks` 702-721 |
| `check_finished` | 1263-1362, one operator for rank 0 and one for the others |
| `UpdateStep` | 1363-1454, with `init_new_timestep` 839-869 |
| `FirstExpose`, `Expose`, `Finalize`, `MPI_Abort` | `melissa_expose`, `putState`, `getState`, `receive` of the API |

`Fails` says that the next thing a rank does is to fail an assertion.  An update
step is entered by all ranks together where the assimilator begins with a
barrier (`UpdateHasBarrier`), and left by each on its own, when it has the
number of steps that rank 0 broadcasts.  A call of `check_due_dates` that finds
several tasks due is several steps.  The simulation is taken to be synchronous,
as the server takes it: no rank of a runner finishes a propagation that another
rank has not started.

Rank 0 tells the launcher of a runner that another rank found late only if the
server is built with `REPORT_TIMING`, which is the default (`ReportTiming`; the
runs have it).  Without it the launcher removes fewer runners, a step for which no
fairness is assumed, so that all properties hold as well.

Stop messages.  `RunnerRankConnection::stop` sends the identity of the runner
without `ZMQ_SNDMORE`, and a ROUTER socket drops the content that follows, so
as built END_RUNNER and KILL_RUNNER do not arrive and runners wait for the
launcher to remove them.  `StopsArrive` chooses: `classic_progress` and
`python_overwrites` are as built; `classic_faults` lets them arrive, which
includes that they are late for ever, so that its safety properties hold of
both, and of the program with the flag added.

`EnsembleUpdate` knows members, ranks and, for each, the runner from whom the
parts come.  A rank gains or loses a member while the cycle is open; `Decide`
needs every member on every rank, from the same runner; `Leave` is a rank that
takes part in the update.  `MelissaServer` implements it: scheduling, killing
and agreement are stutters.

### The exchange of a field

`FieldParts` takes any blocks of the runner ranks (`Layouts`), with hidden state
of its own layout, and has both sides calculate the parts
(`calculate_n_to_m`, byte by byte as the code does: `Walk` is its loop as a
recursive function, `PartialSum` its sums of block sizes).
Each byte carries the rank and place it belongs to and who wrote it, so that a
part that is copied to a wrong offset is seen.  One member travels from the
runner (`putState`) to the server (`store_background_state_part`), through an
update step that changes each byte in its place, and back (`getState`).  Hidden
state is cut on its own and paired by place in the list (`initConnections`) or
by ranks (`getPartHidden`); where the assertions on that fail the behaviour
ends in `failed`, with `"server"` or `"runner"`.  `SizesAgree` is about all
others: what passes these assertions can be exchanged.

A model registers its state in one of two ways, chosen at the start: as a vector
(`InitWithVector`), or in chunks, here an assimilated one, a hidden one and a second
assimilated one (`melissa_add_chunk`, `melissa_commit_chunks`), which `chunk_based.cxx` copies to a
vector of bytes before it is sent (`Buffer`) and back after it was received
(`CopyBack`).  `memory` holds the chunks.  `RoundTrip` then says that every byte of
every chunk is back in its place.

### Checkpoints

`Checkpoint` reduces the classic server to what matters here: parts come in on
each rank, the ranks begin the update together, and leave it together.  FTI is
external: a checkpoint counts when all ranks have called `FTI_FinalizeICP`, and
`FTI_Recover` restores the background and the step counter
(`FTmodule.cxx` 22-30).  The hidden state of a member is not in a checkpoint
(`server.cxx` 1188: "FIXME: store hidden state here too!") and not in the model: what the
properties say, they say of the background.  With threads, parts and finalization are tasks of a queue, taken by
one thread (`StartTask`, `RunTask`, `JoinTask`); `synchronize` waits for
`m_pending` and `m_requests`.  `threads` is chosen at the start, so one run
covers both builds.  `Retry` drops a member whose runner is faulty.

### The launcher

`pc` is where the main thread is in its loop.  `proc` is the life of the process of
a job, `cstate` what the refresher found last.  Servers announce themselves,
report runners, and end after STOP; a process may crash or be late
`MaxFaults` times.  `Cluster` chooses between `FugakuCluster`, which keeps
nodes and kills children it has been told of, and `LocalCluster`.  With an
exception the thread it happens in ends: `outcome` says why the main thread
ended, `refresher` whether the other one lives.

A removal comes in the steps in which the threads can meet, since both change the
job table and the nodes without a lock.  `remove` and `KillProcess` are the test and
the kill of `KillJob`, `CheckJobState` the poll of the refresher.  Then either
thread goes through `RemoveJob`: it fetches the nodes of the job (`FindNodes`),
frees them one by one (`FreeNode`), removes the vcoord file (`RemoveVcoordFile`),
and deletes the entry (`DeleteJob`).  `removing` says how far each thread is and
`to_free` which nodes it has fetched and not freed.  Both may be in it for the same
job, and between any two of its steps the other thread does anything, launches
included; who comes second fails at the file or at the entry (`CannotRemove`).  The
local cluster has neither nodes nor a file.  `ScheduleJob` is one step: it marks
nodes one by one after it looked for free ones, but a node that is freed in between
is as one that is freed after it, because nodes are freed in any order.  All other calls touch
what only one thread changes.  The refresher tests for the end of the study between
its rounds only (`StartRound`), and goes on with its round while the main thread kills what
is left; `EndStudy` waits for it, as `state_refresher.join()` does.

## Runs

`CHECK_DEADLOCK FALSE` is said everywhere, because a study ends and a failed
server or launcher stops.

| Run | Bounds | What it shows |
|---|---|---|
| `server_timeouts` | 2 runners, 2 particles, 3 cycles, due dates expire at any time | the ledger (`JobsConserved`, `JobsAreBacked`, `ScheduledIsDue`), `ParentsPropagatedAsDrawn`, `DueDatesMatchRunners`, `BookkeepingHolds`, `BaseStateKept`, and `ImplementsParticleFilter` |
| `server_restarts` | the same, one restart at any point, nothing times out | `TypeOK`, `AlwaysAParent`, `PrefetchComplete`, `CacheKnown`, `CheckpointExists`, `Ledger`, `ImplementsParticleFilter` |
| `storage_races` | 2 particles, 6 slots: a pool of 2 | `OnlyKnownAborts`, `PoolAgrees`, `OneDirtyLoad` |
| `storage_crashes` | 2 particles, 7 slots: a pool of 3, one restart, one death | `ParentsStored`, `ImplementsWeightServer` |
| `storage_progress` | 1 particle, 4 cycles, fairness | `LoadsEnd`, `NeverStalls` |
| `classic_faults` | 2 server ranks, 2 members, 1 step, 2 runners of one rank, 2 faults | `NoAssertionFails`, `TasksConserved` |
| `classic_progress` | 2 server ranks, 2 members, 2 steps, runners of two ranks, 1 fault, fairness | `AnswersAgree`, `Progress`, `ImplementsEnsembleUpdate` |
| `launcher_restarts` | local cluster, 1 runner wanted, 5 jobs, 1 fault, 2 server starts, fairness | `NoOrphans`, `DeadServerReplaced`, `DeadRunnerReplaced`, `StopEndsStudy` |
| `launcher_groups` | Fugaku, 3 nodes, groups of up to 2, 2 runners wanted, 3 jobs, 1 fault | `NodesAgree` |
| `field_parts` | 3 runner ranks with 1 to 3 elements each, 2 server ranks, elements of 1 and 2 bytes | `PartsAreOverlaps`, `SizesAgree`, `BackgroundFollowsIndexMap`, `RoundTrip` |
| `checkpoint` | 2 server ranks, 2 members, 4 steps, 1 retry, 1 crash, with and without threads, fairness | `CheckpointOfOneStep`, `UpdatesItsStep`, `NoStepLost`, `StudyEnds` |
| `python_overwrites` | 2 server ranks, the Python assimilator, no fault | violates `PropagationKept` |

Why the bounds are enough for the interesting cases.

*P2P.* With two particles and two runners a parent may be drawn twice, wait in
`alpha`, be reserved for one runner and run on the other; three cycles have a
first cycle (base states), one that starts from drawn states, and states that
are too old; a cache of three is the smallest in which a runner holds a base
state, a result and a fetched state, so delete requests occur in every cycle.
Numbers grow no further than the constants: job ids restart in each cycle.  In
the storage runs a pool of three (seven slots) is the smallest with which, at two
particles and within three cycles, the server always finds a state to delete, and
four cycles or three are enough for a state to become too old and be removed.
`server_timeouts` has one slot less than `BookkeepingAlwaysHolds` asks for; it
passes because in three cycles no prefetch of an earlier cycle is left that could
use up the cache.  With four slots and four cycles the property holds in TLC too (9.4
million states without timeouts), as the theorem says.  `storage_races` takes a pool of two,
because with a pool of three, and these bounds, no state is deleted that the
application is about to read.  With two this happens, the load is dirty, and
the run covers every interleaving up to the point where the server has nothing
to delete and stops.  `ImplementsParticleFilter` and `ImplementsWeightServer` are about
safety: a server that waits for ever implements the filter, and that it does not is what
`NeverStalls` says.  `storage_progress` has a pool of three and hence no dirty
load: that a dirty load ends rests on `OneDirtyLoad`.

*Classic.* Two ranks are enough for one to be ahead of the other, two members for one to
be finished while the other is rescheduled, two faults for the two ranks to
find the same runner or different ones late, and `MaxFailCount` 1 for the
server to give up.  In one step no rank leaves an update before another, so
`NoAssertionFails` is checked within a step; of several steps the theorem
`NoAssertionEverFails` says it, without hidden state.  Two runner ranks and two steps, of which rank 1
exchanges parts with both server ranks (`TwoRunnerRanks`), let a runner rank
put together answers of ranks that are in different steps.

*Launcher.* Five jobs are two servers, a runner for each, and a replacement; a
second fault adds no new race of the two threads, since each concerns one job.  Three nodes
hold a server and a group of two, so that a group of two fits only when
everything before was freed.  Three jobs are enough for a server or a group to die,
for both threads to remove it, and for the next to be launched on nodes that
one of them is still about to free.  With one value in `Loads` no group is killed
because there are too many; `NodesAgreeHolds` is for all values.

*Fields.* Blocks of one to three elements on three ranks have every relation of
borders that two server ranks admit: a border inside a part, on one, on both.
*Checkpoints.* Two members are two parts per rank, one that a thread stores while the
other waits in the queue; four steps let a crash come with no checkpoint, one, and two.

The bounds `MaxRestarts`, `MaxDeaths`, `Backlog`, `MaxFaults`, `MaxJobs`,
`MaxRetries` and `MaxCrashes` are constants of their modules and named there.
`server_timeouts` also passes with `Particles = 1`, `FaultyLinger = TRUE` and
`MaxDeaths = 1`: late runners that go on, and one that dies, trip no handler.

### What does not hold

`python_overwrites` shows a disagreement with a comment; the other findings of
`PROJECT.json` are kept without a run of their own.  Their properties stand in the
modules and can be seen to fail as follows.

| Property | How to see it fail | The code |
|---|---|---|
| `WeightServer!NeverStallsWithRunner` | fairness, one timeout | A timeout in the first cycle leaves a parent in `alpha` that nobody takes; the update waits for an empty `alpha` for ever. |
| `WeightServer!AlwaysAParent` | three runners with timeouts | `select_good_new_parent` reaches the assertion that should never be reached. |
| `WeightServer!BookkeepingHolds` | `server_timeouts` with `Cycles = 4`; or with one runner and `Particles = 4` | A prefetch that the head rank did not come to is carried out a cycle later, when both cached states are parents of due jobs.  A runner with a posted result, a job in its answer and a reserved one needs three parents: in a cache of three nothing may be deleted. |
| `WeightServer!RunnersRegistered` | more runners than jobs of a cycle | A prefetch request of a runner whose first job request is not read yet ends the server. |
| `WeightServer!CheckpointExists` | `server_restarts` with `Cycles = 2` | The restarted server opens a checkpoint that is never written. |
| `WeightServer!NeverStalls` | fairness, `MaxDeaths = 1`, no due dates | A runner that dies holding a job is never noticed. |
| `RunnerStorage!LocalStorageFits` | three slots | The pool's size wraps around and is larger than the storage. |
| no `RunnerStorage!LateFetch` | `storage_races` with `Cycles = 4`, `CacheSlots = 3`, `Slots = 7` | Posts and LOADs come before a queued prefetch in every turn of the head rank, and it is taken when its state is gone, locally and from level 2: an assertion ends a runner that could do without it. |
| no `RunnerStorage!StoredAgain` | `storage_races` with a restart | A restarted server gives out the job ids of the interrupted cycle again, and the head rank refuses to store over what it finds. |
| `MelissaServer!NoAssertionFails` | `classic_faults` with `HiddenState = TRUE` | The hidden frame of a refused part is taken for the next message. |
| `MelissaServer!ImplementsEnsembleUpdate` | `Assimilator = "CheckStateless"` | That assimilator has no barrier: rank 0 is a step ahead before the other rank decides. |
| `Launcher!NodesStayTaken` | `launcher_groups` | Main thread and refresher remove one job.  The main thread is the first at the file, goes on and launches a job on the nodes; then the refresher frees them, and fails. |
| `Launcher!NodesNotShared` | `launcher_groups` with `Loads = {1, 2}`, `GroupSize = 1`, `MaxJobs = 4` | And the next launch gives such a node to a second job. |
| `Launcher!NodeNameIsServers` | `launcher_groups` | The announcement of a server that died is read when the next one runs, and runners are sent to the node of the old one. |
| `Launcher!DeadRunnerNoticed` | `launcher_restarts` | A runner that ends before it was seen running stays on the books for ever. |
| `Launcher!RestartAllowed` | `MayRestart = FALSE`, `MaxFaults = 0` | The server's end is noticed before its STOP is read. |
| `FieldParts!HiddenLargeEnough` | `RunnerSize = 2` | As much hidden state as server ranks is not enough for the assertions on hidden parts. |
| `Checkpoint!CheckpointIsBackground` | `checkpoint` | The checkpoint keeps the first propagation of a member, the update works on the last. |

Storage of three slots is the first of a row.  Three give a pool of
`STORAGE_MAX_PREFETCH`, four a pool of zero that overflows with the
first state, and with five or six the server runs out of states to delete.
Seven slots are the first that work with two particles in a study of three
cycles, as `storage_crashes` shows; in the fourth a late prefetch may leave
nothing to delete.  Eight slots make a pool of four states, which the code never
exceeds.  It is enough for two particles (`BookkeepingAlwaysHolds`), and not for five
and two posted results (`Backlog = 2`): with more particles there are more parents
to keep.  What a runner needs at a time are the parents of its posted results, of the
job in its answer or in the application and of the reserved one.  The code accepts
all of these sizes.

Read off the code, and not modelled further: P2P jobs of later cycles are handed
out with the number of steps of the warm-up; the study ends one update earlier
than asked for; `protect_background` adds the offsets of the parts up, so that with
three or more parts on a rank the regions it gives to FTI overlap; a classic
server whose first runner dies between its two registration messages asks no
other runner for the field.  `KillRecursive` of Fugaku needs the children of a
job, which are entered when a runner registers: a runner that never does cannot
be killed (`outcome = "KeyError"` in `launcher_restarts` with
`Cluster = "Fugaku"`).

### Fairness

`WeightServer!FairSpec` asks for weak fairness of: each general purpose answer and each job
answer per runner (the server polls both sockets in every turn, and ZeroMQ serves
the peers of a socket in turn), the last `stop`, the start of each runner, and
the steps of each application and each head rank, which are processes of their
own that go on while they can.  No fairness is asked of timeouts, deaths and
restarts.  A runner that is dead or was declared faulty need not do anything.
`FairStudySpec` asks the same of the composed system: the server's answers, and
that each application and each head rank takes some step while it can.

`MelissaServer!FairSpec`: every rank polls its socket, its MPI messages and its
due dates in every turn of its loop, so each of these is weakly fair per rank;
the due date of a task that is with a dead or killed runner passes some day,
while no other needs to; runners that live go on.  `Progress` ends in: the server
ended, gave up, or has lost every runner (the launcher would start more).

`Launcher!FairSpec`: both threads go on, and a server that has ended is found
silent some day, which is strong fairness since the main thread passes that
test again and again.  Processes need do nothing.  `Checkpoint!FairSpec`: parts
arrive, each rank and its scheduler thread go on; crashes need not happen.

## Proofs

`WeightServerProof` proves, for every number of runners, particles and cycles,
every cache size, with and without timeouts, faulty runners that go on, deaths
and restarts:

- `TypeCorrect`: `Spec => []TypeOK`;
- `LedgerBalances`: `Spec => []Ledger`, and from it `NoJobLost`,
  `EveryJobBacked` and `ReservedJobsDue`, the parts that `server_timeouts`
  checks.

They rest on the assumptions named in `WeightServer.tla`: `Particles` and
`Cycles` are positive, `Runners` is finite, the bounds are naturals and `None`
is not a state.

The argument.  `JobsConserved` is not inductive.  That a weight takes exactly
one due date away needs jobs with distinct ids (`DueJobsDistinct`); that a new
job is new needs the ids in use to be below the next one (`JobIdsFresh`); that
the update draws as many particles as there were needs the counter of weights to
be the number of weighted states of the cycle (`WeightsCounted`); and after a
restart, that what was saved was complete (`CheckpointsComplete`).  A reserved
job is the difficult case: if its weight could arrive, the ledger would lose a
due date of a job that is still stealable.  It cannot, since its id was never
sent to anybody: `JobsHeldKnown` bounds the ids that runners hold and
`ReservedNotHeld` says that a reserved one is not among them.  The same
invariant shows that a runner with a reserved job is not faulty, which is why
`check_violations` may give back one stealable job less for it.  The proof splits
`Ledger` into what the server has (`Books`) and what the runners have (`Hands`),
takes one lemma per handler, and uses lemmas about bags of particles for the
arithmetic of `alpha`.

The same module builds on these and proves, for the same constants:

- `ParentsAsDrawn`: `Spec => []ParentsPropagatedAsDrawn`;
- `FilterImplemented`: `Spec => ImplementsParticleFilter`;
- `RestartsFindCheckpoint`: `Spec => []CheckpointExists` if `Cycles # 2`, the
  number for which it fails (see above).

The argument.  Most steps move a copy of a parent between `alpha` and
`due_dates`, in one direction or the other (`WorkKept`); the abstract filter does
not see them.  A result takes a copy of its parent away from what is left and adds
it to what is back (`CopyReturned`), whether or not the cycle goes on.
`CopiesConserved` states this balance for every state and that the bag of the
running cycle was saved.  That the step that closes a cycle finds exactly one
copy left, and that no base state closes it, needs `UpdatesAtOnce`: while a job is
out the cycle is not ready, and it never stays ready.  That a restart starts the
running cycle over, and after the end the one before, needs `CyclesInOrder`, which
relates the files that exist, the cycle and the end of the study; with two cycles
the checkpoint before the end does not exist, the restart fails
(`no_checkpoint`), and this failure counts as the end of the filter.

`DueDatesProof` relates the server to the runners:

- `DueDatesAreHandedOut`: `Spec => []DueDatesMatchRunners`;
- `NoDueDateMissing`: `DueDates.remove` never aborts the server.

The argument.  A weight takes a job out of the runner's hands and out of the due
dates, and the two stay equal only if the runner does not have the same job a
second time; so the invariant `Matched` of one runner also says that a job is in one
place (`InOnePlace`): posted, in the application, in a reply or in a weight.  That a
new job is nowhere yet comes from `Ledger`, and so does that a reserved job is in
nobody's hands.  A runner whose due date passed is faulty, and nothing is said of
it until a restart, after which it has nothing.  A restart that finds no checkpoint
comes up over old due dates, so one must know that after the last update there are
none (`NoneOutAtEnd`).

The same module relates the server's books to the runners' caches, for every
number of cycles but two:

- `CacheIsKnown`: `Spec => []CacheKnown`;
- `PrefetchesComplete`: `Spec => []PrefetchComplete`;
- `BaseStateStays`: `Spec => []BaseStateKept`.

The argument.  The invariant `Cached` of one runner follows a state through the
dialogue of its head rank.  A request to delete or to prefetch names what is cached
when the server answers it, for the head waits; a state that is to be deleted is
off the books before the runner deletes it, and a pushed state comes on the books
before the head reads the acknowledgement (`KnownCached`).  Until a reserved job is
handed out its parent is cached, listed in the answer, queued or being fetched; the
server does not choose it for deletion, and a job is reserved only while the head
is at a point from which it goes on to fetch (`ReservedComes`).  In the first cycle the
first weight of a runner is that of its base state, because it posts that state
before any other; so when the server has books of a runner the base state is in
them (`BaseKept`), and it is never the choice.  With two cycles, a restart after the
last update finds no checkpoint: the server fails with old books and empty caches,
which is why the theorems exclude it.

And about the choice of a parent, for all constants without timeouts:

- `SomeParentAlways`: `Spec => []AlwaysAParent` if not `CheckTimeouts`.

The argument.  A parent with `a` copies left of `n` takes less than `a R / n + 1` of the `R`
runners, so one could think that all shares may be used up.  The invariant
`Focused` says that a runner works for one parent at a time: after the first cycle
its reserved job and its due dates, as far as copies of their parents are left, are of
one parent, that of its last job.  So the runners of different parents are
different ones, and a runner that needs a new parent counts for none: the other
`R - 1` cannot use up all shares (`ShareIsLeft`, a count of `n R` pairs against
`n (R - 1)`).  The order in which the code prefers cached parents is total on what is
left to choose from, so something comes first (`BeforeIsOrder`, `FirstExists`).
A timeout breaks both: it takes a runner out of `runners_last`, which lowers `R`,
and puts copies back that others work for; then the assertion is reached (see above).

And of what the server does when a cache is full, for all constants, with timeouts,
deaths and restarts:

- `BookkeepingAlwaysHolds`: `Spec => []BookkeepingHolds` if there are `EnoughSlots`,
  two more than particles or four more than `Backlog`.

The argument.  `BookkeepingHolds` excludes three failures.  That a due date is
missing is `NoDueDateMissing`.  That the server does not know who asks: until the server has heard a weight of a
runner, the cache of that runner holds nothing but parents of due jobs, which are too
few for a deletion to be needed, and it reports a weight before it asks for anything
else (`Unheard`).  That there is nothing to delete: a runner may have as many due jobs,
reserved ones included, as there are particles, or as fit into its hands, so at
most `Particles` or `Backlog + 2` parents are spared (`ParentsFit`), and it asks
with at most one slot free (`SlotsUsed`); some cached state is spared by nothing, and
the order of the code has a first one among those (`FirstExists`).  What the code
also spares, the jobs that are on their way to be reported, is not in the cache
yet (`CachedLate`); in the first cycle only the base state is spared.  The invariant
`Frugal` of one runner has these parts, and two that they need: a runner knows no
base state but its own, and nothing else before its first job (`OwnStates`), and what
the application loads is the parent of a due job (`LoadsDue`).

The bound is tight.  One slot less fails with two particles in the fourth cycle
(`server_timeouts` with `Cycles = 4`), and `Backlog + 3` fails with
`Particles = 5`, `Cycles = 4`, `CacheSlots = 4`, `Backlog = 1`, which TLC finds in
simulation.

`RunnerStorageProof` puts the runners' storage under this server and proves, for
all constants that satisfy `StorageAssumption`:

- `StudyImplementsWeightServer`: `StudySpec => ImplementsWeightServer`, so that every
  theorem above holds of the study with its storage;
- `PoolsAlwaysAgree`: `StudySpec => []PoolAgrees`;
- `LoadsAreDirtyOnce`: `StudySpec => []OneDirtyLoad`;
- `ParentsAlwaysStored`: `StudySpec => []ParentsStored`;
- `OnlyKnownAbortsHappen`: `StudySpec => []OnlyKnownAborts` if `CacheSlots > 0`.

A pool without slots is what the code computes from four slots, or when told to
prefetch nothing: it overflows with the first state.  `StorageAssumption` has the least number of slots that the code accepts, the pool
size that it computes from it, and that `None` is not a reason to abort.

The argument.  Most moves of an application or of a head rank are steps of
`WeightServer`'s environment by definition, or change none of its variables.  The others
need to know where the states of the runner are.  The message that
`m_request_post` takes is that of the first state by cycle and id, since states are reported
in the order of their jobs (`InOrder`).  A look into the local storage is a look at `Local`,
which `WeightServer` derives from its own variables, since the storage has just
these states and the one that is being stored (`Stored`); and only a parent is loaded
(`LoadsParent`).  For the pool, a state may enter it
once only, by its own report or by one fetch (`Apart`), although LOADs and prefetches
ask for the same states and the answer to one may make the other superfluous.
A runner's own state is never fetched before it is reported: parents come from
earlier cycles (`ParentsPast`, in `DueDatesProof`) while what is not yet reported
was issued later, or is a base state.  The counter is then the number
of states in the list (`Counted`).

The last three theorems follow states over more than one runner, with one
invariant for each thing that has to be known before the next:

- `JobsAreDue`.  The job that a runner is given, with its parent, is among the due
  dates as long as the runner is not declared faulty.  So what the server spares, or
  still needs, covers what the application is about to load.
- `AllLoadWell`.  Between its decision to delete a state and the deletion the server
  may make that state the parent of the runner's next job; this is how a load becomes
  dirty.  Once the application has missed its parent, no deletion of it is on its way
  (`LoadsWell`), for the head rank that takes the LOAD has no open request, and a later
  one spares the parent.  The pool is full at most until the end of a post (`Room`).
- `Durable`.  A result is on level 2 before the server hears of it, so what is
  drawn, or in a checkpoint, is there (`ParentsKept`).  It is removed by its writer alone,
  which goes by the cycle of its own acknowledged results: no runner is ahead of the
  cycle that a server works on, or would go on with after a restart (`WorkCycle`,
  `RunnerKeeps`), and a parent is never two cycles older than that.  A fetch that is told
  finds the state there or comes too late for anybody to need it (`ToFetch`).
- `StoredOnce`.  Until a restart, what a runner has still to store is on no level 2
  and in the hands of no other runner (`Unstaged`), because ids are given out once.
  A restart gives them out again, hence `StoredAgain`.

`CheckpointProof` proves, for all finite sets of server ranks, members and runner
ranks, any number of steps, retries and crashes, with and without threads:

- `CheckpointsAreSound`: `Spec => []CheckpointOfOneStep`;
- `UpdatesAreOfTheirStep`: `Spec => []UpdatesItsStep`;
- `RestartsGoOn`: `Spec => NoStepLost`.

They rest on `CheckpointAssumption`: the sets are finite, there is at least one
step, and `None` is no task.

The argument.  `CheckpointOfOneStep` speaks of what is there when the last rank
finalized, so the invariant `Inv` must follow the parts from the socket to the
file.  The ranks are in one step and in one phase of it (`InStep`): this is what the
collective calls give, and why what different ranks finalize is of one step.  A
part that a rank noted in `id_check` is in its open checkpoint, or waits in the
queue, or is with the thread (`Handed`).  `m_requests` counts the queue and the
task that runs (`Counted`), so that when `synchronize` returns nothing is
outstanding and the checkpoint is complete; without this count the finalization
could overtake a part.  While the epoch is finished nothing but the finalization is
in the queue (`Scheduled`), and a rank that finalized keeps a complete part of the
current step until all have (`Finished`).  That an update step uses what belongs to
its step needs that a retry drops a part from the background and not from
`id_check` (`Gathered`).  A server that recovers has not overtaken its checkpoint
(`NotAhead`) and writes no other one until its background is replaced.

`MelissaServerProof` proves, for all numbers of ranks, members, steps, crashes,
late runners and retries, every finite set of runners and every table of links:

- `TasksAreConserved`: `Spec => []TasksConserved`;
- `EnsembleImplemented`: `Spec => ImplementsEnsembleUpdate`.

Both assume `UpdateHasBarrier`; without it `ImplementsEnsembleUpdate` fails, as
`CheckStateless` shows (see above).  The other assumptions are `ServerAssumption`, in which the runners
are finitely many numbers, and `EveryRankIsLinked`.

The argument.  `TasksConserved` is about the book of one rank, and it breaks when
that rank reads a message that does not fit its book: a task for a member it has,
or the kill of a task it does not have.  So the invariant `Agreement` relates the
books through the messages on their way.

- A rank is at most one step behind rank 0, and only in the update step
  (`Follows`); a book has nothing open there (`BookKept`).
- Task ids rise along `new_task` (`Numbered`).  A rank that reported the last task
  it received has finished (`Reported`), and rank 0 counts no more ranks than have
  reported the last task it gave (`Counts`).
- Rank 0 tells of a member again only after it killed the task before
  (`Announced`); a rank has only tasks that rank 0 gave (`TakenFrom`); and a kill
  that is reported is known to rank 0 already, or rank 0 still has the task
  (`KillsKnown`).
- The last message about a member that rank 0 has given out is about rank 0's
  task; when there is none left, the rank has this task or saw its runner fail
  (`LastWord`).  When all have finished nothing is on its way, so all ranks have
  the member from rank 0's runner: this is what `Decide` needs.

For the refinement the runner of a member at a rank is read off its finished
subtasks.  A step gathers or loses one member, decides, leaves, or changes none
of this.  The gain of the last member and the decision are different steps
because rank 0 decides in `check_finished` only.

`AnswersProof` goes on from there to the runners and proves, for the same
constants:

- `AnswersAlwaysAgree`: `Spec => []AnswersAgree`;
- `NoAssertionEverFails`: `Spec => []NoAssertionFails` without hidden state, for
  which it fails as shown above: what is left of a refused message stays unread.

The argument.  Both speak of what ranks that know different things say to one
runner, so the invariant `InOrderNow` adds to `Agreement`:

- No rank is told of a task it has or had (`NewsFresh`); no killed task comes back
  (`NoneAgain`), and a kill at one rank is on its way to rank 0 (`KillTold`).  That a
  runner with a killed task is never idle again (`Sound`) is why it gets no other.
- On a link between a runner rank and a server rank there is one part, or one
  answer, or the connection is idle (`Places`).
- A runner has one member at a time, counting answers, scheduled subtasks and tasks
  that some rank has still to read; and while some of it was not sent, the answers
  are of rank 0's step (`OneTask`).  This needs that a task reaches every link on
  which the runner can still be: an idle connection, or a part that is still
  coming, belongs to a rank that has the task scheduled, will read it, or killed the
  runner (`Reached`).
- The subtask of an answer runs at the rank it came from, or was killed (`Held`),
  and so does the subtask of a part (`Expected`): this is the assertion of
  `handle_data_response`.
- A runner that has not sent its first part has none of this (`Absent`); END_RUNNER
  is the last word to a runner, and only after rank 0 has ended (`LastWords`).

One action of the server does several of these things at once: a part comes in, the
runner gets a subtask or a new task is given out, and another runner is killed.  So
`Exchange` is stated of values (books, messages, answers, parts, steps) and not of
variables, there is one lemma for each thing that may happen to them
(`ExchangeLess`, `ExchangeGives`, `ExchangeTakes` and others), and an action is
a composition of these.

`LauncherProof` proves, for any number of nodes, jobs, servers, runners and faults,
on both clusters, without an assumption but `LauncherAssumption`:

- `NoOrphansHolds`: `Spec => []NoOrphans`;
- `NodesAgreeHolds`: `Spec => []NodesAgree` if there are `EnoughNodes`.

`NodesAgree` makes an exception, and needs it (`NodesStayTaken` above).  A node that
is not free is always of some job, and a launch always finds its nodes.  That it is of one
job alone, and that no job's node is free, is said until a job is removed twice
(`RemovedTwice`): one thread frees the nodes of a job that the other removes too or has
removed.  That thread is about to fail.  If it is the main thread, the launcher ends; if it is
the refresher, the launcher goes on with nodes that may be free although a job has them, and
from then on `NodesAgree` says no more than the first two things.

`EnoughNodes` says that the allocation holds the server and as many runners as
`max_runners()` asks for, and on the local cluster, which counts no nodes, that each
job asks for one.  The launcher checks neither beforehand, and otherwise ends in `"no nodes"`.

The argument.  `NoOrphans` would fail if the thread that kills a job, or the refresher,
deleted it from the table while the process still runs.  `Tracked` says
that what runs is in the table and what is in the table is known to the main
thread; that a job that is to be killed is found there unless it is gone; and that the
deletion comes after the kill.  `OnlyStarted` (a new job is in no table, snapshot
or list) lets the two threads' stale copies be of old jobs only, and `InPlace` follows
the main thread through the end of a server.  `Removals` says how far two threads can get
with one job: only one passes the vcoord file, and what a thread has yet to free is the
job's as long as that is in the table.  `NodesHeld` is `NodesAgree` job by job; it is preserved by
`FreeNode` because a thread that frees a node which is no longer its job's makes
`RemovedTwice` true.  That a launch finds its nodes needs a count, which must survive such a
step: `NodesCounted` bounds the nodes of every part of the table by what its servers and runners
ask for, so that it remains true when jobs leave the table in any order, and freeing a node
only helps.  `NodesHeld` makes each node in use one of these, and `Described` says that a
runner is of one job, so that a launch, which happens only if fewer runners are on the
books than are wanted, finds its nodes.  The lemmas under it are about finite sets of numbers in order
(`RankIsBijection`, `FirstHasSize`, `InOrderIsEnumeration`).

`FieldPartsProof` proves, for all numbers of runner and server ranks, all blocks
with and without hidden state and all element sizes:

- `PartsAlwaysOverlap`: `Spec => []PartsAreOverlaps` if `EmptyBlocksLast`;
- `SizesAlwaysAgree`: `Spec => []SizesAgree`, for every layout.

`EmptyBlocksLast` says that no block without elements stands before one that has
some.  The walk compares with the end of a block after it took a byte, so
it does not leave an empty block, and TLC shows the property violated with one in
front.

The argument.  `calculate_n_to_m` is a loop over bytes, here the recursive
function `Walk`.  The module shows that `Walk` and `PartialSum` are functions that satisfy
their equations (`Follows`), since no number is the least one at which they do not:
least counterexamples, and the well-foundedness of `<` on the naturals, take the place of
the induction theorems.  By the same argument the walk is, at each byte, in the
block that contains it and at its offset there, so that it starts a part exactly
where a block of one of the two sides starts.  The sizes agree because both sides come to the same part of the same list
(`SameParts`), although the server looks for it by the two ranks and the runner by its
place: a pair of ranks has one part (`OnePerPair`), the part is for a server rank
that exists (`RanksOfServer`), and the assertions on hidden parts compare the ranks
place by place.  The invariant is
`Exchanged`: the sizes are of the layout, each side has calculated its parts, what is on
its way is as long as its part, and the sizes agree.

Only model-checked:

- all liveness (`LoadsEnd`, `NeverStalls`, `Progress`, `DeadServerReplaced`,
  `DeadRunnerReplaced`, `StopEndsStudy`, `StudyEnds`): fairness and ENABLED are out of
  the prover's reach;
- `BackgroundFollowsIndexMap` and `RoundTrip` of `FieldParts`, which follow each byte
  through copies of whole messages, a vector and chunks;
- `PropagationKept` of the classic server, which fails with the Python assimilator.

## Not modelled

- Of the P2P server: the keep-alive with the launcher, event logs,
  `accept_runner_request` (only the disabled peer controller sends it), the
  values of weights and the numerics of resampling.
- Of the P2P runners: broadcasts between the ranks of a runner and several head
  ranks of one runner, the finalisation (the server never sends a job with no
  steps), errors of the file system, and the FTI library, which is not in the
  repository and is modelled from how it is used.
- Of the classic server: that it ends when the launcher is silent while nothing
  is scheduled or running, reports of time and memory, the numerics of the
  assimilators.
- Of the launcher: command lines and environments, the pings to the server, and
  `SlurmCluster`, whose state is in the batch system.
- Byte layouts of messages, timing, and the disabled peer controller.

## Plan

Done: `WeightServer`, its proofs and its refinement of `ParticleFilter`,
`RunnerStorage`, `MelissaServer`, `Launcher`, `Checkpoint` and `FieldParts` with their
proofs.  What could follow:

1. `BackgroundFollowsIndexMap` and `RoundTrip` as theorems: the parts are known to be
   the overlaps, what is missing is where each byte stands in each message and chunk.
2. A bound on the cache for studies of at most three cycles, where no late prefetch
   of an earlier cycle is left.
