---------------------------- MODULE WeightServer ----------------------------
(***************************************************************************)
(* The weight server of the particle filter (src/server-p2p/server.py).    *)
(*                                                                         *)
(* The server is one thread that serves two REP sockets: the general       *)
(* purpose socket, on which the head rank of a runner reports weights and  *)
(* asks what to delete from or prefetch into its local cache, and the job  *)
(* socket, on which the application of a runner asks for work.  Both       *)
(* sockets of one runner are independent, so their requests interleave     *)
(* freely.  Each handler is one action; a handler that raises an exception *)
(* ends the server with the reason in status.                              *)
(*                                                                         *)
(* The runners are the environment: they send every request a runner may   *)
(* send in its state, in an order at least as free as that of the runner's *)
(* code (src/api/p2p).                                                     *)
(***************************************************************************)
EXTENDS Integers, FiniteSets, Bags

CONSTANTS
  Runners,        \* runner ids the launcher hands out over the study
  Particles,      \* PARTICLES, the particles propagated in each cycle
  Cycles,         \* CYCLES, the number of cycles asked for
  CacheSlots,     \* capacity of a runner's pool of locally cached states
  NSteps,         \* NSTEPS, model steps of one assimilation cycle
  WarmupNSteps,   \* model steps of the warm-up cycle
  CheckTimeouts,  \* trigger.enabled: due dates are checked only if it is set
  FaultyLinger,   \* a faulty runner goes on until it is killed, if ever
  MaxRestarts,    \* bound: server restarts
  MaxDeaths,      \* bound: runners that die without a word
  Backlog,        \* bound: finished states of a runner with no weight sent
  None            \* Python's None

ASSUME ParticlesAssumption == Particles \in Nat \ {0}
ASSUME CyclesAssumption == Cycles \in Nat \ {0}
ASSUME RunnersAssumption == IsFiniteSet(Runners)
ASSUME BoundsAssumption ==
  /\ CacheSlots \in Nat /\ NSteps \in Nat /\ WarmupNSteps \in Nat
  /\ MaxRestarts \in Nat /\ MaxDeaths \in Nat /\ Backlog \in Nat
  /\ CheckTimeouts \in BOOLEAN /\ FaultyLinger \in BOOLEAN

(***************************************************************************)
(* A state id is the assimilation cycle that produced the state and a      *)
(* number; runner r calls the state it starts from (0, r).  A job is named *)
(* by the state it will produce.                                           *)
(***************************************************************************)
State == [t : Nat, id : Nat \cup Runners]
Job == [t : Nat \ {0}, id : Nat]
BaseState(r) == [t |-> 0, id |-> r]

ASSUME NoneAssumption == None \notin State

VARIABLES
  assimilation_cycle,   \* current cycle, from 1
  next_job_id,
  alpha,                \* bag of parents still to be propagated this cycle
  scheduled_jobs,       \* runner -> [job, parent] reserved by a prefetch
  runners_last,         \* registered runner -> parent of its last job or None
  due_dates,            \* set of [runner, job, parent] that were handed out
  faulty_runners,       \* runners whose due date passed
  state_weights,        \* weighted states, with the parent they came from
  weights_this_cycle,
  stealable_jobs,       \* jobs still to be handed out this cycle
  cr,                   \* StateCache.cr: runner -> states it caches
  checkpoint,           \* checkpoint.bin.<n>: cycle n -> alpha at its start
  status,               \* "up", how the server failed, or how far its end is
  restarts

VARIABLES
  gp,                   \* general purpose channel of each runner's head rank
  jobs,                 \* job channel of each runner's application
  app,                  \* [job, parent]: what the application computes, and
                        \* the state it has still to load for it, or None
  posted,               \* states it finished, whose weight is not sent yet
  head,                 \* what the head rank is doing between its requests
  held,                 \* states in the local cache (m_cached_states)
  pulls,                \* states the head rank was told to prefetch
  up                    \* "new", "up" or "killed"

server == <<assimilation_cycle, next_job_id, alpha, scheduled_jobs,
            runners_last, due_dates, faulty_runners, state_weights,
            weights_this_cycle, stealable_jobs, cr, checkpoint, status>>
channels == <<gp, jobs>>
runner == <<app, posted, head, held, pulls, up>>
vars == <<server, restarts, channels, runner>>

Faults == {"due_missing", "no_parent", "unregistered", "key_error",
           "nothing_to_delete", "no_checkpoint"}

-----------------------------------------------------------------------------
(* Messages.  A channel is a REQ/REP pair: it is idle, holds a request the *)
(* server has not read, or a reply the runner has not read.                *)

Idle == [type |-> "idle"]
WeightMsg(s) == [type |-> "weight", state |-> s]
DeleteMsg(S) == [type |-> "delete", cached |-> S]
PrefetchMsg(S) == [type |-> "prefetch", cached |-> S]
Ack(s) == [type |-> "ack", state |-> s]   \* empty; the head knows the state
Empty == [type |-> "empty"]
DeleteReply(s) == [type |-> "deleted", state |-> s]
PullReply(S) == [type |-> "pull", states |-> S]
JobRequest == [type |-> "request"]
JobReply(j, p, n) == [type |-> "job", job |-> j, parent |-> p, nsteps |-> n]
NoJob == [type |-> "none"]

Order(j, p) == [job |-> j, parent |-> p]

(* What the head rank of a runner is doing. *)
AtRest == [at |-> "rest"]
AfterWeight == [at |-> "post"]
Fetching(s) == [at |-> "fetch", state |-> s]

(* Runners that have not done anything yet. *)
Silent == [r \in Runners |-> Idle]
BaseJobs == [r \in Runners |-> Order(BaseState(r), None)]
HeadsAtRest == [r \in Runners |-> AtRest]
Nothing == [r \in Runners |-> {}]

-----------------------------------------------------------------------------
(* Helpers.  Where an operator has a twin just before it, the twin is a     *)
(* mistaken form of it, which PROJECT.json uses to show that a property     *)
(* notices.                                                                *)

(* d[k] = v and del d[k] of a Python dictionary. *)
Put(f, k, v) == [x \in DOMAIN f \cup {k} |-> IF x = k THEN v ELSE f[x]]
Del(f, k) == [x \in DOMAIN f \ {k} |-> f[x]]
One(x) == SetToBag({x})

(* alpha[p] -= 1, and the entry goes when it reaches 0. *)
TakenKeepingZero(a, p) == [a EXCEPT ![p] = @ - 1]
Taken(a, p) == a (-) One(p)

(* cached_states arrives ordered by checkpoint id, that is by t then id.    *)
Before(s, u) == s.t < u.t \/ (s.t = u.t /\ s.id < u.id)
First(S) == {s \in S : \A u \in S \ {s} : Before(s, u)}

Members(a) == UNION {{<<p, k>> : k \in 1 .. a[p]} : p \in DOMAIN a}
count_members(a) == Cardinality(Members(a))

DueDatesOf(r) == {d \in due_dates : d.runner = r}
runners_per_parent(p) ==
  Cardinality({d.runner : d \in {e \in due_dates : e.parent = p}})

Due(r, j, p) == [runner |-> r, job |-> j, parent |-> p]

generate_job_id == [t |-> assimilation_cycle, id |-> next_job_id]

(* notify_runner_connect: the first job request registers the runner. *)
Registered(r) ==
  IF r \in DOMAIN runners_last THEN runners_last ELSE Put(runners_last, r, None)

(* ceil(alpha[p] / Q) - runners_per_parent(p) >= 1 with Q = M / R. *)
needs_runner_above_one(p, M, R) ==
  alpha[p] * R > (runners_per_parent(p) + 1) * M
needs_runner(p, M, R) == alpha[p] * R > runners_per_parent(p) * M

(***************************************************************************)
(* The parents select_good_new_parent may return when R runners are        *)
(* registered and the asking runner caches the states of "cached": None    *)
(* when there is no work, nothing when its last assertion fails.  alpha is *)
(* searched in insertion order, which is left open here.                   *)
(***************************************************************************)
select_good_new_parent(r, R, cached) ==
  IF assimilation_cycle = 1 THEN {BaseState(r)}
  ELSE IF count_members(alpha) = 0 THEN {None}
  ELSE IF cached \cap DOMAIN alpha # {} THEN First(cached \cap DOMAIN alpha)
  ELSE {p \in DOMAIN alpha : needs_runner(p, count_members(alpha), R)}

ParentChoices(r, last, cached) ==
  IF last[r] \in DOMAIN alpha THEN {last[r]}
  ELSE select_good_new_parent(r, Cardinality(DOMAIN last), cached)

(* In the first cycle the parent is added to alpha when it is selected. *)
Offered(p, last) ==
  IF assimilation_cycle = 1 /\ last \notin DOMAIN alpha
  THEN alpha (+) One(p) ELSE alpha

(* DueDates.remove, of the due date of job j of runner r. *)
DueDateKept(r, j) == due_dates
WithoutDueDate(r, j) == due_dates \ {d \in DueDatesOf(r) : d.job = j}

Serving == status = "up"

(* Requests of faulty runners do not reach the handlers. *)
HeardIfFaulty(r) == Serving
Heard(r) == Serving /\ r \notin faulty_runners

Fault(reason) ==
  /\ status' = reason
  /\ UNCHANGED <<assimilation_cycle, next_job_id, alpha, scheduled_jobs,
                 runners_last, due_dates, faulty_runners, state_weights,
                 weights_this_cycle, stealable_jobs, cr, checkpoint, channels>>

-----------------------------------------------------------------------------
(* The update step *)

(* Resampling draws as many particles as there are weighted states of the  *)
(* cycle, with replacement; the weights only bias the draw.                *)
Resamplings(S) ==
  {b \in UNION {[D -> 1 .. Cardinality(S)] : D \in SUBSET S} :
     count_members(b) = Cardinality(S)}

CheckpointOfLastCycle == assimilation_cycle
CheckpointNumber == assimilation_cycle + 1

WeightedIn(weights, t) == {w.job : w \in {v \in weights : v.job.t = t}}

(* do_update_step, with the state weights known at that point. *)
do_update_step(weights) ==
  /\ \E drawn \in Resamplings(WeightedIn(weights, assimilation_cycle)) :
       alpha' = alpha (+) drawn
  /\ assimilation_cycle' = assimilation_cycle + 1
  /\ stealable_jobs' = Particles
  /\ next_job_id' = 0
  /\ weights_this_cycle' = 0
  /\ checkpoint' = Put(checkpoint, CheckpointNumber, alpha')
  /\ status' = IF assimilation_cycle' < Cycles THEN "up" ELSE "stopping"

(* All particles are weighted and none waits to be handed out. *)
AllWeighted(n) == n = Particles /\ stealable_jobs = 0
ReadyForUpdate(n) == n = Particles /\ alpha = EmptyBag /\ stealable_jobs = 0

(* maybe_update, called with the number of weights just counted. *)
maybe_update(n, weights) ==
  IF ReadyForUpdate(n)
  THEN do_update_step(weights)
  ELSE /\ weights_this_cycle' = n
       /\ UNCHANGED <<assimilation_cycle, stealable_jobs, next_job_id, alpha,
                      checkpoint, status>>

-----------------------------------------------------------------------------
(* Handlers of the general purpose socket *)

accept_weight(r) ==
  /\ Heard(r)
  /\ gp[r].type = "weight"
  /\ LET s == gp[r].state
         known == IF r \in DOMAIN cr THEN cr[r] ELSE {}
     IN \/ /\ s.t = 0
           /\ UNCHANGED <<due_dates, state_weights>>
           /\ cr' = Put(cr, r, known \cup {s})
           /\ gp' = [gp EXCEPT ![r] = Ack(s)]
           /\ maybe_update(weights_this_cycle, state_weights)
        \/ \E d \in DueDatesOf(r) :
             /\ s.t # 0 /\ d.job = s
             /\ due_dates' = WithoutDueDate(r, s)
             /\ state_weights' = state_weights \cup {Order(s, d.parent)}
             /\ cr' = Put(cr, r, known \cup {s})
             /\ gp' = [gp EXCEPT ![r] = Ack(s)]
             /\ maybe_update(weights_this_cycle + 1, state_weights')
  /\ UNCHANGED <<scheduled_jobs, runners_last, faulty_runners, jobs>>

(* DueDates.remove asserts that the weight belongs to a due date. *)
accept_weight_raises(r) ==
  {e \in {"due_missing"} :
     gp[r].state.t # 0 /\ \A d \in DueDatesOf(r) : d.job # gp[r].state}

(***************************************************************************)
(* What accept_delete may choose from the states that are not needed: the  *)
(* first that is too old, else the first of the last cycle that no job     *)
(* waits for, else one of this cycle with the lowest weight, else the      *)
(* first.                                                                  *)
(***************************************************************************)
DeleteChoices(S) ==
  LET tooOld == {s \in S : s.t < assimilation_cycle - 1}
      notImportant == {s \in S : s.t = assimilation_cycle - 1
                                 /\ s \notin DOMAIN alpha}
      tooNew == {s \in S : s.t = assimilation_cycle}
  IN IF tooOld # {} THEN First(tooOld)
     ELSE IF notImportant # {} THEN First(notImportant)
     ELSE IF tooNew # {} THEN tooNew
     ELSE First(S)

BlacklistOfJobs(r, cached) ==
  {d.job : d \in DueDatesOf(r)}
  \cup (IF assimilation_cycle = 1 THEN {s \in cached : s.t = 0} ELSE {})
BlacklistWithoutBase(r, cached) ==
  {d.job : d \in DueDatesOf(r)} \cup {d.parent : d \in DueDatesOf(r)}
  \cup (IF r \in DOMAIN scheduled_jobs THEN {scheduled_jobs[r].parent} ELSE {})

(* What the jobs of r need, and in the first cycle the states r starts from. *)
Blacklist(r, cached) ==
  {d.job : d \in DueDatesOf(r)} \cup {d.parent : d \in DueDatesOf(r)}
  \cup (IF r \in DOMAIN scheduled_jobs THEN {scheduled_jobs[r].parent} ELSE {})
  \cup (IF assimilation_cycle = 1 THEN {s \in cached : s.t = 0} ELSE {})

(* all_per_runner has a list for every runner that ever had a due date. *)
HadDueDate(r) ==
  \/ r \in DOMAIN scheduled_jobs
  \/ r \in DOMAIN runners_last /\ runners_last[r] # None

(* StateCache.update followed by StateCache.remove_runner. *)
CacheNotUpdated(r, cached, s) == Put(cr, r, cached)
CacheAfterDelete(r, cached, s) ==
  IF cached \ {s} = {} THEN Del(cr, r) ELSE Put(cr, r, cached \ {s})

accept_delete(r) ==
  /\ Heard(r)
  /\ gp[r].type = "delete"
  /\ r \in DOMAIN cr
  /\ HadDueDate(r)
  /\ \E s \in DeleteChoices(gp[r].cached \ Blacklist(r, gp[r].cached)) :
       /\ cr' = CacheAfterDelete(r, gp[r].cached, s)
       /\ gp' = [gp EXCEPT ![r] = DeleteReply(s)]
  /\ UNCHANGED <<assimilation_cycle, next_job_id, alpha, scheduled_jobs,
                 runners_last, due_dates, faulty_runners, state_weights,
                 weights_this_cycle, stealable_jobs, checkpoint, status, jobs>>

(* Neither dictionary knows the runner, or the last assertion fails. *)
accept_delete_raises(r) ==
  IF r \notin DOMAIN cr \/ ~HadDueDate(r) THEN {"key_error"}
  ELSE {e \in {"nothing_to_delete"} :
          DeleteChoices(gp[r].cached \ Blacklist(r, gp[r].cached)) = {}}

(***************************************************************************)
(* accept_prefetch: after the first cycle reserve the next job of r, if it *)
(* has none reserved and there is work, and tell r to fetch its parent.    *)
(***************************************************************************)
Prefetches(r) == assimilation_cycle > 1 /\ r \notin DOMAIN scheduled_jobs

accept_prefetch(r) ==
  /\ Heard(r)
  /\ gp[r].type = "prefetch"
  /\ r \in DOMAIN cr
  /\ LET cached == gp[r].cached IN
     /\ cr' = Put(cr, r, cached)
     /\ \/ /\ Prefetches(r)
           /\ r \in DOMAIN runners_last
           /\ \E p \in ParentChoices(r, runners_last, cached) \ {None} :
                /\ scheduled_jobs' =
                     Put(scheduled_jobs, r, Order(generate_job_id, p))
                /\ alpha' = Taken(alpha, p)
                /\ due_dates' = due_dates \cup {Due(r, generate_job_id, p)}
                /\ next_job_id' = next_job_id + 1
        \/ /\ Prefetches(r) => /\ r \in DOMAIN runners_last
                               /\ None \in ParentChoices(r, runners_last, cached)
           /\ UNCHANGED <<scheduled_jobs, alpha, due_dates, next_job_id>>
     /\ gp' = [gp EXCEPT ![r] = PullReply(
                 IF assimilation_cycle > 1 /\ r \in DOMAIN scheduled_jobs'
                 THEN {scheduled_jobs'[r].parent} \ cached ELSE {})]
  /\ UNCHANGED <<assimilation_cycle, runners_last, faulty_runners,
                 state_weights, weights_this_cycle, stealable_jobs, checkpoint,
                 status, jobs>>

accept_prefetch_raises(r) ==
  IF r \notin DOMAIN cr THEN {"key_error"}
  ELSE IF ~Prefetches(r) THEN {}
  ELSE IF r \notin DOMAIN runners_last THEN {"unregistered"}
  ELSE {e \in {"no_parent"} :
          ParentChoices(r, runners_last, gp[r].cached) = {}}

(***************************************************************************)
(* Messages of faulty runners are answered with nothing and dropped.  An   *)
(* empty message reads as an ack, as a prefetch reply without states and   *)
(* as a job reply without a job; as a delete reply it names no state.      *)
(***************************************************************************)
EmptyReply(m) ==
  CASE m.type = "weight" -> Ack(m.state)
    [] m.type = "delete" -> Empty
    [] m.type = "prefetch" -> PullReply({})

ignore_faulty(r) ==
  /\ Serving
  /\ r \in faulty_runners
  /\ \/ /\ gp[r].type \in {"weight", "delete", "prefetch"}
        /\ gp' = [gp EXCEPT ![r] = EmptyReply(gp[r])]
        /\ UNCHANGED jobs
     \/ /\ jobs[r].type = "request" /\ stealable_jobs > 0
        /\ jobs' = [jobs EXCEPT ![r] = NoJob]
        /\ UNCHANGED gp
  /\ UNCHANGED server

-----------------------------------------------------------------------------
(* Handler of the job socket, read only while there are jobs to give *)

AsksForJob(r) ==
  /\ Heard(r)
  /\ jobs[r].type = "request"
  /\ stealable_jobs > 0

GiveJob(r, p, kept) ==
  /\ runners_last' = Put(Registered(r), r, p)
  /\ stealable_jobs' = stealable_jobs - 1
  /\ next_job_id' = next_job_id + 1
  /\ due_dates' = kept \cup {Due(r, generate_job_id, p)}
  /\ jobs' = [jobs EXCEPT ![r] = JobReply(generate_job_id, p, WarmupNSteps)]
  /\ UNCHANGED <<assimilation_cycle, faulty_runners, state_weights,
                 weights_this_cycle, cr, checkpoint, status, gp>>

(* remove_from_alpha: a reserved job was taken from alpha already. *)
RemoveFromAlphaAgain(r, p, a) == IF p \in DOMAIN a THEN Taken(a, p) ELSE a
RemoveFromAlpha(r, p, a) ==
  IF r \in DOMAIN scheduled_jobs THEN a ELSE Taken(a, p)

(* The job a prefetch reserved is handed out under a new job id. *)
give_scheduled_job(r) ==
  /\ AsksForJob(r)
  /\ r \in DOMAIN scheduled_jobs
  /\ \E d \in DueDatesOf(r) : d.job = scheduled_jobs[r].job
  /\ scheduled_jobs' = Del(scheduled_jobs, r)
  /\ alpha' = RemoveFromAlpha(r, scheduled_jobs[r].parent, alpha)
  /\ GiveJob(r, scheduled_jobs[r].parent,
             WithoutDueDate(r, scheduled_jobs[r].job))

CachedBy(r) == IF r \in DOMAIN cr THEN cr[r] ELSE {}

give_new_job(r) ==
  /\ AsksForJob(r)
  /\ r \notin DOMAIN scheduled_jobs
  /\ \E p \in ParentChoices(r, Registered(r), CachedBy(r)) \ {None} :
       /\ alpha' = RemoveFromAlpha(r, p, Offered(p, Registered(r)[r]))
       /\ GiveJob(r, p, due_dates)
  /\ UNCHANGED scheduled_jobs

give_no_job(r) ==
  /\ AsksForJob(r)
  /\ r \notin DOMAIN scheduled_jobs
  /\ None \in ParentChoices(r, Registered(r), CachedBy(r))
  /\ runners_last' = Registered(r)
  /\ jobs' = [jobs EXCEPT ![r] = NoJob]
  /\ UNCHANGED <<assimilation_cycle, next_job_id, alpha, scheduled_jobs,
                 due_dates, faulty_runners, state_weights, weights_this_cycle,
                 stealable_jobs, cr, checkpoint, status, gp>>

handle_job_requests_raises(r) ==
  IF r \in DOMAIN scheduled_jobs
  THEN {e \in {"due_missing"} :
          \A d \in DueDatesOf(r) : d.job # scheduled_jobs[r].job}
  ELSE {e \in {"no_parent"} :
          ParentChoices(r, Registered(r), CachedBy(r)) = {}}

handle_job_requests(r) ==
  \/ give_scheduled_job(r)
  \/ give_new_job(r)
  \/ give_no_job(r)

(* A handler that raises an exception ends the server. *)
Raised(r) ==
  (CASE gp[r].type = "weight" -> accept_weight_raises(r)
     [] gp[r].type = "delete" -> accept_delete_raises(r)
     [] gp[r].type = "prefetch" -> accept_prefetch_raises(r)
     [] OTHER -> {})
  \cup (IF AsksForJob(r) THEN handle_job_requests_raises(r) ELSE {})

raises(r) == Heard(r) /\ \E e \in Raised(r) : Fault(e)

-----------------------------------------------------------------------------
(* What the expiry of a due date of runner r gives back. *)
StealableAlways(r) == stealable_jobs + 1
StealableAfterTimeout(r) ==
  IF r \in DOMAIN scheduled_jobs THEN stealable_jobs ELSE stealable_jobs + 1
ScheduledKept(r) == scheduled_jobs
ScheduledAfterTimeout(r) == Del(scheduled_jobs, r)
AlphaKept(p) == alpha
AlphaAfterTimeout(p) == alpha (+) One(p)

(***************************************************************************)
(* check_violations.  Due dates expire in the order they were set, which   *)
(* within a cycle is that of the job ids.  The runner is declared faulty   *)
(* and the parent is to be propagated again; the entries that expire in    *)
(* one call are consecutive steps here.                                    *)
(***************************************************************************)
check_violations ==
  /\ Serving
  /\ CheckTimeouts
  /\ \E d \in due_dates :
       /\ \A e \in due_dates \ {d} : Before(d.job, e.job)
       /\ faulty_runners' = faulty_runners \cup {d.runner}
       /\ runners_last' = IF d.runner \in faulty_runners THEN runners_last
                          ELSE Del(runners_last, d.runner)
       /\ scheduled_jobs' = ScheduledAfterTimeout(d.runner)
       /\ stealable_jobs' = StealableAfterTimeout(d.runner)
       /\ alpha' = AlphaAfterTimeout(d.parent)
       /\ due_dates' = due_dates \ {d}
  /\ UNCHANGED <<assimilation_cycle, next_job_id, state_weights,
                 weights_this_cycle, cr, checkpoint, status, channels>>

(* After the last update the server tells the launcher to stop and exits. *)
stop ==
  /\ status = "stopping"
  /\ status' = "finished"
  /\ UNCHANGED <<assimilation_cycle, next_job_id, alpha, scheduled_jobs,
                 runners_last, due_dates, faulty_runners, state_weights,
                 weights_this_cycle, stealable_jobs, cr, checkpoint, channels>>

(***************************************************************************)
(* Restart.  The launcher notices that the server is gone, kills every     *)
(* runner and starts a new server, which continues from the last of the    *)
(* checkpoints that exist without a gap.                                   *)
(***************************************************************************)
FileOfLoop(n) == n
FileAfterLoop(n) == n + 1

last_assimilation_cycle ==
  LET gaps == {n \in 1 .. Cycles - 1 : FileAfterLoop(n) \notin DOMAIN checkpoint}
  IN IF gaps = {} THEN Cycles - 1
     ELSE CHOOSE n \in gaps : \A m \in gaps : n <= m

is_restart == Cycles > 1 /\ 2 \in DOMAIN checkpoint

(* The new process, which continues with cycle n and the alpha a. *)
StartsWith(n, a) ==
  /\ assimilation_cycle' = n
  /\ alpha' = a
  /\ next_job_id' = 0
  /\ scheduled_jobs' = << >>
  /\ runners_last' = << >>
  /\ due_dates' = {}
  /\ faulty_runners' = {}
  /\ state_weights' = {}
  /\ weights_this_cycle' = 0
  /\ stealable_jobs' = Particles
  /\ cr' = << >>
  /\ status' = "up"
  /\ gp' = Silent
  /\ jobs' = Silent
  /\ UNCHANGED checkpoint

restart ==
  /\ status # "finished"
  /\ restarts < MaxRestarts
  /\ restarts' = restarts + 1
  /\ IF ~is_restart THEN StartsWith(1, EmptyBag)
     ELSE IF last_assimilation_cycle \in DOMAIN checkpoint
     THEN StartsWith(last_assimilation_cycle,
                     checkpoint[last_assimilation_cycle])
     ELSE Fault("no_checkpoint")
  /\ app' = BaseJobs
  /\ posted' = Nothing
  /\ head' = HeadsAtRest
  /\ held' = Nothing
  /\ pulls' = Nothing
  /\ up' = [r \in Runners |-> IF up[r] = "up" THEN "killed" ELSE up[r]]

-----------------------------------------------------------------------------
(***************************************************************************)
(* Runners.  The application loads the parent of its job, propagates it,   *)
(* leaves the new state and its weight to the head rank and asks for the   *)
(* next job.  The head rank handles one event at a time: a finished state  *)
(* (send its weight, make room if the pool is full, ask what to prefetch)  *)
(* or a state to fetch (make room until two slots are free, fetch it).     *)
(* Without a server nothing a runner does is seen again: it is killed      *)
(* before the next server starts.                                          *)
(***************************************************************************)
Killed == {r \in Runners : up[r] = "killed"}
Free(r) == CacheSlots - Cardinality(held[r])

HeadReady(r) == up[r] = "up" /\ gp[r] = Idle

(* The launcher starts r, whose first state is its base state. *)
StartRunner(r) ==
  /\ up[r] = "new"
  /\ up' = [up EXCEPT ![r] = "up"]
  /\ UNCHANGED <<server, restarts, channels, app, posted, head, held, pulls>>

(* r dies; what it sent stays in the channels. *)
RunnerDies(r) ==
  /\ up[r] = "up"
  /\ Cardinality(Killed) < MaxDeaths
  /\ up' = [up EXCEPT ![r] = "killed"]
  /\ UNCHANGED <<server, restarts, channels, app, posted, head, held, pulls>>

(* A finished state is local before its weight is reported. *)
Local(r) ==
  held[r] \cup posted[r]
  \cup (IF gp[r].type \in {"weight", "ack"} THEN {gp[r].state} ELSE {})

(* The application loads the parent from the local storage. *)
Load(r) ==
  /\ up[r] = "up"
  /\ app[r].parent \in Local(r)
  /\ app' = [app EXCEPT ![r].parent = None]
  /\ UNCHANGED <<server, restarts, channels, posted, head, held, pulls, up>>

(* It has finished its state: post it to the head rank and ask for a job. *)
Expose(r) ==
  /\ up[r] = "up"
  /\ jobs[r] = Idle
  /\ app[r].parent = None
  /\ Cardinality(posted[r]) < Backlog
  /\ posted' = [posted EXCEPT ![r] = @ \cup {app[r].job}]
  /\ jobs' = [jobs EXCEPT ![r] = JobRequest]
  /\ UNCHANGED <<server, restarts, gp, app, head, held, pulls, up>>

(* A reply without a job makes it ask again; a state in memory needs no    *)
(* load.                                                                   *)
ReadJob(r) ==
  /\ up[r] = "up"
  /\ \/ /\ jobs[r].type = "none"
        /\ jobs' = [jobs EXCEPT ![r] = JobRequest]
        /\ UNCHANGED app
     \/ /\ jobs[r].type = "job"
        /\ jobs' = [jobs EXCEPT ![r] = Idle]
        /\ app' = [app EXCEPT ![r] =
                     Order(jobs[r].job, IF jobs[r].parent = app[r].job
                                        THEN None ELSE jobs[r].parent)]
  /\ UNCHANGED <<server, restarts, gp, posted, head, held, pulls, up>>

(* Finished states are reported in the order in which they were finished.  *)
PushWeight(r) ==
  /\ HeadReady(r)
  /\ head[r] = AtRest
  /\ \E s \in posted[r] :
       /\ \A u \in posted[r] \ {s} : Before(s, u)
       /\ posted' = [posted EXCEPT ![r] = @ \ {s}]
       /\ gp' = [gp EXCEPT ![r] = WeightMsg(s)]
  /\ head' = [head EXCEPT ![r] = AfterWeight]
  /\ UNCHANGED <<server, restarts, jobs, app, held, pulls, up>>

AskDelete(r) ==
  /\ HeadReady(r)
  /\ \/ head[r].at = "post" /\ Free(r) = 0
     \/ head[r].at = "fetch" /\ Free(r) <= 1
  /\ gp' = [gp EXCEPT ![r] = DeleteMsg(held[r])]
  /\ UNCHANGED <<server, restarts, jobs, runner>>

AskPrefetch(r) ==
  /\ HeadReady(r)
  /\ head[r].at = "post" /\ Free(r) > 0
  /\ gp' = [gp EXCEPT ![r] = PrefetchMsg(held[r])]
  /\ UNCHANGED <<server, restarts, jobs, runner>>

(* An acknowledged state counts as cached, a deleted one no longer, states *)
(* to fetch are queued.  A delete reply that names no state is fatal.      *)
ReadReply(r) ==
  /\ up[r] = "up"
  /\ \/ /\ gp[r].type = "ack"
        /\ held' = [held EXCEPT ![r] = @ \cup {gp[r].state}]
        /\ UNCHANGED <<head, pulls, up>>
     \/ /\ gp[r].type = "deleted"
        /\ held' = [held EXCEPT ![r] = @ \ {gp[r].state}]
        /\ UNCHANGED <<head, pulls, up>>
     \/ /\ gp[r].type = "pull"
        /\ pulls' = [pulls EXCEPT ![r] = @ \cup gp[r].states]
        /\ head' = [head EXCEPT ![r] = AtRest]
        /\ UNCHANGED <<held, up>>
     \/ /\ gp[r].type = "empty"
        /\ up' = [up EXCEPT ![r] = "killed"]
        /\ UNCHANGED <<head, held, pulls>>
  /\ gp' = [gp EXCEPT ![r] = Idle]
  /\ UNCHANGED <<server, restarts, jobs, app, posted>>

(* A prefetch instruction for a cached state is dropped. *)
StartFetch(r) ==
  /\ HeadReady(r)
  /\ head[r] = AtRest
  /\ \/ /\ app[r].parent \notin Local(r) \cup {None}
        /\ head' = [head EXCEPT ![r] = Fetching(app[r].parent)]
        /\ UNCHANGED pulls
     \/ \E s \in pulls[r] :
          /\ pulls' = [pulls EXCEPT ![r] = @ \ {s}]
          /\ head' = IF s \in held[r] THEN head
                     ELSE [head EXCEPT ![r] = Fetching(s)]
  /\ UNCHANGED <<server, restarts, channels, app, posted, held, up>>

FinishFetch(r) ==
  /\ HeadReady(r)
  /\ head[r].at = "fetch"
  /\ Free(r) > 1
  /\ held' = [held EXCEPT ![r] = @ \cup {head[r].state}]
  /\ head' = [head EXCEPT ![r] = AtRest]
  /\ UNCHANGED <<server, restarts, channels, app, posted, pulls, up>>

-----------------------------------------------------------------------------
Init ==
  /\ assimilation_cycle = 1
  /\ next_job_id = 0
  /\ alpha = EmptyBag
  /\ scheduled_jobs = << >>
  /\ runners_last = << >>
  /\ due_dates = {}
  /\ faulty_runners = {}
  /\ state_weights = {}
  /\ weights_this_cycle = 0
  /\ stealable_jobs = Particles
  /\ cr = << >>
  /\ checkpoint = << >>
  /\ status = "up"
  /\ restarts = 0
  /\ up = [r \in Runners |-> "new"]
  /\ gp = Silent
  /\ jobs = Silent
  /\ app = BaseJobs
  /\ posted = Nothing
  /\ head = HeadsAtRest
  /\ held = Nothing
  /\ pulls = Nothing

handle_general_purpose(r) ==
  \/ accept_weight(r)
  \/ accept_delete(r)
  \/ accept_prefetch(r)

ServerStep ==
  /\ \/ \E r \in Runners : \/ handle_general_purpose(r)
                           \/ handle_job_requests(r)
                           \/ ignore_faulty(r)
                           \/ raises(r)
     \/ check_violations
     \/ stop
  /\ UNCHANGED <<restarts, runner>>

AppStep(r) == Load(r) \/ Expose(r) \/ ReadJob(r)

HeadStep(r) ==
  \/ PushWeight(r)
  \/ AskDelete(r)
  \/ AskPrefetch(r)
  \/ ReadReply(r)
  \/ StartFetch(r)
  \/ FinishFetch(r)

(* The launcher kills a runner that is declared faulty, late or at once.   *)
Goes(r) == Serving /\ (r \in faulty_runners => FaultyLinger)

RunnerStep(r) ==
  Goes(r) /\ (StartRunner(r) \/ RunnerDies(r) \/ AppStep(r) \/ HeadStep(r))

Next ==
  \/ ServerStep
  \/ \E r \in Runners : RunnerStep(r)
  \/ restart

Spec == Init /\ [][Next]_vars

(***************************************************************************)
(* The server's loop reads both sockets in every iteration and ZeroMQ      *)
(* serves the peers of a socket in turn; the application and the head rank *)
(* of a runner are processes that go on while they can.  Nothing has to    *)
(* time out, die or be restarted.                                          *)
(***************************************************************************)
Answers(r) ==
  /\ handle_general_purpose(r) \/ ignore_faulty(r) \/ raises(r)
  /\ UNCHANGED <<restarts, runner>>
GivesJobs(r) ==
  /\ handle_job_requests(r) \/ raises(r)
  /\ UNCHANGED <<restarts, runner>>
Stops == stop /\ UNCHANGED <<restarts, runner>>

FairSpec ==
  /\ Spec
  /\ WF_vars(Stops)
  /\ \A r \in Runners :
       /\ WF_vars(Answers(r)) /\ WF_vars(GivesJobs(r))
       /\ WF_vars(Goes(r) /\ StartRunner(r))
       /\ WF_vars(Goes(r) /\ AppStep(r)) /\ WF_vars(Goes(r) /\ HeadStep(r))

-----------------------------------------------------------------------------
(* Types *)

DueDate == [runner : Runners, job : Job, parent : State]
OrderType == [job : Job, parent : State]

GpMessage ==
  {Idle, Empty} \cup [type : {"weight", "ack", "deleted"}, state : State]
  \cup [type : {"delete", "prefetch"}, cached : SUBSET State]
  \cup [type : {"pull"}, states : SUBSET State]
JobMessage ==
  {Idle, JobRequest, NoJob}
  \cup [type : {"job"}, job : Job, parent : State, nsteps : Nat]

IsParticleBag(b) ==
  IsABag(b) /\ DOMAIN b \subseteq State /\ IsFiniteSet(Members(b))

ServerTypeOK ==
  /\ assimilation_cycle \in Nat \ {0}
  /\ next_job_id \in Nat
  /\ IsParticleBag(alpha)
  /\ DOMAIN scheduled_jobs \subseteq Runners
  /\ \A r \in DOMAIN scheduled_jobs : scheduled_jobs[r] \in OrderType
  /\ DOMAIN runners_last \subseteq Runners
  /\ \A r \in DOMAIN runners_last : runners_last[r] \in State \cup {None}
  /\ due_dates \subseteq DueDate /\ IsFiniteSet(due_dates)
  /\ faulty_runners \subseteq Runners
  /\ state_weights \subseteq OrderType /\ IsFiniteSet(state_weights)
  /\ weights_this_cycle \in Nat
  /\ stealable_jobs \in Nat
  /\ DOMAIN cr \subseteq Runners
  /\ \A r \in DOMAIN cr : cr[r] \subseteq State
  /\ DOMAIN checkpoint \subseteq Nat \ {0}
  /\ \A n \in DOMAIN checkpoint : IsParticleBag(checkpoint[n])
  /\ status \in {"up", "stopping", "finished"} \cup Faults
  /\ restarts \in Nat

RunnerTypeOK ==
  /\ gp \in [Runners -> GpMessage]
  /\ jobs \in [Runners -> JobMessage]
  /\ app \in [Runners -> [job : State, parent : State \cup {None}]]
  /\ posted \in [Runners -> SUBSET State]
  /\ head \in [Runners -> {AtRest, AfterWeight}
                          \cup [at : {"fetch"}, state : State]]
  /\ held \in [Runners -> SUBSET State]
  /\ pulls \in [Runners -> SUBSET State]
  /\ up \in [Runners -> {"new", "up", "killed"}]

(* The values each variable ranges over, for the server and its runners.   *)
TypeOK == ServerTypeOK /\ RunnerTypeOK

-----------------------------------------------------------------------------
(* Properties *)

(***************************************************************************)
(* The ledger of the cycle: every particle is weighted, handed out or      *)
(* still to be handed out.  A job reserved by a prefetch has a due date    *)
(* but is still to be handed out, so it is counted in both; a runner that  *)
(* times out with one job running and one reserved gives both back once.   *)
(***************************************************************************)
JobsConserved ==
  weights_this_cycle + Cardinality(due_dates) + stealable_jobs
    = Particles + Cardinality(DOMAIN scheduled_jobs)

(***************************************************************************)
(* After the first cycle stealable_jobs, which opens the job socket, and   *)
(* alpha, from which jobs are taken, are kept apart by five handlers and   *)
(* still agree: a job is to be handed out exactly if its parent is in      *)
(* alpha or reserved.                                                      *)
(***************************************************************************)
JobsAreBacked ==
  IF assimilation_cycle = 1 THEN DOMAIN scheduled_jobs = {}
  ELSE stealable_jobs
         = count_members(alpha) + Cardinality(DOMAIN scheduled_jobs)

(* A reserved job has a due date, of the same runner and parent, so that   *)
(* handing it out finds the entry DueDates.remove asserts.                 *)
ScheduledIsDue ==
  \A r \in DOMAIN scheduled_jobs :
    Due(r, scheduled_jobs[r].job, scheduled_jobs[r].parent) \in due_dates

(***************************************************************************)
(* What the ledger rests on.  A job id is handed out once: due jobs and    *)
(* weighted states of the cycle are disjoint and below the next id; every  *)
(* weight of the cycle was counted; and what a restart finds in a          *)
(* checkpoint are Particles particles.                                     *)
(***************************************************************************)
DueJobsDistinct ==
  \A d, e \in due_dates : d.job = e.job => d = e

JobIdsFresh ==
  /\ \A d \in due_dates :
       d.job.t = assimilation_cycle /\ d.job.id < next_job_id
  /\ \A w \in state_weights :
       /\ w.job.t <= assimilation_cycle
       /\ w.job.t = assimilation_cycle => w.job.id < next_job_id
       /\ \A d \in due_dates : d.job # w.job

WeightsCounted ==
  Cardinality(WeightedIn(state_weights, assimilation_cycle))
    = weights_this_cycle

(* The jobs a runner has or is about to have.  A reserved job is in nobody's
   hands: no weight can arrive for it. *)
JobsHeld(r) ==
  posted[r] \cup {app[r].job}
  \cup (IF jobs[r].type = "job" THEN {jobs[r].job} ELSE {})
  \cup (IF gp[r].type = "weight" THEN {gp[r].state} ELSE {})

JobsHeldKnown ==
  \A r \in Runners : \A j \in JobsHeld(r) :
    \/ j.t < assimilation_cycle
    \/ j.t = assimilation_cycle /\ j.id \in 0 .. next_job_id - 1

ReservedNotHeld ==
  \A r \in DOMAIN scheduled_jobs :
    r \notin faulty_runners /\ scheduled_jobs[r].job \notin JobsHeld(r)

CheckpointsComplete ==
  \A n \in DOMAIN checkpoint :
    n > 1 /\ count_members(checkpoint[n]) = Particles

(* The inductive invariant of the ledger. *)
Ledger ==
  /\ JobsConserved
  /\ JobsAreBacked
  /\ ScheduledIsDue
  /\ DueJobsDistinct
  /\ JobIdsFresh
  /\ WeightsCounted
  /\ JobsHeldKnown
  /\ ReservedNotHeld
  /\ CheckpointsComplete

(***************************************************************************)
(* Each parent is propagated as often as it was drawn: the copies of a     *)
(* parent that wait in alpha, are out with a runner or came back as a      *)
(* weighted state are those of the resampling, whatever timed out, was     *)
(* prefetched or was weighted in between.                                  *)
(***************************************************************************)
Drawn(p) ==
  IF p \in DOMAIN checkpoint[assimilation_cycle]
  THEN checkpoint[assimilation_cycle][p] ELSE 0
Waiting(p) == IF p \in DOMAIN alpha THEN alpha[p] ELSE 0
Out(p) == Cardinality({d \in due_dates : d.parent = p})
Returned(p) ==
  Cardinality({w \in state_weights : w.parent = p /\ w.job.t = assimilation_cycle})

ParentsSeen ==
  DOMAIN alpha \cup {d.parent : d \in due_dates}
  \cup {w.parent : w \in {v \in state_weights : v.job.t = assimilation_cycle}}

ParentsPropagatedAsDrawn ==
  assimilation_cycle > 1 =>
    \A p \in ParentsSeen \cup DOMAIN checkpoint[assimilation_cycle] :
      Waiting(p) + Out(p) + Returned(p) = Drawn(p)

(***************************************************************************)
(* Server and runners agree on who works on what: as long as a runner is   *)
(* not declared faulty, its due dates are the jobs it has received and not *)
(* reported, those in its channels included, and the one reserved for it.  *)
(***************************************************************************)
InHand(r) ==
  posted[r]
  \cup (IF jobs[r] = Idle THEN {app[r].job} ELSE {})
  \cup (IF jobs[r].type = "job" THEN {jobs[r].job} ELSE {})
  \cup (IF gp[r].type = "weight" THEN {gp[r].state} ELSE {})

ReservedFor(r) ==
  IF r \in DOMAIN scheduled_jobs THEN {scheduled_jobs[r].job} ELSE {}

DueDatesMatchRunners ==
  \A r \in Runners \ faulty_runners :
    {d.job : d \in DueDatesOf(r)}
      = {j \in InHand(r) : j.t > 0} \cup ReservedFor(r)

(***************************************************************************)
(* The server never believes that a runner caches a state it does not      *)
(* have: else a prefetch would be skipped and a job would start with a     *)
(* cache miss.                                                             *)
(***************************************************************************)
CacheKnown ==
  \A r \in DOMAIN cr \ faulty_runners :
    cr[r] \subseteq held[r] \cup (IF gp[r].type = "ack" THEN {gp[r].state} ELSE {})

(***************************************************************************)
(* The parent of a reserved job is in the runner's cache or on its way     *)
(* there, through the reply, the queue and the fetch, and no delete        *)
(* request of the runner in between takes it away.                         *)
(***************************************************************************)
PrefetchComplete ==
  \A r \in DOMAIN scheduled_jobs :
    \/ scheduled_jobs[r].parent \in held[r] \cup pulls[r]
    \/ gp[r].type = "pull" /\ scheduled_jobs[r].parent \in gp[r].states
    \/ head[r] = Fetching(scheduled_jobs[r].parent)

(* All jobs of the first cycle start from the runner's base state, which   *)
(* stays in its cache until the first update ("never delete the base state *)
(* in the first iteration").                                               *)
BaseStateKept ==
  assimilation_cycle = 1 =>
    \A r \in DOMAIN cr \ faulty_runners :
      \/ BaseState(r) \in held[r]
      \/ gp[r].type = "ack" /\ gp[r].state = BaseState(r)

(* No handler trips over its own bookkeeping: the due date of a weight and *)
(* of a reserved job exists, the caches of the runner are known, and there *)
(* is always a state to delete.                                            *)
BookkeepingHolds ==
  status \notin {"due_missing", "key_error", "nothing_to_delete"}

(* "should never arrive here!": while nothing times out, some parent in    *)
(* alpha needs one more runner whenever a runner asks for a new parent.    *)
AlwaysAParent == status # "no_parent"

(* The server knows every runner that asks what to prefetch. *)
RunnersRegistered == status # "unregistered"

(* A server that finds checkpoints can always continue from one of them    *)
(* ("the server may always restart"), wherever its predecessor stopped.    *)
CheckpointExists == status # "no_checkpoint"

(***************************************************************************)
(* The server implements the particle filter of ParticleFilter.  In the    *)
(* first cycle the parent of a job is known only when it is handed out, so *)
(* the bag counts jobs; afterwards a copy of a parent is still to be       *)
(* propagated if it waits in alpha or is out with a runner.                *)
(***************************************************************************)
ToPropagate ==
  IF assimilation_cycle = 1
  THEN LET n == stealable_jobs + Cardinality(due_dates)
       IN [p \in (IF n > 0 THEN {None} ELSE {}) |-> n]
  ELSE [p \in DOMAIN alpha \cup {d.parent : d \in due_dates} |->
          Waiting(p) + Out(p)]

(* A server that cannot go on from its checkpoints has come to its end.    *)
Over == status \in {"stopping", "finished", "no_checkpoint"}

Filter == INSTANCE ParticleFilter WITH
  Start <- None,
  cycle <- assimilation_cycle,
  todo <- ToPropagate,
  results <- WeightedIn(state_weights, assimilation_cycle),
  previous <- WeightedIn(state_weights, assimilation_cycle - 1),
  saved <- checkpoint,
  phase <- IF Over THEN "over" ELSE "running"

ImplementsParticleFilter == Filter!Spec

(* Without timeouts the server does not wait for ever: the study ends or a *)
(* handler fails.                                                          *)
NeverStalls == <>(status \in {"finished"} \cup Faults)

(* The same when runners time out, as long as one of them does not. *)
NeverStallsWithRunner ==
  <>(status \in {"finished"} \cup Faults \/ faulty_runners = Runners)
=============================================================================
