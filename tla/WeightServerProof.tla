------------------------- MODULE WeightServerProof -------------------------
(* Theorems about the weight server, for all runners, particles, cycles,   *)
(* cache sizes, timeouts and restarts.                                     *)
EXTENDS WeightServer, FiniteSetTheorems, TLAPS

-----------------------------------------------------------------------------
(* Bags of particles: what taking and adding one copy of a parent does.    *)

(* A member of a bag is a pair of a parent and the number of its copy. *)
LEMMA MembersAre ==
  ASSUME NEW b, NEW x
  PROVE  x \in Members(b) <=> \E q \in DOMAIN b : \E k \in 1 .. b[q] : x = <<q, k>>
BY DEF Members

(* Taking a copy of a parent leaves one member less. *)
LEMMA TakenOne ==
  ASSUME NEW a, IsParticleBag(a), NEW p \in DOMAIN a
  PROVE  /\ IsParticleBag(Taken(a, p))
         /\ DOMAIN Taken(a, p) \subseteq DOMAIN a
         /\ count_members(Taken(a, p)) = count_members(a) - 1
<1>1. /\ IsABag(Taken(a, p))
      /\ DOMAIN Taken(a, p) \subseteq DOMAIN a
  BY DEF IsParticleBag, IsABag, Taken, One, SetToBag, (-)
<1> DEFINE b == Taken(a, p)
<1>a. DOMAIN b = {q \in DOMAIN a : q # p \/ a[p] > 1}
  BY DEF IsParticleBag, IsABag, Taken, One, SetToBag, (-)
<1>b. \A q \in DOMAIN b : b[q] = IF q = p THEN a[p] - 1 ELSE a[q]
  BY DEF IsParticleBag, IsABag, Taken, One, SetToBag, (-)
<1>c. \A q \in DOMAIN a : a[q] \in Nat \ {0}
  BY DEF IsParticleBag, IsABag
<1>2. Members(b) = Members(a) \ {<<p, a[p]>>}
  <2>1. DOMAIN b \subseteq DOMAIN a
    BY <1>1
  <2> HIDE DEF b
  <2>2. ASSUME NEW q \in DOMAIN b, NEW k \in 1 .. b[q]
        PROVE  q \in DOMAIN a /\ k \in 1 .. a[q] /\ (q = p => k # a[p])
    <3>1. q \in DOMAIN a /\ a[q] \in Nat \ {0}
      BY <2>1, <1>c
    <3>2. b[q] = IF q = p THEN a[p] - 1 ELSE a[q]
      BY <1>b
    <3> QED
      BY <3>1, <3>2
  <2>3. ASSUME NEW q \in DOMAIN a, NEW k \in 1 .. a[q], q = p => k # a[p]
        PROVE  q \in DOMAIN b /\ k \in 1 .. b[q]
    <3>1. a[q] \in Nat \ {0}
      BY <1>c
    <3>2. q \in DOMAIN b
      BY <1>a, <2>3, <3>1
    <3>3. b[q] = IF q = p THEN a[p] - 1 ELSE a[q]
      BY <3>2, <1>b
    <3> QED
      BY <2>3, <3>1, <3>2, <3>3
  <2> QED
    BY <2>2, <2>3, MembersAre
<1>3. <<p, a[p]>> \in Members(a)
  BY DEF IsParticleBag, IsABag, Members
<1> QED
  BY <1>1, <1>2, <1>3, FS_RemoveElement DEF IsParticleBag, count_members

(* Adding a copy of a parent makes one member more. *)
LEMMA AddedOne ==
  ASSUME NEW a, IsParticleBag(a), NEW p \in State
  PROVE  /\ IsParticleBag(a (+) One(p))
         /\ DOMAIN (a (+) One(p)) = DOMAIN a \cup {p}
         /\ count_members(a (+) One(p)) = count_members(a) + 1
<1> DEFINE n == IF p \in DOMAIN a THEN a[p] + 1 ELSE 1
<1>1. /\ IsABag(a (+) One(p))
      /\ DOMAIN (a (+) One(p)) = DOMAIN a \cup {p}
  BY DEF IsParticleBag, IsABag, One, SetToBag, (+)
<1> DEFINE b == a (+) One(p)
<1>b. \A q \in DOMAIN b : b[q] = IF q = p THEN n ELSE a[q]
  BY DEF IsParticleBag, IsABag, One, SetToBag, (+)
<1>c. \A q \in DOMAIN a : a[q] \in Nat \ {0}
  BY DEF IsParticleBag, IsABag
<1>2. Members(b) = Members(a) \cup {<<p, n>>}
  <2>1. DOMAIN b = DOMAIN a \cup {p}
    BY <1>1
  <2> HIDE DEF b
  <2>2. ASSUME NEW q \in DOMAIN b, NEW k \in 1 .. b[q]
        PROVE  \/ q = p /\ k = n
               \/ q \in DOMAIN a /\ k \in 1 .. a[q]
    <3>1. CASE q = p
      <4>1. b[q] = n
        BY <1>b, <3>1
      <4> QED
        BY <4>1, <3>1, <1>c
    <3>2. CASE q # p
      BY <2>1, <1>b, <3>2
    <3> QED
      BY <3>1, <3>2
  <2>3. ASSUME NEW q \in DOMAIN a, NEW k \in 1 .. a[q]
        PROVE  q \in DOMAIN b /\ k \in 1 .. b[q]
    <3>1. a[q] \in Nat \ {0}
      BY <1>c
    <3>2. b[q] = IF q = p THEN n ELSE a[q]
      BY <2>1, <1>b
    <3> QED
      BY <2>1, <3>1, <3>2
  <2>4. p \in DOMAIN b /\ n \in 1 .. b[p]
    BY <2>1, <1>b, <1>c
  <2> QED
    BY <2>2, <2>3, <2>4, MembersAre
<1>3. <<p, n>> \notin Members(a)
  BY DEF IsParticleBag, IsABag, Members
<1> QED
  BY <1>1, <1>2, <1>3, FS_AddElement DEF IsParticleBag, count_members

(* The empty bag has no members. *)
LEMMA NoParticles == IsParticleBag(EmptyBag) /\ count_members(EmptyBag) = 0
<1>1. EmptyBag = << >> /\ DOMAIN EmptyBag = {} /\ IsABag(EmptyBag)
  BY DEF EmptyBag, SetToBag, IsABag
<1>2. Members(EmptyBag) = {}
  BY <1>1 DEF Members
<1> QED
  BY <1>1, <1>2, FS_EmptySet DEF IsParticleBag, count_members

(* Resampling a set of states gives a bag of as many of its states. *)
LEMMA Resampled ==
  ASSUME NEW S, S \subseteq State, IsFiniteSet(S), NEW b \in Resamplings(S)
  PROVE  /\ EmptyBag (+) b = b
         /\ IsParticleBag(b)
         /\ DOMAIN b \subseteq S
         /\ count_members(b) = Cardinality(S)
<1>1. PICK D \in SUBSET S : b \in [D -> 1 .. Cardinality(S)]
  BY DEF Resamplings
<1>2. Cardinality(S) \in Nat
  BY FS_CardinalityType
<1>3. IsABag(b) /\ DOMAIN b = D
  BY <1>1, <1>2 DEF IsABag
<1>4. DOMAIN EmptyBag = {}
  BY DEF EmptyBag, SetToBag
<1>5. EmptyBag (+) b = b
  BY <1>1, <1>2, <1>4 DEF (+)
<1>6. Members(b) \subseteq S \X (1 .. Cardinality(S))
  BY <1>1, <1>2 DEF Members
<1>7. IsFiniteSet(1 .. Cardinality(S))
  BY <1>2, FS_Interval
<1>8. IsFiniteSet(S \X (1 .. Cardinality(S)))
  BY <1>7, FS_Product
<1>9. IsFiniteSet(Members(b))
  BY <1>6, <1>8, FS_Subset
<1> QED
  BY <1>1, <1>3, <1>5, <1>9 DEF IsParticleBag, Resamplings

-----------------------------------------------------------------------------
(* Messages *)

(* What a message of the general purpose channel carries. *)
LEMMA GpContents ==
  ASSUME NEW m \in GpMessage
  PROVE  /\ m.type \in {"weight", "ack", "deleted"} => m.state \in State
         /\ m.type \in {"delete", "prefetch"} => m.cached \subseteq State
         /\ m.type = "pull" => m.states \subseteq State
BY DEF GpMessage, Idle, Empty

(* Messages that are put on the general purpose channel have its type. *)
LEMMA GpBuilt ==
  /\ Idle \in GpMessage /\ Empty \in GpMessage
  /\ \A s \in State : /\ WeightMsg(s) \in GpMessage
                       /\ Ack(s) \in GpMessage
                       /\ DeleteReply(s) \in GpMessage
  /\ \A S \in SUBSET State : /\ DeleteMsg(S) \in GpMessage
                              /\ PrefetchMsg(S) \in GpMessage
                              /\ PullReply(S) \in GpMessage
BY DEF GpMessage, Idle, Empty, WeightMsg, Ack, DeleteReply, DeleteMsg,
       PrefetchMsg, PullReply

(* What a job reply carries. *)
LEMMA JobContents ==
  ASSUME NEW m \in JobMessage, m.type = "job"
  PROVE  m.job \in Job /\ m.parent \in State
BY DEF JobMessage, Idle, JobRequest, NoJob

(* Messages that are put on the job channel have its type. *)
LEMMA JobBuilt ==
  /\ Idle \in JobMessage /\ JobRequest \in JobMessage /\ NoJob \in JobMessage
  /\ \A j \in Job, p \in State : JobReply(j, p, WarmupNSteps) \in JobMessage
BY BoundsAssumption DEF JobMessage, Idle, JobRequest, NoJob, JobReply

(* A job names the state it will produce; base states are states. *)
LEMMA JobsAreStates == Job \subseteq State /\ \A r \in Runners : BaseState(r) \in State
BY DEF Job, State, BaseState

-----------------------------------------------------------------------------
(* Parents *)

(* A parent that is chosen for a runner is a state; it waits in alpha, or   *)
(* it is the runner's base state, which then has still to be added.         *)
LEMMA ChosenParent ==
  ASSUME IsParticleBag(alpha), NEW r \in Runners, NEW last, NEW cached,
         NEW p \in ParentChoices(r, last, cached), p # None
  PROVE  /\ p \in State
         /\ p \in DOMAIN alpha \/ (assimilation_cycle = 1
                                  /\ last[r] \notin DOMAIN alpha)
         /\ p \in DOMAIN Offered(p, last[r])
         /\ IsParticleBag(Offered(p, last[r]))
         /\ assimilation_cycle # 1 => Offered(p, last[r]) = alpha
<1>1. DOMAIN alpha \subseteq State
  BY DEF IsParticleBag
<1>2. CASE last[r] \in DOMAIN alpha
  BY <1>1, <1>2 DEF ParentChoices, Offered
<1>3. CASE last[r] \notin DOMAIN alpha /\ assimilation_cycle = 1
  <2>1. p = BaseState(r)
    BY <1>3 DEF ParentChoices, select_good_new_parent
  <2>2. p \in State
    BY <2>1, JobsAreStates
  <2>3. Offered(p, last[r]) = alpha (+) One(p)
    BY <1>3 DEF Offered
  <2>4. /\ IsParticleBag(alpha (+) One(p))
        /\ DOMAIN (alpha (+) One(p)) = DOMAIN alpha \cup {p}
    BY <2>2, AddedOne
  <2> QED
    BY <1>3, <2>2, <2>3, <2>4
<1>4. CASE last[r] \notin DOMAIN alpha /\ assimilation_cycle # 1
  <2>1. p \in select_good_new_parent(r, Cardinality(DOMAIN last), cached)
    BY <1>4 DEF ParentChoices
  <2>2. p \in DOMAIN alpha
    BY <1>4, <2>1 DEF select_good_new_parent, First
  <2> QED
    BY <1>1, <1>4, <2>2 DEF Offered
<1> QED
  BY <1>2, <1>3, <1>4

(* The weighted states of a cycle are finitely many states. *)
LEMMA WeightedStates ==
  ASSUME NEW W, W \subseteq OrderType, IsFiniteSet(W), NEW t
  PROVE  WeightedIn(W, t) \subseteq Job /\ IsFiniteSet(WeightedIn(W, t))
<1> DEFINE V == {v \in W : v.job.t = t}
           f == [v \in V |-> v.job]
<1>1. IsFiniteSet(V)
  BY FS_Subset
<1>2. f \in Surjection(V, WeightedIn(W, t))
  BY DEF Surjection, WeightedIn
<1>3. IsFiniteSet(WeightedIn(W, t))
  BY <1>1, <1>2, FS_Surjection
<1> QED
  BY <1>3 DEF WeightedIn, OrderType

-----------------------------------------------------------------------------
(* Type correctness of the server *)

(* The update step draws a bag of states of the cycle. *)
LEMMA UpdateTyped ==
  ASSUME ServerTypeOK, NEW W, W \subseteq OrderType, IsFiniteSet(W),
         NEW n \in Nat, maybe_update(n, W), restarts' = restarts
  PROVE  /\ assimilation_cycle' \in Nat \ {0}
         /\ next_job_id' \in Nat
         /\ IsParticleBag(alpha')
         /\ weights_this_cycle' \in Nat
         /\ stealable_jobs' \in Nat
         /\ DOMAIN checkpoint' \subseteq Nat \ {0}
         /\ \A m \in DOMAIN checkpoint' : IsParticleBag(checkpoint'[m])
         /\ status' \in {"up", "stopping", "finished"} \cup Faults
<1>1. CASE ReadyForUpdate(n)
  <2> DEFINE S == WeightedIn(W, assimilation_cycle)
  <2>1. S \subseteq State /\ IsFiniteSet(S)
    BY WeightedStates, JobsAreStates
  <2>2. alpha = EmptyBag /\ do_update_step(W)
    BY <1>1 DEF ReadyForUpdate, maybe_update
  <2>3. PICK drawn \in Resamplings(S) : alpha' = EmptyBag (+) drawn
    BY <2>2 DEF do_update_step
  <2>4. IsParticleBag(alpha')
    BY <2>1, <2>3, Resampled
  <2>5. /\ assimilation_cycle' = assimilation_cycle + 1
        /\ stealable_jobs' = Particles
        /\ next_job_id' = 0
        /\ weights_this_cycle' = 0
        /\ checkpoint' = Put(checkpoint, assimilation_cycle + 1, alpha')
        /\ status' \in {"up", "stopping"}
    BY <2>2 DEF do_update_step, CheckpointNumber
  <2>6. assimilation_cycle \in Nat \ {0}
    BY DEF ServerTypeOK
  <2>7. /\ DOMAIN checkpoint' \subseteq Nat \ {0}
        /\ \A m \in DOMAIN checkpoint' : IsParticleBag(checkpoint'[m])
    BY <2>4, <2>5, <2>6 DEF ServerTypeOK, Put
  <2> QED
    BY <2>4, <2>5, <2>6, <2>7, ParticlesAssumption
<1>2. CASE ~ReadyForUpdate(n)
  BY <1>2 DEF maybe_update, ServerTypeOK
<1> QED
  BY <1>1, <1>2

(* accept_weight keeps the types, whether or not it closes the cycle. *)
LEMMA AcceptWeightTyped ==
  ASSUME TypeOK, NEW r \in Runners, accept_weight(r),
         UNCHANGED <<restarts, runner>>
  PROVE  TypeOK'
<1> DEFINE s == gp[r].state
           known == IF r \in DOMAIN cr THEN cr[r] ELSE {}
<1>0. ServerTypeOK /\ RunnerTypeOK
  BY DEF TypeOK
<1>1. s \in State
  BY <1>0, GpContents DEF RunnerTypeOK, accept_weight
<1>2. /\ cr' = Put(cr, r, known \cup {s})
      /\ gp' = [gp EXCEPT ![r] = Ack(s)]
      /\ UNCHANGED <<scheduled_jobs, runners_last, faulty_runners, jobs>>
  BY DEF accept_weight
<1>3. /\ DOMAIN cr' \subseteq Runners
      /\ \A q \in DOMAIN cr' : cr'[q] \subseteq State
  BY <1>0, <1>1, <1>2 DEF ServerTypeOK, Put
<1>4. RunnerTypeOK'
  BY <1>0, <1>1, <1>2, GpBuilt DEF RunnerTypeOK, runner
<1>5. /\ due_dates' \subseteq DueDate /\ IsFiniteSet(due_dates')
      /\ state_weights' \subseteq OrderType /\ IsFiniteSet(state_weights')
  <2>1. CASE UNCHANGED <<due_dates, state_weights>>
    BY <1>0, <2>1 DEF ServerTypeOK
  <2>2. ASSUME NEW d \in DueDatesOf(r), d.job = s,
               due_dates' = WithoutDueDate(r, s),
               state_weights' = state_weights \cup {Order(s, d.parent)}
        PROVE  <1>5
    <3>1. Order(s, d.parent) \in OrderType
      BY <1>0, <2>2 DEF ServerTypeOK, DueDatesOf, DueDate, OrderType, Order
    <3>2. due_dates' \subseteq due_dates
      BY <2>2 DEF WithoutDueDate
    <3> QED
      BY <1>0, <2>2, <3>1, <3>2, FS_Subset, FS_AddElement DEF ServerTypeOK
  <2> QED
    BY <2>1, <2>2 DEF accept_weight
<1>6. PICK n \in Nat : maybe_update(n, state_weights')
  BY <1>0 DEF accept_weight, ServerTypeOK
<1> QED
  BY <1>0, <1>2, <1>3, <1>4, <1>5, <1>6, UpdateTyped DEF ServerTypeOK, TypeOK

(* accept_delete keeps the types. *)
LEMMA AcceptDeleteTyped ==
  ASSUME TypeOK, NEW r \in Runners, accept_delete(r),
         UNCHANGED <<restarts, runner>>
  PROVE  TypeOK'
<1>0. ServerTypeOK /\ RunnerTypeOK
  BY DEF TypeOK
<1>1. gp[r].cached \subseteq State
  BY <1>0, GpContents DEF RunnerTypeOK, accept_delete
<1>2. PICK s \in DeleteChoices(gp[r].cached \ Blacklist(r, gp[r].cached)) :
        /\ cr' = CacheAfterDelete(r, gp[r].cached, s)
        /\ gp' = [gp EXCEPT ![r] = DeleteReply(s)]
  BY DEF accept_delete
<1>3. s \in State
  BY <1>1, <1>2 DEF DeleteChoices, First
<1>4. /\ DOMAIN cr' \subseteq Runners
      /\ \A q \in DOMAIN cr' : cr'[q] \subseteq State
  BY <1>0, <1>1, <1>2 DEF ServerTypeOK, CacheAfterDelete, Put, Del
<1>5. RunnerTypeOK'
  BY <1>0, <1>2, <1>3, GpBuilt DEF RunnerTypeOK, runner, accept_delete
<1>6. ServerTypeOK'
  BY <1>0, <1>4 DEF ServerTypeOK, accept_delete
<1> QED
  BY <1>5, <1>6 DEF TypeOK

(* accept_prefetch keeps the types, whether or not it reserves a job. *)
LEMMA AcceptPrefetchTyped ==
  ASSUME TypeOK, NEW r \in Runners, accept_prefetch(r),
         UNCHANGED <<restarts, runner>>
  PROVE  TypeOK'
<1> DEFINE cached == gp[r].cached
<1>0. ServerTypeOK /\ RunnerTypeOK
  BY DEF TypeOK
<1>1. cached \subseteq State
  BY <1>0, GpContents DEF RunnerTypeOK, accept_prefetch
<1>2. cr' = Put(cr, r, cached)
  BY DEF accept_prefetch
<1>3. /\ DOMAIN cr' \subseteq Runners
      /\ \A q \in DOMAIN cr' : cr'[q] \subseteq State
  BY <1>0, <1>1, <1>2 DEF ServerTypeOK, Put
<1>4. /\ DOMAIN scheduled_jobs' \subseteq Runners
      /\ \A q \in DOMAIN scheduled_jobs' : scheduled_jobs'[q] \in OrderType
      /\ IsParticleBag(alpha')
      /\ due_dates' \subseteq DueDate /\ IsFiniteSet(due_dates')
      /\ next_job_id' \in Nat
  <2>1. CASE UNCHANGED <<scheduled_jobs, alpha, due_dates, next_job_id>>
    BY <1>0, <2>1 DEF ServerTypeOK
  <2>2. ASSUME Prefetches(r),
               NEW p \in ParentChoices(r, runners_last, cached) \ {None},
               scheduled_jobs' = Put(scheduled_jobs, r, Order(generate_job_id, p)),
               alpha' = Taken(alpha, p),
               due_dates' = due_dates \cup {Due(r, generate_job_id, p)},
               next_job_id' = next_job_id + 1
        PROVE  <1>4
    <3>1. p \in State /\ p \in DOMAIN alpha
      BY <1>0, <2>2, ChosenParent DEF ServerTypeOK, Prefetches
    <3>2. generate_job_id \in Job
      BY <1>0 DEF ServerTypeOK, generate_job_id, Job
    <3>3. IsParticleBag(alpha')
      BY <1>0, <2>2, <3>1, TakenOne DEF ServerTypeOK
    <3>4. IsFiniteSet(due_dates')
      BY <1>0, <2>2, FS_AddElement DEF ServerTypeOK
    <3>5. due_dates' \subseteq DueDate
      BY <1>0, <2>2, <3>1, <3>2 DEF ServerTypeOK, DueDate, Due
    <3>6. /\ DOMAIN scheduled_jobs' \subseteq Runners
          /\ \A q \in DOMAIN scheduled_jobs' : scheduled_jobs'[q] \in OrderType
      BY <1>0, <2>2, <3>1, <3>2 DEF ServerTypeOK, Put, Order, OrderType
    <3> QED
      BY <1>0, <2>2, <3>3, <3>4, <3>5, <3>6 DEF ServerTypeOK
  <2> QED
    BY <2>1, <2>2 DEF accept_prefetch
<1>5. PICK S : S \subseteq State /\ gp' = [gp EXCEPT ![r] = PullReply(S)]
  BY <1>4 DEF accept_prefetch, OrderType
<1>6. RunnerTypeOK'
  BY <1>0, <1>5, GpBuilt DEF RunnerTypeOK, runner, accept_prefetch
<1>7. ServerTypeOK'
  BY <1>0, <1>3, <1>4 DEF ServerTypeOK, accept_prefetch
<1> QED
  BY <1>6, <1>7 DEF TypeOK

(* Handing out a job for a parent that is a state keeps the types. *)
LEMMA GiveJobTyped ==
  ASSUME TypeOK, NEW r \in Runners, NEW p \in State, stealable_jobs > 0,
         NEW kept \in SUBSET due_dates, GiveJob(r, p, kept),
         UNCHANGED <<restarts, runner>>, IsParticleBag(alpha'),
         DOMAIN scheduled_jobs' \subseteq DOMAIN scheduled_jobs,
         \A q \in DOMAIN scheduled_jobs' : scheduled_jobs'[q] = scheduled_jobs[q]
  PROVE  TypeOK'
<1>0. ServerTypeOK /\ RunnerTypeOK
  BY DEF TypeOK
<1>1. generate_job_id \in Job
  BY <1>0 DEF ServerTypeOK, generate_job_id, Job
<1>2. due_dates' \subseteq DueDate /\ IsFiniteSet(due_dates')
  <2>1. due_dates' = kept \cup {Due(r, generate_job_id, p)}
    BY DEF GiveJob
  <2>2. IsFiniteSet(kept)
    BY <1>0, FS_Subset DEF ServerTypeOK
  <2>3. IsFiniteSet(due_dates')
    BY <2>1, <2>2, FS_AddElement
  <2> QED
    BY <1>0, <1>1, <2>1, <2>3 DEF ServerTypeOK, DueDate, Due
<1>3. /\ DOMAIN runners_last' \subseteq Runners
      /\ \A q \in DOMAIN runners_last' : runners_last'[q] \in State \cup {None}
  BY <1>0 DEF ServerTypeOK, GiveJob, Put, Registered
<1>4. RunnerTypeOK'
  <2>1. JobReply(generate_job_id, p, WarmupNSteps) \in JobMessage
    BY <1>1, JobBuilt
  <2> QED
    BY <1>0, <2>1 DEF RunnerTypeOK, runner, GiveJob
<1>5. stealable_jobs' \in Nat /\ next_job_id' \in Nat
  BY <1>0 DEF ServerTypeOK, GiveJob
<1>6. /\ DOMAIN scheduled_jobs' \subseteq Runners
      /\ \A q \in DOMAIN scheduled_jobs' : scheduled_jobs'[q] \in OrderType
  BY <1>0 DEF ServerTypeOK
<1>7. ServerTypeOK'
  BY <1>0, <1>2, <1>3, <1>5, <1>6 DEF ServerTypeOK, GiveJob
<1> QED
  BY <1>4, <1>7 DEF TypeOK

(* The job socket's handler keeps the types, in each of its outcomes. *)
LEMMA HandleJobRequestsTyped ==
  ASSUME TypeOK, NEW r \in Runners, handle_job_requests(r),
         UNCHANGED <<restarts, runner>>
  PROVE  TypeOK'
<1>0. ServerTypeOK /\ RunnerTypeOK
  BY DEF TypeOK
<1>1. CASE give_scheduled_job(r)
  <2> DEFINE order == scheduled_jobs[r]
  <2>1. /\ stealable_jobs > 0
        /\ r \in DOMAIN scheduled_jobs
        /\ scheduled_jobs' = Del(scheduled_jobs, r)
        /\ alpha' = alpha
        /\ GiveJob(r, order.parent, WithoutDueDate(r, order.job))
    BY <1>1 DEF give_scheduled_job, AsksForJob, RemoveFromAlpha
  <2>2. order.parent \in State
    BY <1>0, <2>1 DEF ServerTypeOK, OrderType
  <2>3. WithoutDueDate(r, order.job) \in SUBSET due_dates
    BY DEF WithoutDueDate
  <2>4. /\ DOMAIN scheduled_jobs' \subseteq DOMAIN scheduled_jobs
        /\ \A q \in DOMAIN scheduled_jobs' : scheduled_jobs'[q] = scheduled_jobs[q]
    BY <2>1 DEF Del
  <2>5. IsParticleBag(alpha')
    BY <1>0, <2>1 DEF ServerTypeOK
  <2> QED
    BY <2>1, <2>2, <2>3, <2>4, <2>5, GiveJobTyped
<1>2. CASE give_new_job(r)
  <2> DEFINE last == Registered(r)
  <2>1. PICK p \in ParentChoices(r, last, CachedBy(r)) \ {None} :
          /\ alpha' = RemoveFromAlpha(r, p, Offered(p, last[r]))
          /\ GiveJob(r, p, due_dates)
    BY <1>2 DEF give_new_job
  <2>2. /\ stealable_jobs > 0
        /\ scheduled_jobs' = scheduled_jobs
        /\ alpha' = Taken(Offered(p, last[r]), p)
    BY <1>2, <2>1 DEF give_new_job, AsksForJob, RemoveFromAlpha
  <2> HIDE DEF last
  <2>3. /\ p \in State
        /\ p \in DOMAIN Offered(p, last[r])
        /\ IsParticleBag(Offered(p, last[r]))
    BY <1>0, <2>1, ChosenParent DEF ServerTypeOK
  <2>4. IsParticleBag(alpha')
    BY <2>2, <2>3, TakenOne
  <2> QED
    BY <2>1, <2>2, <2>3, <2>4, GiveJobTyped
<1>3. CASE give_no_job(r)
  <2>1. RunnerTypeOK'
    BY <1>0, <1>3, JobBuilt DEF RunnerTypeOK, runner, give_no_job
  <2>2. ServerTypeOK'
    BY <1>0, <1>3 DEF ServerTypeOK, give_no_job, Registered, Put
  <2> QED
    BY <2>1, <2>2 DEF TypeOK
<1> QED
  BY <1>1, <1>2, <1>3 DEF handle_job_requests

(* Dropping a faulty runner's request keeps the types. *)
LEMMA IgnoreFaultyTyped ==
  ASSUME TypeOK, NEW r \in Runners, ignore_faulty(r),
         UNCHANGED <<restarts, runner>>
  PROVE  TypeOK'
<1>0. ServerTypeOK /\ RunnerTypeOK
  BY DEF TypeOK
<1>1. /\ gp' \in [Runners -> GpMessage]
      /\ jobs' \in [Runners -> JobMessage]
  <2>1. ASSUME NEW m \in GpMessage, m.type \in {"weight", "delete", "prefetch"}
        PROVE  EmptyReply(m) \in GpMessage
    BY <2>1, GpContents, GpBuilt DEF EmptyReply
  <2>2. CASE /\ gp[r].type \in {"weight", "delete", "prefetch"}
             /\ gp' = [gp EXCEPT ![r] = EmptyReply(gp[r])]
             /\ UNCHANGED jobs
    BY <1>0, <2>1, <2>2 DEF RunnerTypeOK
  <2>3. CASE UNCHANGED gp /\ jobs' = [jobs EXCEPT ![r] = NoJob]
    BY <1>0, <2>3, JobBuilt DEF RunnerTypeOK
  <2> QED
    BY <2>2, <2>3 DEF ignore_faulty
<1> QED
  BY <1>0, <1>1
  DEF TypeOK, ServerTypeOK, RunnerTypeOK, runner, server, ignore_faulty

(* A handler that fails changes nothing but the status. *)
LEMMA FaultTyped ==
  ASSUME TypeOK, NEW e \in Faults, Fault(e), UNCHANGED <<restarts, runner>>
  PROVE  TypeOK'
BY DEF TypeOK, ServerTypeOK, RunnerTypeOK, runner, channels, Fault

(* Every exception of a handler is one of the faults. *)
LEMMA RaisedAreFaults == \A r \in Runners : Raised(r) \subseteq Faults
BY DEF Raised, Faults, accept_weight_raises, accept_delete_raises,
       accept_prefetch_raises, handle_job_requests_raises

(* An expired due date keeps the types. *)
LEMMA CheckViolationsTyped ==
  ASSUME TypeOK, check_violations, UNCHANGED <<restarts, runner>>
  PROVE  TypeOK'
<1>0. ServerTypeOK /\ RunnerTypeOK
  BY DEF TypeOK
<1>1. PICK d \in due_dates :
        /\ faulty_runners' = faulty_runners \cup {d.runner}
        /\ runners_last' = IF d.runner \in faulty_runners THEN runners_last
                           ELSE Del(runners_last, d.runner)
        /\ scheduled_jobs' = Del(scheduled_jobs, d.runner)
        /\ stealable_jobs' \in {stealable_jobs, stealable_jobs + 1}
        /\ alpha' = alpha (+) One(d.parent)
        /\ due_dates' = due_dates \ {d}
  BY DEF check_violations, ScheduledAfterTimeout, StealableAfterTimeout,
         AlphaAfterTimeout
<1>2. d.runner \in Runners /\ d.parent \in State
  BY <1>0, <1>1 DEF ServerTypeOK, DueDate
<1>3. IsParticleBag(alpha')
  BY <1>0, <1>1, <1>2, AddedOne DEF ServerTypeOK
<1>4. due_dates' \subseteq DueDate /\ IsFiniteSet(due_dates')
  BY <1>0, <1>1, FS_RemoveElement DEF ServerTypeOK
<1>5. /\ DOMAIN scheduled_jobs' \subseteq Runners
      /\ \A r \in DOMAIN scheduled_jobs' : scheduled_jobs'[r] \in OrderType
      /\ DOMAIN runners_last' \subseteq Runners
      /\ \A r \in DOMAIN runners_last' : runners_last'[r] \in State \cup {None}
      /\ faulty_runners' \subseteq Runners
      /\ stealable_jobs' \in Nat
  BY <1>0, <1>1, <1>2 DEF ServerTypeOK, Del
<1>6. ServerTypeOK'
  BY <1>0, <1>3, <1>4, <1>5 DEF ServerTypeOK, check_violations
<1>7. RunnerTypeOK'
  BY <1>0 DEF RunnerTypeOK, runner, channels, check_violations
<1> QED
  BY <1>6, <1>7 DEF TypeOK

(* Runners that have not done anything have the types. *)
LEMMA RunnersAtStart ==
  /\ Silent \in [Runners -> GpMessage] /\ Silent \in [Runners -> JobMessage]
  /\ BaseJobs \in [Runners -> [job : State, parent : State \cup {None}]]
  /\ Nothing \in [Runners -> SUBSET State]
  /\ HeadsAtRest \in [Runners -> {AtRest, AfterWeight}
                                 \cup [at : {"fetch"}, state : State]]
<1>1. /\ Silent \in [Runners -> GpMessage]
      /\ Silent \in [Runners -> JobMessage]
  BY GpBuilt, JobBuilt DEF Silent
<1> QED
  BY <1>1, JobsAreStates DEF BaseJobs, Order, Nothing, HeadsAtRest

(* A restart keeps the types: what a checkpoint holds are particles. *)
LEMMA RestartTyped == TypeOK /\ restart => TypeOK'
<1> SUFFICES ASSUME TypeOK, restart
             PROVE  TypeOK'
  OBVIOUS
<1>0. ServerTypeOK /\ RunnerTypeOK
  BY DEF TypeOK
<1>1. restarts' \in Nat
  BY <1>0 DEF ServerTypeOK, restart
<1>2. up' \in [Runners -> {"new", "up", "killed"}]
  BY <1>0 DEF RunnerTypeOK, restart
<1>3. CASE Fault("no_checkpoint")
  <2>1. ServerTypeOK'
    BY <1>0, <1>1, <1>3 DEF ServerTypeOK, Fault, Faults
  <2>2. RunnerTypeOK'
    BY <1>0, <1>2, <1>3, RunnersAtStart DEF RunnerTypeOK, Fault, channels, restart
  <2> QED
    BY <2>1, <2>2 DEF TypeOK
<1>4. ASSUME NEW n \in Nat \ {0}, NEW a, IsParticleBag(a), StartsWith(n, a)
      PROVE  TypeOK'
  <2>1. ServerTypeOK'
    BY <1>0, <1>1, <1>4, ParticlesAssumption, FS_EmptySet DEF ServerTypeOK, StartsWith
  <2>2. RunnerTypeOK'
    BY <1>2, <1>4, RunnersAtStart DEF RunnerTypeOK, StartsWith, restart
  <2> QED
    BY <2>1, <2>2 DEF TypeOK
<1>5. ASSUME is_restart, last_assimilation_cycle \in DOMAIN checkpoint
      PROVE  /\ last_assimilation_cycle \in Nat \ {0}
             /\ IsParticleBag(checkpoint[last_assimilation_cycle])
  BY <1>0, <1>5 DEF ServerTypeOK
<1> QED
  BY <1>3, <1>4, <1>5, NoParticles DEF restart

(* What a runner does leaves the server alone. *)
LEMMA RunnerStepLeavesServer ==
  ASSUME NEW r \in Runners, RunnerStep(r)
  PROVE  UNCHANGED <<server, restarts>>
BY DEF RunnerStep, AppStep, HeadStep, StartRunner, RunnerDies, Load, Expose,
       ReadJob, PushWeight, AskDelete, AskPrefetch, ReadReply, StartFetch,
       FinishFetch

(* What a runner does keeps the types. *)
LEMMA RunnerStepTyped ==
  ASSUME TypeOK, NEW r \in Runners, RunnerStep(r)
  PROVE  TypeOK'
<1>0. ServerTypeOK /\ RunnerTypeOK
  BY DEF TypeOK
<1>1. ServerTypeOK'
  BY <1>0, RunnerStepLeavesServer DEF ServerTypeOK, server
<1> SUFFICES RunnerTypeOK'
  BY <1>1 DEF TypeOK
<1>2. CASE StartRunner(r) \/ RunnerDies(r)
  BY <1>0, <1>2 DEF RunnerTypeOK, channels, StartRunner, RunnerDies
<1>3. CASE Load(r)
  BY <1>0, <1>3 DEF RunnerTypeOK, channels, Load
<1>4. CASE Expose(r)
  BY <1>0, <1>4, JobBuilt DEF RunnerTypeOK, Expose
<1>5. CASE ReadJob(r)
  <2>1. jobs' \in [Runners -> JobMessage]
    BY <1>0, <1>5, JobBuilt DEF RunnerTypeOK, ReadJob
  <2>2. app' \in [Runners -> [job : State, parent : State \cup {None}]]
    BY <1>0, <1>5, JobContents, JobsAreStates DEF RunnerTypeOK, ReadJob, Order
  <2> QED
    BY <1>0, <1>5, <2>1, <2>2 DEF RunnerTypeOK, ReadJob
<1>6. CASE PushWeight(r)
  <2>1. PICK s \in posted[r] : /\ posted' = [posted EXCEPT ![r] = @ \ {s}]
                              /\ gp' = [gp EXCEPT ![r] = WeightMsg(s)]
    BY <1>6 DEF PushWeight
  <2>2. s \in State
    BY <1>0, <2>1 DEF RunnerTypeOK
  <2> QED
    BY <1>0, <1>6, <2>1, <2>2, GpBuilt DEF RunnerTypeOK, PushWeight
<1>7. CASE AskDelete(r) \/ AskPrefetch(r)
  <2>1. held[r] \in SUBSET State
    BY <1>0 DEF RunnerTypeOK
  <2>2. gp' \in [Runners -> GpMessage]
    BY <1>0, <1>7, <2>1, GpBuilt DEF RunnerTypeOK, AskDelete, AskPrefetch
  <2> QED
    BY <1>0, <1>7, <2>2 DEF RunnerTypeOK, runner, AskDelete, AskPrefetch
<1>8. CASE ReadReply(r)
  <2>1. gp' \in [Runners -> GpMessage]
    BY <1>0, <1>8, GpBuilt DEF RunnerTypeOK, ReadReply
  <2>2. gp[r] \in GpMessage
    BY <1>0 DEF RunnerTypeOK
  <2>3. /\ gp[r].type \in {"ack", "deleted"} => gp[r].state \in State
        /\ gp[r].type = "pull" => gp[r].states \subseteq State
    BY <2>2, GpContents
  <2>4. held' \in [Runners -> SUBSET State] /\ pulls' \in [Runners -> SUBSET State]
    <3>1. held[r] \subseteq State /\ pulls[r] \subseteq State
      BY <1>0 DEF RunnerTypeOK
    <3>2. CASE gp[r].type = "ack" /\ held' = [held EXCEPT ![r] = @ \cup {gp[r].state}]
               /\ pulls' = pulls
      BY <1>0, <2>3, <3>1, <3>2 DEF RunnerTypeOK
    <3>3. CASE held' = [held EXCEPT ![r] = @ \ {gp[r].state}] /\ pulls' = pulls
      BY <1>0, <3>1, <3>3 DEF RunnerTypeOK
    <3>4. CASE gp[r].type = "pull" /\ held' = held
               /\ pulls' = [pulls EXCEPT ![r] = @ \cup gp[r].states]
      BY <1>0, <2>3, <3>1, <3>4 DEF RunnerTypeOK
    <3>5. CASE held' = held /\ pulls' = pulls
      BY <1>0, <3>5 DEF RunnerTypeOK
    <3> QED
      BY <1>8, <3>2, <3>3, <3>4, <3>5 DEF ReadReply
  <2> QED
    BY <1>0, <1>8, <2>1, <2>4 DEF RunnerTypeOK, ReadReply
<1>9. CASE StartFetch(r)
  <2>1. \A s \in State : Fetching(s) \in [at : {"fetch"}, state : State]
    BY DEF Fetching
  <2>2. app[r].parent \in State \cup {None} /\ pulls[r] \subseteq State
    BY <1>0 DEF RunnerTypeOK
  <2>3. pulls' \in [Runners -> SUBSET State]
    BY <1>0, <1>9, <2>2 DEF RunnerTypeOK, StartFetch
  <2>4. PICK s : /\ s \in State \/ head' = head
                 /\ head' \in {head, [head EXCEPT ![r] = Fetching(s)]}
    BY <1>9, <2>2 DEF StartFetch
  <2>5. head' \in [Runners -> {AtRest, AfterWeight}
                             \cup [at : {"fetch"}, state : State]]
    BY <1>0, <2>1, <2>4 DEF RunnerTypeOK
  <2> QED
    BY <1>0, <1>9, <2>3, <2>5 DEF RunnerTypeOK, channels, StartFetch
<1>10. CASE FinishFetch(r)
  <2>1. head[r].state \in State
    BY <1>0, <1>10 DEF RunnerTypeOK, FinishFetch, AtRest, AfterWeight
  <2> QED
    BY <1>0, <1>10, <2>1 DEF RunnerTypeOK, channels, FinishFetch
<1> QED
  BY <1>2, <1>3, <1>4, <1>5, <1>6, <1>7, <1>8, <1>9, <1>10
  DEF RunnerStep, AppStep, HeadStep

(* The initial state has the types. *)
LEMMA InitTyped == Init => TypeOK
<1> SUFFICES ASSUME Init
             PROVE  TypeOK
  OBVIOUS
<1>1. ServerTypeOK
  BY NoParticles, ParticlesAssumption, FS_EmptySet DEF Init, ServerTypeOK
<1>2. RunnerTypeOK
  BY RunnersAtStart DEF Init, RunnerTypeOK
<1> QED
  BY <1>1, <1>2 DEF TypeOK

(* Every step keeps the types. *)
LEMMA NextTyped == TypeOK /\ [Next]_vars => TypeOK'
<1> SUFFICES ASSUME TypeOK, [Next]_vars
             PROVE  TypeOK'
  OBVIOUS
<1>1. CASE UNCHANGED vars
  BY <1>1 DEF TypeOK, ServerTypeOK, RunnerTypeOK, vars, server, channels, runner
<1>2. CASE ServerStep
  <2>1. UNCHANGED <<restarts, runner>>
    BY <1>2 DEF ServerStep
  <2>2. CASE stop
    BY <2>1, <2>2 DEF TypeOK, ServerTypeOK, RunnerTypeOK, channels, runner, stop
  <2>3. ASSUME NEW r \in Runners, raises(r)
        PROVE  TypeOK'
    BY <2>1, <2>3, RaisedAreFaults, FaultTyped DEF raises
  <2> QED
    BY <1>2, <2>1, <2>2, <2>3, AcceptWeightTyped, AcceptDeleteTyped,
       AcceptPrefetchTyped, HandleJobRequestsTyped, IgnoreFaultyTyped,
       CheckViolationsTyped
    DEF ServerStep, handle_general_purpose
<1>3. ASSUME NEW r \in Runners, RunnerStep(r)
      PROVE  TypeOK'
  BY <1>3, RunnerStepTyped
<1>4. CASE restart
  BY <1>4, RestartTyped
<1> QED
  BY <1>1, <1>2, <1>3, <1>4 DEF Next

(* The server and its runners stay in their types: no handler leaves a     *)
(* parent that is no state, a bag with a copy that is not there or a       *)
(* counter below zero.                                                     *)
THEOREM TypeCorrect == Spec => []TypeOK
BY InitTyped, NextTyped, PTL DEF Spec

-----------------------------------------------------------------------------
(***************************************************************************)
(* The ledger.  Its first part, Books, speaks of the server alone.  Its    *)
(* second part, Hands, is needed because a weight that arrives for a       *)
(* reserved job would take the due date away that handing the job out      *)
(* relies on: no runner has a reserved job, or any job with a future id.   *)
(***************************************************************************)
Books ==
  /\ JobsConserved
  /\ JobsAreBacked
  /\ ScheduledIsDue
  /\ DueJobsDistinct
  /\ JobIdsFresh
  /\ WeightsCounted
  /\ CheckpointsComplete

Hands == JobsHeldKnown /\ ReservedNotHeld

(* The ledger is the server's books and the jobs that runners hold. *)
LEMMA LedgerParts == Ledger <=> Books /\ Hands
BY DEF Ledger, Books, Hands

(* The sets that are counted are finite. *)
LEMMA Countable ==
  ASSUME ServerTypeOK
  PROVE  /\ IsFiniteSet(DOMAIN scheduled_jobs)
         /\ Cardinality(DOMAIN scheduled_jobs) \in Nat
         /\ Cardinality(due_dates) \in Nat
<1>1. IsFiniteSet(DOMAIN scheduled_jobs)
  BY FS_Subset, RunnersAssumption DEF ServerTypeOK
<1> QED
  BY <1>1, FS_CardinalityType DEF ServerTypeOK

(* The next job id is new to the server and to every runner. *)
LEMMA FreshJob ==
  ASSUME TypeOK, JobIdsFresh, JobsHeldKnown
  PROVE  /\ \A d \in due_dates : d.job # generate_job_id
         /\ \A w \in state_weights : w.job # generate_job_id
         /\ \A r \in Runners : generate_job_id \notin JobsHeld(r)
<1>1. next_job_id \in Nat /\ assimilation_cycle \in Nat
  BY DEF TypeOK, ServerTypeOK
<1>2. generate_job_id.t = assimilation_cycle /\ generate_job_id.id = next_job_id
  BY DEF generate_job_id
<1>3. ~(next_job_id < next_job_id) /\ ~(assimilation_cycle < assimilation_cycle)
  BY <1>1
<1> QED
  BY <1>2, <1>3 DEF JobIdsFresh, JobsHeldKnown

(* The jobs a runner holds are states. *)
LEMMA JobsHeldTyped ==
  ASSUME TypeOK, NEW r \in Runners
  PROVE  JobsHeld(r) \subseteq State
<1>1. gp[r] \in GpMessage /\ jobs[r] \in JobMessage
  BY DEF TypeOK, RunnerTypeOK
<1>2. gp[r].type = "weight" => gp[r].state \in State
  BY <1>1, GpContents
<1>3. jobs[r].type = "job" => jobs[r].job \in State
  BY <1>1, JobContents, JobsAreStates
<1> QED
  BY <1>2, <1>3 DEF TypeOK, RunnerTypeOK, JobsHeld

(* Runners that hold no more jobs than before hold known ones. *)
LEMMA HandsKept ==
  ASSUME TypeOK, Hands,
         \A r \in Runners : JobsHeld(r)' \subseteq JobsHeld(r),
         \/ assimilation_cycle' = assimilation_cycle /\ next_job_id' = next_job_id
         \/ assimilation_cycle' = assimilation_cycle + 1,
         UNCHANGED <<scheduled_jobs, faulty_runners>>
  PROVE  Hands'
<1>1. assimilation_cycle \in Nat /\ DOMAIN scheduled_jobs \subseteq Runners
  BY DEF TypeOK, ServerTypeOK
<1>2. JobsHeldKnown'
  <2> SUFFICES ASSUME NEW r \in Runners, NEW j \in JobsHeld(r)'
               PROVE  \/ j.t < assimilation_cycle'
                      \/ j.t = assimilation_cycle' /\ j.id \in 0 .. next_job_id' - 1
    BY DEF JobsHeldKnown
  <2>1. \/ j.t < assimilation_cycle
        \/ j.t = assimilation_cycle /\ j.id \in 0 .. next_job_id - 1
    BY DEF Hands, JobsHeldKnown
  <2>2. j.t \in Nat
    BY JobsHeldTyped DEF State
  <2> QED
    BY <1>1, <2>1, <2>2
<1>3. ReservedNotHeld'
  BY <1>1 DEF Hands, ReservedNotHeld
<1> QED
  BY <1>2, <1>3 DEF Hands

(***************************************************************************)
(* The ledger at the end of accept_weight, from the ledger as it is before *)
(* maybe_update: n weights are counted and the due date of the weight, if  *)
(* it had one, is gone.                                                    *)
(***************************************************************************)
LEMMA UpdateBalances ==
  ASSUME TypeOK, Books, NEW n \in Nat, maybe_update(n, state_weights'),
         state_weights' \subseteq OrderType, IsFiniteSet(state_weights'),
         due_dates' \subseteq due_dates, scheduled_jobs' = scheduled_jobs,
         ScheduledIsDue',
         n + Cardinality(due_dates') + stealable_jobs
           = Particles + Cardinality(DOMAIN scheduled_jobs),
         \A w \in state_weights' :
           /\ w.job.t <= assimilation_cycle
           /\ w.job.t = assimilation_cycle => w.job.id < next_job_id
           /\ \A d \in due_dates' : d.job # w.job,
         Cardinality(WeightedIn(state_weights', assimilation_cycle)) = n
  PROVE  Books'
<1>0. /\ assimilation_cycle \in Nat \ {0}
      /\ IsFiniteSet(DOMAIN scheduled_jobs)
      /\ Cardinality(DOMAIN scheduled_jobs) \in Nat
  BY Countable DEF TypeOK, ServerTypeOK
<1>1. DueJobsDistinct'
  BY DEF Books, DueJobsDistinct
<1>2. CASE ~ReadyForUpdate(n)
  <2>1. /\ weights_this_cycle' = n
        /\ UNCHANGED <<assimilation_cycle, stealable_jobs, next_job_id, alpha,
                      checkpoint, status>>
    BY <1>2 DEF maybe_update
  <2>2. JobIdsFresh'
    BY <2>1 DEF Books, JobIdsFresh
  <2>3. JobsConserved'
    BY <2>1 DEF JobsConserved
  <2>4. JobsAreBacked'
    BY <2>1 DEF Books, JobsAreBacked
  <2>5. WeightsCounted'
    BY <2>1 DEF WeightsCounted
  <2>6. CheckpointsComplete'
    BY <2>1 DEF Books, CheckpointsComplete
  <2> QED
    BY <1>1, <2>2, <2>3, <2>4, <2>5, <2>6 DEF Books
<1>3. CASE ReadyForUpdate(n)
  <2> DEFINE S == WeightedIn(state_weights', assimilation_cycle)
  <2>1. n = Particles /\ alpha = EmptyBag /\ stealable_jobs = 0
    BY <1>3 DEF ReadyForUpdate
  <2>2. DOMAIN scheduled_jobs = {}
    <3>1. assimilation_cycle # 1 => Cardinality(DOMAIN scheduled_jobs) = 0
      BY <1>0, <2>1, NoParticles DEF Books, JobsAreBacked
    <3> QED
      BY <1>0, <3>1, FS_EmptySet DEF Books, JobsAreBacked
  <2>3. due_dates' = {}
    <3>1. IsFiniteSet(due_dates') /\ Cardinality(due_dates') \in Nat
      BY FS_Subset, FS_CardinalityType DEF TypeOK, ServerTypeOK
    <3>2. Cardinality(due_dates') = 0
      BY <2>1, <2>2, <3>1, FS_EmptySet
    <3> QED
      BY <3>1, <3>2, FS_EmptySet
  <2>4. PICK drawn \in Resamplings(S) : alpha' = EmptyBag (+) drawn
    BY <1>3, <2>1 DEF maybe_update, do_update_step
  <2>5. /\ assimilation_cycle' = assimilation_cycle + 1
        /\ stealable_jobs' = Particles
        /\ weights_this_cycle' = 0
        /\ checkpoint' = Put(checkpoint, assimilation_cycle + 1, alpha')
    BY <1>3 DEF maybe_update, do_update_step, CheckpointNumber
  <2>6. S \subseteq State /\ IsFiniteSet(S)
    BY WeightedStates, JobsAreStates
  <2>7. count_members(alpha') = Particles
    BY <2>1, <2>4, <2>6, Resampled
  <2>8. JobsConserved'
    BY <2>2, <2>3, <2>5, FS_EmptySet, ParticlesAssumption DEF JobsConserved
  <2>9. JobsAreBacked'
    BY <1>0, <2>2, <2>5, <2>7, FS_EmptySet, ParticlesAssumption DEF JobsAreBacked
  <2>10. \A w \in state_weights' : w.job.t \in Nat /\ w.job.t <= assimilation_cycle
    BY DEF OrderType, Job
  <2>11. JobIdsFresh'
    BY <1>0, <2>3, <2>5, <2>10 DEF JobIdsFresh
  <2>12. WeightsCounted'
    <3>1. WeightedIn(state_weights', assimilation_cycle + 1) = {}
      BY <1>0, <2>10 DEF WeightedIn
    <3>2. WeightedIn(state_weights, assimilation_cycle)' = {}
      BY <2>5, <3>1 DEF WeightedIn
    <3> QED
      BY <2>5, <3>2, FS_EmptySet DEF WeightsCounted
  <2>13. CheckpointsComplete'
    BY <1>0, <2>5, <2>7 DEF Books, CheckpointsComplete, Put
  <2> QED
    BY <1>1, <2>8, <2>9, <2>11, <2>12, <2>13 DEF Books
<1> QED
  BY <1>2, <1>3

(* The cycle goes on or is closed. *)
LEMMA UpdateCycle ==
  ASSUME NEW n, NEW W, maybe_update(n, W)
  PROVE  \/ assimilation_cycle' = assimilation_cycle /\ next_job_id' = next_job_id
         \/ assimilation_cycle' = assimilation_cycle + 1
BY DEF maybe_update, do_update_step

(* accept_weight keeps the ledger: a due job becomes a weighted state. *)
LEMMA AcceptWeightBalances ==
  ASSUME TypeOK, Ledger, NEW r \in Runners, accept_weight(r),
         UNCHANGED <<restarts, runner>>
  PROVE  Ledger'
<1> DEFINE s == gp[r].state
<1>0. /\ ServerTypeOK /\ RunnerTypeOK /\ Books /\ Hands
      /\ weights_this_cycle \in Nat
      /\ UNCHANGED <<scheduled_jobs, faulty_runners>>
      /\ s \in JobsHeld(r)
  BY LedgerParts DEF TypeOK, ServerTypeOK, accept_weight, JobsHeld
<1>1. Hands'
  <2>1. gp' = [gp EXCEPT ![r] = Ack(s)] /\ UNCHANGED <<jobs, app, posted>>
    BY DEF accept_weight, runner
  <2>2. \A q \in Runners : JobsHeld(q)' \subseteq JobsHeld(q)
    BY <1>0, <2>1 DEF JobsHeld, Ack, RunnerTypeOK
  <2>3. \/ assimilation_cycle' = assimilation_cycle /\ next_job_id' = next_job_id
        \/ assimilation_cycle' = assimilation_cycle + 1
    BY UpdateCycle DEF accept_weight
  <2> QED
    BY <1>0, <2>2, <2>3, HandsKept
<1> SUFFICES Books'
  BY <1>1 DEF Ledger, Books, Hands
<1>2. CASE UNCHANGED <<due_dates, state_weights>>
           /\ maybe_update(weights_this_cycle, state_weights)
  <2>1. ScheduledIsDue'
    BY <1>0, <1>2 DEF Books, ScheduledIsDue
  <2>2. \A w \in state_weights' :
          /\ w.job.t <= assimilation_cycle
          /\ w.job.t = assimilation_cycle => w.job.id < next_job_id
          /\ \A d \in due_dates' : d.job # w.job
    BY <1>0, <1>2 DEF Books, JobIdsFresh
  <2>3. /\ state_weights' \subseteq OrderType /\ IsFiniteSet(state_weights')
        /\ due_dates' \subseteq due_dates
        /\ maybe_update(weights_this_cycle, state_weights')
    BY <1>0, <1>2 DEF ServerTypeOK
  <2>4. weights_this_cycle + Cardinality(due_dates') + stealable_jobs
          = Particles + Cardinality(DOMAIN scheduled_jobs)
    BY <1>0, <1>2 DEF Books, JobsConserved
  <2>5. Cardinality(WeightedIn(state_weights', assimilation_cycle))
          = weights_this_cycle
    BY <1>0, <1>2 DEF Books, WeightsCounted
  <2> QED
    BY <1>0, <2>1, <2>2, <2>3, <2>4, <2>5, UpdateBalances
<1>3. ASSUME NEW d \in DueDatesOf(r), d.job = s,
             due_dates' = WithoutDueDate(r, s),
             state_weights' = state_weights \cup {Order(s, d.parent)},
             maybe_update(weights_this_cycle + 1, state_weights')
      PROVE  Books'
  <2> DEFINE w == Order(s, d.parent)
  <2>1. d \in due_dates /\ d.runner = r /\ d \in DueDate
    BY <1>0 DEF DueDatesOf, ServerTypeOK
  <2>2. due_dates' = due_dates \ {d}
    BY <1>0, <1>3, <2>1 DEF WithoutDueDate, DueDatesOf, Books, DueJobsDistinct
  <2>3. w \in OrderType /\ w.job = s
    BY <1>3, <2>1 DEF DueDate, OrderType, Order
  <2>4. /\ s.t = assimilation_cycle /\ s.id < next_job_id
        /\ \A v \in state_weights : v.job # s
        /\ \A e \in due_dates \ {d} : e.job # s
    BY <1>0, <1>3, <2>1 DEF Books, JobIdsFresh, DueJobsDistinct
  <2>5. ScheduledIsDue'
    <3> SUFFICES ASSUME NEW q \in DOMAIN scheduled_jobs
                 PROVE  Due(q, scheduled_jobs[q].job, scheduled_jobs[q].parent)
                          \in due_dates \ {d}
      BY <1>0, <2>2 DEF ScheduledIsDue
    <3>1. scheduled_jobs[q].job \notin JobsHeld(q)
      BY <1>0 DEF Hands, ReservedNotHeld
    <3>2. Due(q, scheduled_jobs[q].job, scheduled_jobs[q].parent) # d
      BY <1>0, <1>3, <2>1, <3>1 DEF Due
    <3> QED
      BY <1>0, <3>2 DEF Books, ScheduledIsDue
  <2>6. \A v \in state_weights' :
          /\ v.job.t <= assimilation_cycle
          /\ v.job.t = assimilation_cycle => v.job.id < next_job_id
          /\ \A e \in due_dates' : e.job # v.job
    <3>1. assimilation_cycle \in Nat
      BY <1>0 DEF ServerTypeOK
    <3> QED
      BY <1>0, <1>3, <2>2, <2>3, <2>4, <3>1 DEF Books, JobIdsFresh
  <2>7. state_weights' \subseteq OrderType /\ IsFiniteSet(state_weights')
    BY <1>0, <1>3, <2>3, FS_AddElement DEF ServerTypeOK
  <2>8. (weights_this_cycle + 1) + Cardinality(due_dates') + stealable_jobs
          = Particles + Cardinality(DOMAIN scheduled_jobs)
    <3>1. Cardinality(due_dates') = Cardinality(due_dates) - 1
      BY <1>0, <2>1, <2>2, FS_RemoveElement DEF ServerTypeOK
    <3>2. stealable_jobs \in Nat /\ Cardinality(due_dates) \in Nat
          /\ Cardinality(DOMAIN scheduled_jobs) \in Nat
      BY <1>0, Countable DEF ServerTypeOK
    <3> QED
      BY <1>0, <3>1, <3>2, ParticlesAssumption DEF Books, JobsConserved
  <2>9. Cardinality(WeightedIn(state_weights', assimilation_cycle))
          = weights_this_cycle + 1
    <3> DEFINE S == WeightedIn(state_weights, assimilation_cycle)
    <3>1. WeightedIn(state_weights', assimilation_cycle) = S \cup {s}
      BY <1>3, <2>3, <2>4 DEF WeightedIn
    <3>2. s \notin S
      BY <2>4 DEF WeightedIn
    <3>3. IsFiniteSet(S)
      BY <1>0, WeightedStates DEF ServerTypeOK
    <3>4. Cardinality(S) = weights_this_cycle
      BY <1>0 DEF Books, WeightsCounted
    <3> HIDE DEF S
    <3> QED
      BY <3>1, <3>2, <3>3, <3>4, FS_AddElement
  <2>10. weights_this_cycle + 1 \in Nat /\ due_dates' \subseteq due_dates
    BY <1>0, <2>2
  <2> QED
    BY <1>0, <1>3, <2>5, <2>6, <2>7, <2>8, <2>9, <2>10, UpdateBalances
<1> QED
  BY <1>2, <1>3 DEF accept_weight

(* A step that leaves the books alone keeps them in balance. *)
LEMMA BooksKept ==
  ASSUME Books,
         UNCHANGED <<assimilation_cycle, next_job_id, alpha, scheduled_jobs,
                     due_dates, state_weights, weights_this_cycle,
                     stealable_jobs, checkpoint>>
  PROVE  Books'
BY DEF Books, JobsConserved, JobsAreBacked, ScheduledIsDue, DueJobsDistinct,
       JobIdsFresh, WeightsCounted, CheckpointsComplete

(* accept_delete keeps the ledger. *)
LEMMA AcceptDeleteBalances ==
  ASSUME TypeOK, Ledger, NEW r \in Runners, accept_delete(r),
         UNCHANGED <<restarts, runner>>
  PROVE  Ledger'
<1>0. RunnerTypeOK /\ Books /\ Hands
  BY LedgerParts DEF TypeOK
<1>1. Books'
  BY <1>0, BooksKept DEF accept_delete
<1>2. PICK s : gp' = [gp EXCEPT ![r] = DeleteReply(s)]
  BY DEF accept_delete
<1>3. \A q \in Runners : JobsHeld(q)' \subseteq JobsHeld(q)
  BY <1>0, <1>2 DEF JobsHeld, DeleteReply, RunnerTypeOK, runner, accept_delete
<1>4. Hands'
  BY <1>0, <1>3, HandsKept DEF accept_delete
<1> QED
  BY <1>1, <1>4 DEF Ledger, Books, Hands

(***************************************************************************)
(* A new due date for the next job id: the due dates stay distinct and     *)
(* below the next id.                                                      *)
(***************************************************************************)
LEMMA NewDueDate ==
  ASSUME TypeOK, Ledger, NEW r \in Runners, NEW p \in State,
         NEW kept \in SUBSET due_dates,
         due_dates' = kept \cup {Due(r, generate_job_id, p)},
         next_job_id' = next_job_id + 1,
         UNCHANGED <<assimilation_cycle, state_weights>>
  PROVE  /\ DueJobsDistinct'
         /\ JobIdsFresh'
         /\ IsFiniteSet(kept)
         /\ Cardinality(kept) \in Nat
         /\ Cardinality(due_dates') = Cardinality(kept) + 1
<1> DEFINE new == Due(r, generate_job_id, p)
<1>0. /\ DueJobsDistinct /\ JobIdsFresh /\ JobsHeldKnown
      /\ next_job_id \in Nat /\ assimilation_cycle \in Nat
      /\ due_dates \subseteq DueDate /\ IsFiniteSet(due_dates)
      /\ state_weights \subseteq OrderType
  BY DEF Ledger, TypeOK, ServerTypeOK
<1>1. /\ \A d \in due_dates : d.job # generate_job_id
      /\ \A w \in state_weights : w.job # generate_job_id
  BY <1>0, FreshJob
<1>2. /\ new.job = generate_job_id
      /\ generate_job_id.t = assimilation_cycle
      /\ generate_job_id.id = next_job_id
  BY DEF Due, generate_job_id
<1>3. IsFiniteSet(kept) /\ Cardinality(kept) \in Nat
  BY <1>0, FS_Subset, FS_CardinalityType
<1>4. Cardinality(due_dates') = Cardinality(kept) + 1
  BY <1>1, <1>2, <1>3, FS_AddElement
<1>5. DueJobsDistinct'
  BY <1>0, <1>1, <1>2 DEF DueJobsDistinct
<1>6. JobIdsFresh'
  <2>1. \A d \in due_dates : d.job.t = assimilation_cycle /\ d.job.id < next_job_id'
    BY <1>0 DEF JobIdsFresh, DueDate, Job
  <2>2. \A w \in state_weights :
          /\ w.job.t <= assimilation_cycle
          /\ w.job.t = assimilation_cycle => w.job.id < next_job_id'
    BY <1>0 DEF JobIdsFresh, OrderType, Job
  <2> QED
    BY <1>0, <1>1, <1>2, <2>1, <2>2 DEF JobIdsFresh
<1> QED
  BY <1>3, <1>4, <1>5, <1>6

(* accept_prefetch keeps the ledger: a waiting job is reserved and due. *)
LEMMA AcceptPrefetchBalances ==
  ASSUME TypeOK, Ledger, NEW r \in Runners, accept_prefetch(r),
         UNCHANGED <<restarts, runner>>
  PROVE  Ledger'
<1> DEFINE cached == gp[r].cached
<1>0. ServerTypeOK /\ RunnerTypeOK /\ Books /\ Hands
  BY LedgerParts DEF TypeOK
<1>1. PICK S : gp' = [gp EXCEPT ![r] = PullReply(S)]
  BY DEF accept_prefetch
<1>2. \A q \in Runners : JobsHeld(q)' \subseteq JobsHeld(q)
  BY <1>0, <1>1 DEF JobsHeld, PullReply, RunnerTypeOK, runner, accept_prefetch
<1>3. CASE UNCHANGED <<scheduled_jobs, alpha, due_dates, next_job_id>>
  <2>1. Books'
    BY <1>0, <1>3, BooksKept DEF accept_prefetch
  <2>2. Hands'
    BY <1>0, <1>2, <1>3, HandsKept DEF accept_prefetch
  <2> QED
    BY <2>1, <2>2 DEF Ledger, Books, Hands
<1>4. ASSUME Prefetches(r),
             NEW p \in ParentChoices(r, runners_last, cached) \ {None},
             scheduled_jobs' = Put(scheduled_jobs, r, Order(generate_job_id, p)),
             alpha' = Taken(alpha, p),
             due_dates' = due_dates \cup {Due(r, generate_job_id, p)},
             next_job_id' = next_job_id + 1
      PROVE  Ledger'
  <2>1. p \in State /\ p \in DOMAIN alpha /\ IsParticleBag(alpha)
    BY <1>0, <1>4, ChosenParent DEF ServerTypeOK, Prefetches
  <2>2. UNCHANGED <<assimilation_cycle, state_weights, weights_this_cycle,
                    stealable_jobs, checkpoint, faulty_runners>>
    BY DEF accept_prefetch
  <2>3. /\ DueJobsDistinct' /\ JobIdsFresh'
        /\ Cardinality(due_dates) \in Nat
        /\ Cardinality(due_dates') = Cardinality(due_dates) + 1
    BY <1>4, <2>1, <2>2, NewDueDate
  <2>4. /\ r \notin DOMAIN scheduled_jobs /\ assimilation_cycle > 1
        /\ IsFiniteSet(DOMAIN scheduled_jobs)
        /\ Cardinality(DOMAIN scheduled_jobs) \in Nat
        /\ assimilation_cycle \in Nat /\ stealable_jobs \in Nat
        /\ weights_this_cycle \in Nat
    BY <1>0, <1>4, Countable DEF Prefetches, ServerTypeOK
  <2>5. DOMAIN scheduled_jobs' = DOMAIN scheduled_jobs \cup {r}
    BY <1>4 DEF Put
  <2>6. Cardinality(DOMAIN scheduled_jobs')
          = Cardinality(DOMAIN scheduled_jobs) + 1
    BY <2>4, <2>5, FS_AddElement
  <2>7. JobsConserved'
    BY <1>0, <2>2, <2>3, <2>4, <2>6, ParticlesAssumption DEF Books, JobsConserved
  <2>8. JobsAreBacked'
    <3>1. count_members(alpha') = count_members(alpha) - 1
      BY <1>4, <2>1, TakenOne
    <3>2. count_members(alpha) \in Nat
      BY <2>1, FS_CardinalityType DEF IsParticleBag, count_members
    <3> QED
      BY <1>0, <2>2, <2>4, <2>6, <3>1, <3>2 DEF Books, JobsAreBacked
  <2>9. \A q \in DOMAIN scheduled_jobs' :
          scheduled_jobs'[q] = IF q = r THEN Order(generate_job_id, p)
                               ELSE scheduled_jobs[q]
    BY <1>4 DEF Put
  <2>10. ScheduledIsDue'
    BY <1>0, <1>4, <2>5, <2>9 DEF Books, ScheduledIsDue, Order, Due
  <2>11. WeightsCounted' /\ CheckpointsComplete'
    BY <1>0, <2>2 DEF Books, WeightsCounted, CheckpointsComplete
  <2>12. JobsHeldKnown'
    <3>1. 0 .. next_job_id - 1 \subseteq 0 .. next_job_id' - 1
      BY <1>0, <1>4 DEF ServerTypeOK
    <3> QED
      BY <1>0, <1>2, <2>2, <3>1 DEF Hands, JobsHeldKnown
  <2>13. ReservedNotHeld'
    <3>1. r \notin faulty_runners
      BY DEF accept_prefetch, Heard
    <3>2. generate_job_id \notin JobsHeld(r)
      BY <1>0, FreshJob DEF Books, Hands
    <3>3. DOMAIN scheduled_jobs \subseteq Runners
      BY <1>0 DEF ServerTypeOK
    <3> QED
      BY <1>0, <1>2, <2>2, <2>5, <2>9, <3>1, <3>2, <3>3
      DEF Hands, ReservedNotHeld, Order
  <2> QED
    BY <2>3, <2>7, <2>8, <2>10, <2>11, <2>12, <2>13 DEF Ledger
<1> QED
  BY <1>3, <1>4 DEF accept_prefetch

(***************************************************************************)
(* Handing out a job moves one of the jobs to hand out to the due dates,   *)
(* and puts it in the hands of its runner under an id that is new.         *)
(***************************************************************************)
LEMMA GiveJobHands ==
  ASSUME TypeOK, Ledger, NEW r \in Runners, NEW p \in State,
         NEW kept \in SUBSET due_dates, GiveJob(r, p, kept),
         UNCHANGED <<restarts, runner>>,
         r \notin DOMAIN scheduled_jobs',
         DOMAIN scheduled_jobs' \subseteq DOMAIN scheduled_jobs,
         \A q \in DOMAIN scheduled_jobs' : scheduled_jobs'[q] = scheduled_jobs[q]
  PROVE  Hands'
<1>0. RunnerTypeOK /\ Hands /\ DOMAIN scheduled_jobs \subseteq Runners
      /\ next_job_id \in Nat
  BY LedgerParts DEF TypeOK, ServerTypeOK
<1>1. /\ jobs' = [jobs EXCEPT ![r] = JobReply(generate_job_id, p, WarmupNSteps)]
      /\ next_job_id' = next_job_id + 1
      /\ UNCHANGED <<assimilation_cycle, faulty_runners, gp, app, posted>>
  BY DEF GiveJob, runner
<1>2. JobsHeld(r)' \subseteq JobsHeld(r) \cup {generate_job_id}
  BY <1>0, <1>1 DEF JobsHeld, JobReply, RunnerTypeOK
<1>3. \A q \in Runners \ {r} : JobsHeld(q)' = JobsHeld(q)
  BY <1>0, <1>1 DEF JobsHeld, RunnerTypeOK
<1>4. JobsHeldKnown'
  <2>1. /\ generate_job_id.t = assimilation_cycle
        /\ generate_job_id.id \in 0 .. next_job_id' - 1
    BY <1>0, <1>1 DEF generate_job_id
  <2>2. 0 .. next_job_id - 1 \subseteq 0 .. next_job_id' - 1
    BY <1>0, <1>1
  <2> QED
    BY <1>0, <1>1, <1>2, <1>3, <2>1, <2>2 DEF Hands, JobsHeldKnown
<1>5. ReservedNotHeld'
  BY <1>0, <1>1, <1>3 DEF Hands, ReservedNotHeld
<1> QED
  BY <1>4, <1>5 DEF Hands

(* Handing out a reserved job keeps the ledger. *)
LEMMA GiveScheduledJobBalances ==
  ASSUME TypeOK, Ledger, NEW r \in Runners, give_scheduled_job(r),
         UNCHANGED <<restarts, runner>>
  PROVE  Ledger'
<1> DEFINE order == scheduled_jobs[r]
           kept == WithoutDueDate(r, order.job)
           due == Due(r, order.job, order.parent)
<1>0. ServerTypeOK /\ Books
  BY LedgerParts DEF TypeOK
<1>1. /\ stealable_jobs > 0
      /\ r \in DOMAIN scheduled_jobs
      /\ scheduled_jobs' = Del(scheduled_jobs, r)
      /\ alpha' = alpha
      /\ GiveJob(r, order.parent, kept)
  BY DEF give_scheduled_job, AsksForJob, RemoveFromAlpha
<1>2. order.parent \in State
  BY <1>0, <1>1 DEF ServerTypeOK, OrderType
<1>3. due \in due_dates /\ kept = due_dates \ {due}
  BY <1>0, <1>1 DEF Books, ScheduledIsDue, DueJobsDistinct, WithoutDueDate,
                    DueDatesOf, Due
<1>4. /\ due_dates' = kept \cup {Due(r, generate_job_id, order.parent)}
      /\ next_job_id' = next_job_id + 1
      /\ stealable_jobs' = stealable_jobs - 1
      /\ UNCHANGED <<assimilation_cycle, state_weights, weights_this_cycle,
                    checkpoint>>
  BY <1>1 DEF GiveJob
<1>5. /\ DOMAIN scheduled_jobs' = DOMAIN scheduled_jobs \ {r}
      /\ \A q \in DOMAIN scheduled_jobs' : scheduled_jobs'[q] = scheduled_jobs[q]
  BY <1>1 DEF Del
<1>6. Hands'
  BY <1>1, <1>2, <1>3, <1>5, GiveJobHands
<1>7. /\ DueJobsDistinct' /\ JobIdsFresh'
      /\ Cardinality(kept) \in Nat
      /\ Cardinality(due_dates') = Cardinality(kept) + 1
  BY <1>2, <1>3, <1>4, NewDueDate
<1>8. Cardinality(kept) = Cardinality(due_dates) - 1
  <2> HIDE DEF kept, due
  <2> QED
    BY <1>0, <1>3, FS_RemoveElement DEF ServerTypeOK
<1>9. /\ Cardinality(DOMAIN scheduled_jobs')
           = Cardinality(DOMAIN scheduled_jobs) - 1
      /\ Cardinality(DOMAIN scheduled_jobs) \in Nat
      /\ stealable_jobs \in Nat /\ weights_this_cycle \in Nat
      /\ Cardinality(due_dates) \in Nat
  BY <1>0, <1>1, <1>5, Countable, FS_RemoveElement DEF ServerTypeOK
<1>10. JobsConserved'
  BY <1>0, <1>4, <1>7, <1>8, <1>9, ParticlesAssumption DEF Books, JobsConserved
<1>11. JobsAreBacked'
  <2>1. count_members(alpha) \in Nat
    BY <1>0, FS_CardinalityType DEF ServerTypeOK, IsParticleBag, count_members
  <2> QED
    BY <1>0, <1>1, <1>4, <1>5, <1>9, <2>1 DEF Books, JobsAreBacked
<1>12. ScheduledIsDue'
  BY <1>0, <1>3, <1>4, <1>5 DEF Books, ScheduledIsDue, Due
<1>13. WeightsCounted' /\ CheckpointsComplete'
  BY <1>0, <1>4 DEF Books, WeightsCounted, CheckpointsComplete
<1> QED
  BY <1>6, <1>7, <1>10, <1>11, <1>12, <1>13 DEF Ledger, Hands

(* Handing out a new job keeps the ledger. *)
LEMMA GiveNewJobBalances ==
  ASSUME TypeOK, Ledger, NEW r \in Runners, give_new_job(r),
         UNCHANGED <<restarts, runner>>
  PROVE  Ledger'
<1> DEFINE last == Registered(r)
<1>0. ServerTypeOK /\ Books
  BY LedgerParts DEF TypeOK
<1>1. PICK p \in ParentChoices(r, last, CachedBy(r)) \ {None} :
        /\ alpha' = RemoveFromAlpha(r, p, Offered(p, last[r]))
        /\ GiveJob(r, p, due_dates)
  BY DEF give_new_job
<1>2. /\ stealable_jobs > 0
      /\ r \notin DOMAIN scheduled_jobs
      /\ scheduled_jobs' = scheduled_jobs
      /\ alpha' = Taken(Offered(p, last[r]), p)
  BY <1>1 DEF give_new_job, AsksForJob, RemoveFromAlpha
<1> HIDE DEF last
<1>3. /\ p \in State
      /\ p \in DOMAIN Offered(p, last[r])
      /\ IsParticleBag(Offered(p, last[r]))
      /\ assimilation_cycle # 1 => Offered(p, last[r]) = alpha
  BY <1>0, <1>1, ChosenParent DEF ServerTypeOK
<1>4. /\ due_dates' = due_dates \cup {Due(r, generate_job_id, p)}
      /\ next_job_id' = next_job_id + 1
      /\ stealable_jobs' = stealable_jobs - 1
      /\ UNCHANGED <<assimilation_cycle, state_weights, weights_this_cycle,
                    checkpoint>>
  BY <1>1 DEF GiveJob
<1>5. Hands'
  BY <1>1, <1>2, <1>3, GiveJobHands
<1>6. /\ DueJobsDistinct' /\ JobIdsFresh'
      /\ Cardinality(due_dates) \in Nat
      /\ Cardinality(due_dates') = Cardinality(due_dates) + 1
  BY <1>3, <1>4, NewDueDate
<1>7. /\ Cardinality(DOMAIN scheduled_jobs) \in Nat
      /\ stealable_jobs \in Nat /\ weights_this_cycle \in Nat
  BY <1>0, Countable DEF ServerTypeOK
<1>8. JobsConserved'
  BY <1>0, <1>2, <1>4, <1>6, <1>7, ParticlesAssumption DEF Books, JobsConserved
<1>9. JobsAreBacked'
  <2>1. CASE assimilation_cycle = 1
    BY <1>0, <1>2, <1>4, <2>1 DEF Books, JobsAreBacked
  <2>2. CASE assimilation_cycle # 1
    <3>1. count_members(alpha') = count_members(alpha) - 1
      BY <1>2, <1>3, <2>2, TakenOne
    <3>2. count_members(alpha) \in Nat
      BY <1>0, FS_CardinalityType DEF ServerTypeOK, IsParticleBag, count_members
    <3> QED
      BY <1>0, <1>2, <1>4, <1>7, <2>2, <3>1, <3>2 DEF Books, JobsAreBacked
  <2> QED
    BY <2>1, <2>2
<1>10. ScheduledIsDue'
  BY <1>0, <1>2, <1>4 DEF Books, ScheduledIsDue
<1>11. WeightsCounted' /\ CheckpointsComplete'
  BY <1>0, <1>4 DEF Books, WeightsCounted, CheckpointsComplete
<1> QED
  BY <1>5, <1>6, <1>8, <1>9, <1>10, <1>11 DEF Ledger, Hands

(* An answer without a job keeps the ledger. *)
LEMMA GiveNoJobBalances ==
  ASSUME TypeOK, Ledger, NEW r \in Runners, give_no_job(r),
         UNCHANGED <<restarts, runner>>
  PROVE  Ledger'
<1>0. RunnerTypeOK /\ Books /\ Hands
  BY LedgerParts DEF TypeOK
<1>1. Books'
  BY <1>0, BooksKept DEF give_no_job
<1>2. \A q \in Runners : JobsHeld(q)' \subseteq JobsHeld(q)
  BY <1>0 DEF JobsHeld, NoJob, RunnerTypeOK, runner, give_no_job
<1>3. Hands'
  BY <1>0, <1>2, HandsKept DEF give_no_job
<1> QED
  BY <1>1, <1>3 DEF Ledger, Books, Hands

(* Dropping a faulty runner's request keeps the ledger. *)
LEMMA IgnoreFaultyBalances ==
  ASSUME TypeOK, Ledger, NEW r \in Runners, ignore_faulty(r),
         UNCHANGED <<restarts, runner>>
  PROVE  Ledger'
<1>0. RunnerTypeOK /\ Books /\ Hands
  BY LedgerParts DEF TypeOK
<1>1. UNCHANGED server
  BY DEF ignore_faulty
<1>2. Books'
  BY <1>0, <1>1, BooksKept DEF server
<1>3. \A q \in Runners : JobsHeld(q)' \subseteq JobsHeld(q)
  <2>1. CASE jobs' = [jobs EXCEPT ![r] = NoJob] /\ UNCHANGED gp
    BY <1>0, <2>1 DEF JobsHeld, NoJob, RunnerTypeOK, runner
  <2>2. CASE /\ gp[r].type \in {"weight", "delete", "prefetch"}
             /\ gp' = [gp EXCEPT ![r] = EmptyReply(gp[r])]
             /\ UNCHANGED jobs
    <3>1. EmptyReply(gp[r]).type # "weight"
      BY <2>2 DEF EmptyReply, Ack, Empty, PullReply
    <3> QED
      BY <1>0, <2>2, <3>1 DEF JobsHeld, RunnerTypeOK, runner
  <2> QED
    BY <2>1, <2>2 DEF ignore_faulty
<1>4. Hands'
  BY <1>0, <1>1, <1>3, HandsKept DEF server
<1> QED
  BY <1>2, <1>4 DEF Ledger, Books, Hands

(* Steps after which the books and what runners hold are as before. *)
LEMMA NothingMoves ==
  ASSUME TypeOK, Ledger,
         UNCHANGED <<assimilation_cycle, next_job_id, alpha, scheduled_jobs,
                     due_dates, faulty_runners, state_weights,
                     weights_this_cycle, stealable_jobs, checkpoint>>,
         UNCHANGED <<gp, jobs, app, posted>>
  PROVE  Ledger'
<1>0. Books /\ Hands
  BY LedgerParts
<1>1. Books'
  BY <1>0, BooksKept
<1>2. \A q \in Runners : JobsHeld(q)' \subseteq JobsHeld(q)
  BY DEF JobsHeld
<1>3. Hands'
  BY <1>0, <1>2, HandsKept
<1> QED
  BY <1>1, <1>3 DEF Ledger, Books, Hands

(***************************************************************************)
(* An expired due date goes back to alpha.  If its runner has a job        *)
(* reserved, that is given up instead of adding to the jobs to hand out.   *)
(***************************************************************************)
LEMMA CheckViolationsBalances ==
  ASSUME TypeOK, Ledger, check_violations, UNCHANGED <<restarts, runner>>
  PROVE  Ledger'
<1>0. ServerTypeOK /\ Books /\ Hands
  BY LedgerParts DEF TypeOK
<1>1. PICK d \in due_dates :
        /\ faulty_runners' = faulty_runners \cup {d.runner}
        /\ scheduled_jobs' = Del(scheduled_jobs, d.runner)
        /\ stealable_jobs' = IF d.runner \in DOMAIN scheduled_jobs
                             THEN stealable_jobs ELSE stealable_jobs + 1
        /\ alpha' = alpha (+) One(d.parent)
        /\ due_dates' = due_dates \ {d}
  BY DEF check_violations, ScheduledAfterTimeout, StealableAfterTimeout,
         AlphaAfterTimeout
<1>2. UNCHANGED <<assimilation_cycle, next_job_id, state_weights,
                  weights_this_cycle, checkpoint, gp, jobs, app, posted>>
  BY DEF check_violations, channels, runner
<1>3. d.runner \in Runners /\ d.parent \in State
  BY <1>0, <1>1 DEF ServerTypeOK, DueDate
<1>4. /\ DOMAIN scheduled_jobs' = DOMAIN scheduled_jobs \ {d.runner}
      /\ \A q \in DOMAIN scheduled_jobs' : scheduled_jobs'[q] = scheduled_jobs[q]
  BY <1>1 DEF Del
<1>5. /\ Cardinality(due_dates') = Cardinality(due_dates) - 1
      /\ Cardinality(due_dates) \in Nat
      /\ Cardinality(DOMAIN scheduled_jobs) \in Nat
      /\ Cardinality(DOMAIN scheduled_jobs')
           = IF d.runner \in DOMAIN scheduled_jobs
             THEN Cardinality(DOMAIN scheduled_jobs) - 1
             ELSE Cardinality(DOMAIN scheduled_jobs)
      /\ stealable_jobs \in Nat /\ weights_this_cycle \in Nat
  BY <1>0, <1>1, <1>4, Countable, FS_RemoveElement DEF ServerTypeOK
<1>6. JobsConserved'
  BY <1>0, <1>1, <1>2, <1>5, ParticlesAssumption DEF Books, JobsConserved
<1>7. JobsAreBacked'
  <2>1. CASE assimilation_cycle = 1
    BY <1>0, <1>2, <1>4, <2>1 DEF Books, JobsAreBacked
  <2>2. CASE assimilation_cycle # 1
    <3>1. count_members(alpha') = count_members(alpha) + 1
      BY <1>0, <1>1, <1>3, AddedOne DEF ServerTypeOK
    <3>2. count_members(alpha) \in Nat
      BY <1>0, FS_CardinalityType DEF ServerTypeOK, IsParticleBag, count_members
    <3> QED
      BY <1>0, <1>1, <1>2, <1>5, <2>2, <3>1, <3>2 DEF Books, JobsAreBacked
  <2> QED
    BY <2>1, <2>2
<1>8. ScheduledIsDue'
  BY <1>0, <1>1, <1>4 DEF Books, ScheduledIsDue, Due
<1>9. DueJobsDistinct' /\ JobIdsFresh'
  BY <1>0, <1>1, <1>2 DEF Books, DueJobsDistinct, JobIdsFresh
<1>10. WeightsCounted' /\ CheckpointsComplete'
  BY <1>0, <1>2 DEF Books, WeightsCounted, CheckpointsComplete
<1>11. Hands'
  <2>1. \A q \in Runners : JobsHeld(q)' = JobsHeld(q)
    BY <1>2 DEF JobsHeld
  <2>2. DOMAIN scheduled_jobs \subseteq Runners
    BY <1>0 DEF ServerTypeOK
  <2>3. JobsHeldKnown'
    BY <1>0, <1>2, <2>1 DEF Hands, JobsHeldKnown
  <2>4. ReservedNotHeld'
    BY <1>0, <1>1, <1>4, <2>1, <2>2 DEF Hands, ReservedNotHeld
  <2> QED
    BY <2>3, <2>4 DEF Hands
<1> QED
  BY <1>6, <1>7, <1>8, <1>9, <1>10, <1>11 DEF Ledger, Hands

(* What a runner does keeps the ledger: jobs move, none appears. *)
LEMMA RunnerStepBalances ==
  ASSUME TypeOK, Ledger, NEW r \in Runners, RunnerStep(r)
  PROVE  Ledger'
<1>0. RunnerTypeOK /\ Books /\ Hands
  BY LedgerParts DEF TypeOK
<1>1. UNCHANGED server
  BY RunnerStepLeavesServer
<1>2. Books'
  BY <1>0, <1>1, BooksKept DEF server
<1>3. JobsHeld(r)' \subseteq JobsHeld(r)
  <2>1. CASE StartRunner(r) \/ RunnerDies(r) \/ Load(r)
    BY <1>0, <2>1 DEF JobsHeld, RunnerTypeOK, channels, StartRunner, RunnerDies,
                      Load
  <2>2. CASE Expose(r)
    BY <1>0, <2>2 DEF JobsHeld, RunnerTypeOK, Expose, JobRequest
  <2>3. CASE ReadJob(r)
    BY <1>0, <2>3 DEF JobsHeld, RunnerTypeOK, ReadJob, JobRequest, Idle, Order
  <2>4. CASE PushWeight(r)
    BY <1>0, <2>4 DEF JobsHeld, RunnerTypeOK, PushWeight, WeightMsg
  <2>5. CASE AskDelete(r) \/ AskPrefetch(r)
    BY <1>0, <2>5 DEF JobsHeld, RunnerTypeOK, AskDelete, AskPrefetch, DeleteMsg,
                      PrefetchMsg, runner
  <2>6. CASE ReadReply(r)
    BY <1>0, <2>6 DEF JobsHeld, RunnerTypeOK, ReadReply, Idle
  <2>7. CASE StartFetch(r) \/ FinishFetch(r)
    BY <1>0, <2>7 DEF JobsHeld, channels, StartFetch, FinishFetch
  <2> QED
    BY <2>1, <2>2, <2>3, <2>4, <2>5, <2>6, <2>7 DEF RunnerStep, AppStep, HeadStep
<1>4. \A q \in Runners \ {r} : JobsHeld(q)' = JobsHeld(q)
  <2>1. \A q \in Runners \ {r} :
          /\ gp'[q] = gp[q] /\ jobs'[q] = jobs[q]
          /\ app'[q] = app[q] /\ posted'[q] = posted[q]
    BY <1>0 DEF RunnerTypeOK, RunnerStep, AppStep, HeadStep, StartRunner,
                RunnerDies, Load, Expose, ReadJob, PushWeight, AskDelete,
                AskPrefetch, ReadReply, StartFetch, FinishFetch, channels, runner
  <2> QED
    BY <2>1 DEF JobsHeld
<1>5. Hands'
  BY <1>0, <1>1, <1>3, <1>4, HandsKept DEF server
<1> QED
  BY <1>2, <1>5 DEF Ledger, Books, Hands

(* Runners that start hold nothing but their base state. *)
LEMMA StartBalances ==
  ASSUME NEW n \in Nat \ {0}, NEW a, n # 1 => count_members(a) = Particles,
         StartsWith(n, a), CheckpointsComplete,
         app' = BaseJobs, posted' = Nothing
  PROVE  Ledger'
<1>1. /\ due_dates' = {} /\ DOMAIN scheduled_jobs' = {}
      /\ state_weights' = {} /\ weights_this_cycle' = 0
      /\ stealable_jobs' = Particles /\ assimilation_cycle' = n
      /\ alpha' = a /\ checkpoint' = checkpoint
      /\ gp' = Silent /\ jobs' = Silent
  BY DEF StartsWith
<1>2. JobsConserved' /\ JobsAreBacked'
  BY <1>1, FS_EmptySet, ParticlesAssumption DEF JobsConserved, JobsAreBacked
<1>3. ScheduledIsDue' /\ DueJobsDistinct' /\ JobIdsFresh' /\ CheckpointsComplete'
  BY <1>1 DEF ScheduledIsDue, DueJobsDistinct, JobIdsFresh, CheckpointsComplete
<1>4. WeightsCounted'
  <2>1. WeightedIn(state_weights, assimilation_cycle)' = {}
    BY <1>1 DEF WeightedIn
  <2> QED
    BY <1>1, <2>1, FS_EmptySet DEF WeightsCounted
<1>5. \A r \in Runners : JobsHeld(r)' = {BaseState(r)}
  BY <1>1 DEF JobsHeld, BaseJobs, Nothing, Order, Silent, Idle
<1>6. JobsHeldKnown' /\ ReservedNotHeld'
  BY <1>1, <1>5 DEF JobsHeldKnown, ReservedNotHeld, BaseState
<1> QED
  BY <1>2, <1>3, <1>4, <1>6 DEF Ledger

(* A restart opens a balanced ledger, from nothing or a checkpoint. *)
LEMMA RestartBalances == TypeOK /\ Ledger /\ restart => Ledger'
<1> SUFFICES ASSUME TypeOK, Ledger, restart
             PROVE  Ledger'
  OBVIOUS
<1>0. /\ RunnerTypeOK /\ ServerTypeOK /\ Books /\ Hands /\ CheckpointsComplete
      /\ app' = BaseJobs /\ posted' = Nothing
  BY LedgerParts DEF TypeOK, Books, restart
<1>1. CASE Fault("no_checkpoint")
  <2>1. Books'
    BY <1>0, <1>1, BooksKept DEF Fault
  <2>2. \A r \in Runners : JobsHeld(r)' \subseteq JobsHeld(r) \cup {BaseState(r)}
    BY <1>0, <1>1 DEF JobsHeld, BaseJobs, Nothing, Order, Fault, channels
  <2>3. JobsHeldKnown'
    <3>1. \A r \in Runners : BaseState(r).t < assimilation_cycle
      BY <1>0 DEF BaseState, ServerTypeOK
    <3> QED
      BY <1>0, <1>1, <2>2, <3>1 DEF Hands, JobsHeldKnown, Fault
  <2>4. ReservedNotHeld'
    <3>1. \A r \in DOMAIN scheduled_jobs :
            r \in Runners /\ scheduled_jobs[r].job # BaseState(r)
      BY <1>0 DEF ServerTypeOK, OrderType, Job, BaseState
    <3> QED
      BY <1>0, <1>1, <2>2, <3>1 DEF Hands, ReservedNotHeld, Fault
  <2> QED
    BY <2>1, <2>3, <2>4 DEF Ledger, Books, Hands
<1>2. CASE StartsWith(1, EmptyBag)
  BY <1>0, <1>2, StartBalances
<1>3. CASE /\ last_assimilation_cycle \in DOMAIN checkpoint
           /\ StartsWith(last_assimilation_cycle,
                         checkpoint[last_assimilation_cycle])
  <2>1. /\ last_assimilation_cycle \in Nat \ {0}
        /\ count_members(checkpoint[last_assimilation_cycle]) = Particles
    BY <1>0, <1>3 DEF ServerTypeOK, CheckpointsComplete
  <2> QED
    BY <1>0, <1>3, <2>1, StartBalances
<1> QED
  BY <1>1, <1>2, <1>3 DEF restart

(* The ledger is balanced at the start. *)
LEMMA InitBalances == Init => Ledger
<1> SUFFICES ASSUME Init
             PROVE  Ledger
  OBVIOUS
<1>1. /\ due_dates = {} /\ DOMAIN scheduled_jobs = {}
      /\ state_weights = {} /\ weights_this_cycle = 0
      /\ stealable_jobs = Particles /\ assimilation_cycle = 1
      /\ DOMAIN checkpoint = {} /\ gp = Silent /\ jobs = Silent
      /\ app = BaseJobs /\ posted = Nothing
  BY DEF Init
<1>2. JobsConserved /\ JobsAreBacked
  BY <1>1, FS_EmptySet, ParticlesAssumption DEF JobsConserved, JobsAreBacked
<1>3. ScheduledIsDue /\ DueJobsDistinct /\ JobIdsFresh /\ CheckpointsComplete
  BY <1>1 DEF ScheduledIsDue, DueJobsDistinct, JobIdsFresh, CheckpointsComplete
<1>4. WeightsCounted
  <2>1. WeightedIn(state_weights, assimilation_cycle) = {}
    BY <1>1 DEF WeightedIn
  <2> QED
    BY <1>1, <2>1, FS_EmptySet DEF WeightsCounted
<1>5. \A r \in Runners : JobsHeld(r) = {BaseState(r)}
  BY <1>1 DEF JobsHeld, BaseJobs, Nothing, Order, Silent, Idle
<1>6. JobsHeldKnown /\ ReservedNotHeld
  BY <1>1, <1>5 DEF JobsHeldKnown, ReservedNotHeld, BaseState
<1> QED
  BY <1>2, <1>3, <1>4, <1>6 DEF Ledger

(* Every step keeps the ledger. *)
LEMMA NextBalances == TypeOK /\ Ledger /\ [Next]_vars => Ledger'
<1> SUFFICES ASSUME TypeOK, Ledger, [Next]_vars
             PROVE  Ledger'
  OBVIOUS
<1>1. CASE UNCHANGED vars
  BY <1>1, NothingMoves DEF vars, server, channels, runner
<1>2. CASE ServerStep
  <2>1. UNCHANGED <<restarts, runner>>
    BY <1>2 DEF ServerStep
  <2>2. CASE stop
    BY <2>1, <2>2, NothingMoves DEF channels, runner, stop
  <2>3. ASSUME NEW r \in Runners, raises(r)
        PROVE  Ledger'
    BY <2>1, <2>3, NothingMoves DEF raises, Fault, channels, runner
  <2>4. ASSUME NEW r \in Runners, handle_job_requests(r)
        PROVE  Ledger'
    BY <2>1, <2>4, GiveScheduledJobBalances, GiveNewJobBalances,
       GiveNoJobBalances DEF handle_job_requests
  <2> QED
    BY <1>2, <2>1, <2>2, <2>3, <2>4, AcceptWeightBalances, AcceptDeleteBalances,
       AcceptPrefetchBalances, IgnoreFaultyBalances, CheckViolationsBalances
    DEF ServerStep, handle_general_purpose
<1>3. ASSUME NEW r \in Runners, RunnerStep(r)
      PROVE  Ledger'
  BY <1>3, RunnerStepBalances
<1>4. CASE restart
  BY <1>4, RestartBalances
<1> QED
  BY <1>1, <1>2, <1>3, <1>4 DEF Next

(* The ledger of the weight server balances in every reachable state, for  *)
(* any number of runners and particles, whatever times out, dies or is     *)
(* restarted, and even if faulty runners are never killed.                 *)
THEOREM LedgerBalances == Spec => []Ledger
<1>1. Init => TypeOK /\ Ledger
  BY InitTyped, InitBalances
<1>2. (TypeOK /\ Ledger) /\ [Next]_vars => (TypeOK /\ Ledger)'
  BY NextTyped, NextBalances
<1> QED
  BY <1>1, <1>2, PTL DEF Spec

(* No particle of a cycle is lost or propagated twice: each is weighted,   *)
(* due or still to be handed out.                                          *)
THEOREM NoJobLost == Spec => []JobsConserved
<1>1. Ledger => JobsConserved
  BY DEF Ledger
<1> QED
  BY <1>1, LedgerBalances, PTL

(* What is still to be handed out is in alpha or reserved, so a runner that *)
(* is let in by stealable_jobs finds a parent.                              *)
THEOREM EveryJobBacked == Spec => []JobsAreBacked
<1>1. Ledger => JobsAreBacked
  BY DEF Ledger
<1> QED
  BY <1>1, LedgerBalances, PTL

(* A reserved job has its due date when it is handed out: the assertion of *)
(* DueDates.remove holds there.                                            *)
THEOREM ReservedJobsDue == Spec => []ScheduledIsDue
<1>1. Ledger => ScheduledIsDue
  BY DEF Ledger
<1> QED
  BY <1>1, LedgerBalances, PTL

-----------------------------------------------------------------------------
(***************************************************************************)
(* The weight server implements the particle filter of ParticleFilter; in  *)
(* particular every parent is propagated as often as it was drawn.         *)
(***************************************************************************)
(* What a bag holds of a parent, and how many due dates it has.            *)
InBag(a, p) == IF p \in DOMAIN a THEN a[p] ELSE 0
OfParent(D, p) == {d \in D : d.parent = p}

(* The copies of a parent whose result is not there yet, and the others.   *)
LeftOf(a, D, p) == InBag(a, p) + Cardinality(OfParent(D, p))
ReturnedOf(W, t, p) == Cardinality(OfParent({w \in W : w.job.t = t}, p))

(* The bag that a function from states to numbers of copies describes. *)
Positive(f) == [p \in {q \in State : f[q] > 0} |-> f[p]]
LeftIn(a, D) == [p \in State |-> LeftOf(a, D, p)]

(* Taking a copy changes the count of its parent alone. *)
LEMMA TakenIs ==
  ASSUME NEW a, IsParticleBag(a), NEW p \in DOMAIN a, NEW q
  PROVE  InBag(Taken(a, p), q) = InBag(a, q) - (IF q = p THEN 1 ELSE 0)
<1>1. \A x \in DOMAIN a : a[x] \in Nat \ {0}
  BY DEF IsParticleBag, IsABag
<1>2. DOMAIN Taken(a, p) = {x \in DOMAIN a : x # p \/ a[p] > 1}
  BY DEF IsParticleBag, IsABag, Taken, One, SetToBag, (-)
<1>3. \A x \in DOMAIN Taken(a, p) : Taken(a, p)[x] = IF x = p THEN a[p] - 1 ELSE a[x]
  BY DEF IsParticleBag, IsABag, Taken, One, SetToBag, (-)
<1> HIDE DEF Taken
<1> QED
  BY <1>1, <1>2, <1>3 DEF InBag

(* Adding a copy changes the count of its parent alone. *)
LEMMA AddedIs ==
  ASSUME NEW a, IsParticleBag(a), NEW p \in State, NEW q
  PROVE  InBag(a (+) One(p), q) = InBag(a, q) + (IF q = p THEN 1 ELSE 0)
<1>1. \A x \in DOMAIN a : a[x] \in Nat \ {0}
  BY DEF IsParticleBag, IsABag
<1> DEFINE b == a (+) One(p)
<1>2. DOMAIN b = DOMAIN a \cup {p}
  BY AddedOne
<1>3. \A x \in DOMAIN b :
        b[x] = IF x = p THEN IF p \in DOMAIN a THEN a[p] + 1 ELSE 1 ELSE a[x]
  BY DEF IsParticleBag, IsABag, One, SetToBag, (+)
<1> HIDE DEF b
<1>4. InBag(b, q) = InBag(a, q) + (IF q = p THEN 1 ELSE 0)
  BY <1>1, <1>2, <1>3 DEF InBag
<1> QED
  BY <1>4 DEF b

(* What a bag holds is counted by naturals, and is positive on its domain. *)
LEMMA BagCounts ==
  ASSUME NEW a, IsParticleBag(a), NEW q
  PROVE  InBag(a, q) \in Nat /\ (q \in DOMAIN a <=> InBag(a, q) > 0)
BY DEF IsParticleBag, IsABag, InBag

(* The due dates of a parent are counted by naturals. *)
LEMMA DueOfParent ==
  ASSUME NEW D, IsFiniteSet(D), NEW q
  PROVE  /\ Cardinality(OfParent(D, q)) \in Nat
         /\ Cardinality(OfParent(D, q)) > 0 <=> \E d \in D : d.parent = q
<1>1. IsFiniteSet(OfParent(D, q))
  BY FS_Subset DEF OfParent
<1>2. Cardinality(OfParent(D, q)) = 0 <=> OfParent(D, q) = {}
  BY <1>1, FS_EmptySet
<1>3. Cardinality(OfParent(D, q)) \in Nat
  BY <1>1, FS_CardinalityType
<1> QED
  BY <1>2, <1>3 DEF OfParent

(* A new due date counts for its parent. *)
LEMMA OneDueMore ==
  ASSUME NEW D, IsFiniteSet(D), NEW d, d \notin D, NEW q
  PROVE  /\ IsFiniteSet(D \cup {d})
         /\ Cardinality(OfParent(D \cup {d}, q))
              = Cardinality(OfParent(D, q)) + (IF q = d.parent THEN 1 ELSE 0)
<1>0. IsFiniteSet(D \cup {d})
  BY FS_AddElement
<1>1. IsFiniteSet(OfParent(D, q)) /\ Cardinality(OfParent(D, q)) \in Nat
  BY FS_Subset, DueOfParent DEF OfParent
<1>2. CASE q = d.parent
  <2>1. OfParent(D \cup {d}, q) = OfParent(D, q) \cup {d} /\ d \notin OfParent(D, q)
    BY <1>2 DEF OfParent
  <2> QED
    BY <1>0, <1>1, <1>2, <2>1, FS_AddElement
<1>3. CASE q # d.parent
  <2>1. OfParent(D \cup {d}, q) = OfParent(D, q)
    BY <1>3 DEF OfParent
  <2> QED
    BY <1>0, <1>1, <1>3, <2>1
<1> QED
  BY <1>2, <1>3

(* A due date that goes no longer counts for its parent. *)
LEMMA OneDueLess ==
  ASSUME NEW D, IsFiniteSet(D), NEW d \in D, NEW q
  PROVE  /\ IsFiniteSet(D \ {d})
         /\ Cardinality(OfParent(D \ {d}, q))
              = Cardinality(OfParent(D, q)) - (IF q = d.parent THEN 1 ELSE 0)
<1> DEFINE E == D \ {d}
<1>1. IsFiniteSet(E) /\ d \notin E
  BY FS_RemoveElement
<1>2. OfParent(E \cup {d}, q) = OfParent(D, q)
  BY DEF OfParent
<1>3. Cardinality(OfParent(E, q)) \in Nat
  BY <1>1, DueOfParent
<1> HIDE DEF E
<1>4. Cardinality(OfParent(E \cup {d}, q))
        = Cardinality(OfParent(E, q)) + (IF q = d.parent THEN 1 ELSE 0)
  BY <1>1, OneDueMore
<1>5. Cardinality(OfParent(E, q))
        = Cardinality(OfParent(D, q)) - (IF q = d.parent THEN 1 ELSE 0)
  BY <1>2, <1>3, <1>4
<1> QED
  BY <1>1, <1>5 DEF E


(* Bag difference takes one copy. *)
LEMMA OnePositiveLess ==
  ASSUME NEW f \in [State -> Nat], NEW g \in [State -> Nat], NEW p \in State,
         \A q \in State : g[q] = f[q] - (IF q = p THEN 1 ELSE 0)
  PROVE  /\ p \in DOMAIN Positive(f)
         /\ Positive(g) = Positive(f) (-) SetToBag({p})
<1>1. f[p] > 0
  OBVIOUS
<1>2. p \in DOMAIN Positive(f)
  BY <1>1 DEF Positive
<1> DEFINE B == [e \in DOMAIN Positive(f) |->
                   IF e \in {p} THEN Positive(f)[e] - 1 ELSE Positive(f)[e]]
<1>3. Positive(f) (-) SetToBag({p}) = [e \in {x \in DOMAIN B : B[x] > 0} |-> B[e]]
  BY DEF (-), SetToBag, Positive
<1>4. {x \in DOMAIN B : B[x] > 0} = {q \in State : g[q] > 0}
  BY DEF Positive
<1>5. \A q \in State : g[q] > 0 => B[q] = g[q]
  BY DEF Positive
<1> HIDE DEF B
<1> QED
  BY <1>2, <1>3, <1>4, <1>5 DEF Positive

(* The bag of what waits or is out, as the positive part of a count. *)
LEMMA TodoIs ==
  ASSUME NEW a, IsParticleBag(a), NEW D, D \subseteq DueDate, IsFiniteSet(D)
  PROVE  /\ LeftIn(a, D) \in [State -> Nat]
         /\ [p \in DOMAIN a \cup {d.parent : d \in D} |-> LeftOf(a, D, p)]
              = Positive(LeftIn(a, D))
<1>3. DOMAIN a \subseteq State /\ \A d \in D : d.parent \in State
  BY DEF IsParticleBag, DueDate
<1>4. \A q \in State :
        /\ LeftOf(a, D, q) \in Nat
        /\ LeftOf(a, D, q) > 0 <=> q \in DOMAIN a \/ \E d \in D : d.parent = q
  <2> TAKE q \in State
  <2> DEFINE n == InBag(a, q)
             m == Cardinality(OfParent(D, q))
  <2>1. n \in Nat /\ (q \in DOMAIN a <=> n > 0)
    BY BagCounts
  <2>2. m \in Nat /\ (m > 0 <=> \E d \in D : d.parent = q)
    BY DueOfParent
  <2>3. LeftOf(a, D, q) = n + m
    BY DEF LeftOf
  <2> HIDE DEF n, m
  <2>4. n + m \in Nat /\ (n + m > 0 <=> n > 0 \/ m > 0)
    BY <2>1, <2>2
  <2> QED
    BY <2>1, <2>2, <2>3, <2>4
<1>5. LeftIn(a, D) = [p \in State |-> LeftOf(a, D, p)]
  BY DEF LeftIn
<1> HIDE DEF LeftIn, LeftOf
<1>6. /\ LeftIn(a, D) \in [State -> Nat]
      /\ \A q \in State : LeftIn(a, D)[q] = LeftOf(a, D, q)
  BY <1>4, <1>5
<1>7. DOMAIN a \cup {d.parent : d \in D} = {q \in State : LeftIn(a, D)[q] > 0}
  BY <1>3, <1>4, <1>6
<1> QED
  BY <1>6, <1>7 DEF Positive

(* What the abstract filter has to do, in the first cycle and later. *)
LEMMA ToPropagateIs ==
  /\ assimilation_cycle # 1 =>
       ToPropagate = [p \in DOMAIN alpha \cup {d.parent : d \in due_dates} |->
                        LeftOf(alpha, due_dates, p)]
  /\ assimilation_cycle' # 1 =>
       ToPropagate' = [p \in DOMAIN alpha' \cup {d.parent : d \in due_dates'} |->
                         LeftOf(alpha', due_dates', p)]
BY DEF ToPropagate, LeftOf, InBag, OfParent, Waiting, Out

-----------------------------------------------------------------------------
(***************************************************************************)
(* The invariant.                                                          *)
(***************************************************************************)
FinalCycle == IF Cycles = 1 THEN 2 ELSE Cycles

(* Every copy that was drawn waits, is out or is back. *)
CopiesConserved ==
  assimilation_cycle > 1 =>
    /\ assimilation_cycle \in DOMAIN checkpoint
    /\ \A p \in State :
         LeftOf(alpha, due_dates, p) + ReturnedOf(state_weights, assimilation_cycle, p)
           = InBag(checkpoint[assimilation_cycle], p)

(* The update is never put off: only the last weight of a cycle starts it. *)
UpdatesAtOnce == ~ ReadyForUpdate(weights_this_cycle)

(* A restart goes on with the cycle that ran, or with the one before when  *)
(* the study was over.                                                     *)
CyclesInOrder ==
  /\ assimilation_cycle <= FinalCycle
  /\ Over <=> assimilation_cycle = FinalCycle
  /\ \/ DOMAIN checkpoint = 2 .. assimilation_cycle
     \/ /\ assimilation_cycle + 1 = FinalCycle
        /\ Cycles = 1 \/ assimilation_cycle > 1
        /\ DOMAIN checkpoint = 2 .. FinalCycle

Course == CopiesConserved /\ UpdatesAtOnce /\ CyclesInOrder

(* All that is proved of the server, at the end of a step too. *)
Invariants == TypeOK /\ Ledger /\ Course

-----------------------------------------------------------------------------
(***************************************************************************)
(* Steps that move jobs but neither bring a result nor start a cycle.      *)
(***************************************************************************)
WorkKept ==
  /\ UNCHANGED <<assimilation_cycle, state_weights, checkpoint>>
  /\ Over' = Over
  /\ assimilation_cycle = 1 =>
       stealable_jobs' + Cardinality(due_dates') = stealable_jobs + Cardinality(due_dates)
  /\ assimilation_cycle # 1 =>
       \A p \in State : LeftOf(alpha', due_dates', p) = LeftOf(alpha, due_dates, p)
  /\ UpdatesAtOnce'

(* They are no steps of the abstract filter. *)
LEMMA WorkKeptStutters ==
  ASSUME TypeOK, TypeOK', Course, WorkKept
  PROVE  Course' /\ UNCHANGED Filter!vars
<1>1. CopiesConserved'
  BY DEF Course, CopiesConserved, WorkKept, TypeOK, ServerTypeOK
<1>2. CyclesInOrder'
  BY DEF Course, CyclesInOrder, WorkKept
<1>3. ToPropagate' = ToPropagate
  <2>1. CASE assimilation_cycle = 1
    BY <2>1 DEF WorkKept, ToPropagate
  <2>2. CASE assimilation_cycle # 1
    <3>1. LeftIn(alpha', due_dates') = LeftIn(alpha, due_dates)
      BY <2>2 DEF WorkKept, LeftIn
    <3>2. ToPropagate = Positive(LeftIn(alpha, due_dates))
      BY <2>2, ToPropagateIs, TodoIs DEF TypeOK, ServerTypeOK
    <3>3. ToPropagate' = Positive(LeftIn(alpha', due_dates'))
      BY <2>2, ToPropagateIs, TodoIs DEF TypeOK, ServerTypeOK, WorkKept
    <3> QED
      BY <3>1, <3>2, <3>3
  <2> QED
    BY <2>1, <2>2
<1>4. /\ WeightedIn(state_weights, assimilation_cycle)'
           = WeightedIn(state_weights, assimilation_cycle)
      /\ WeightedIn(state_weights, assimilation_cycle - 1)'
           = WeightedIn(state_weights, assimilation_cycle - 1)
  BY DEF WorkKept
<1> QED
  BY <1>1, <1>2, <1>3, <1>4 DEF Course, WorkKept, Filter!vars

(* A step that touches no job. *)
LEMMA NoJobMoved ==
  ASSUME Course, Over' = Over,
         UNCHANGED <<assimilation_cycle, alpha, due_dates, state_weights,
                     weights_this_cycle, stealable_jobs, checkpoint>>
  PROVE  WorkKept
BY DEF WorkKept, Course, UpdatesAtOnce, ReadyForUpdate, LeftOf

(* In the first cycle the books tell how many jobs are left. *)
LEMMA FirstCycleKept ==
  ASSUME TypeOK, TypeOK', Ledger, Ledger', assimilation_cycle = 1,
         UNCHANGED <<assimilation_cycle, weights_this_cycle>>
  PROVE  stealable_jobs' + Cardinality(due_dates') = stealable_jobs + Cardinality(due_dates)
<1>1. /\ weights_this_cycle \in Nat /\ stealable_jobs \in Nat /\ stealable_jobs' \in Nat
      /\ Cardinality(due_dates) \in Nat /\ Cardinality(due_dates') \in Nat
      /\ Particles \in Nat
  BY FS_CardinalityType, ParticlesAssumption DEF TypeOK, ServerTypeOK
<1>2. weights_this_cycle + Cardinality(due_dates) + stealable_jobs = Particles
  <2>1. DOMAIN scheduled_jobs = {}
    BY DEF Ledger, JobsAreBacked
  <2> QED
    BY <1>1, <2>1, FS_EmptySet DEF Ledger, JobsConserved
<1>3. weights_this_cycle + Cardinality(due_dates') + stealable_jobs' = Particles
  <2>1. DOMAIN scheduled_jobs' = {}
    BY DEF Ledger, JobsAreBacked
  <2> QED
    BY <1>1, <2>1, FS_EmptySet DEF Ledger, JobsConserved
<1> QED
  BY <1>1, <1>2, <1>3

(* While a job is out the last weight of the cycle has not come in. *)
LEMMA OutMeansNotReady ==
  ASSUME TypeOK', Ledger', due_dates' # {}
  PROVE  UpdatesAtOnce'
<1> SUFFICES ASSUME weights_this_cycle' = Particles, alpha' = EmptyBag, stealable_jobs' = 0
             PROVE  FALSE
  BY DEF UpdatesAtOnce, ReadyForUpdate
<1>1. /\ Cardinality(due_dates') \in Nat
      /\ Cardinality(due_dates') = 0 <=> due_dates' = {}
      /\ Particles \in Nat
  BY FS_CardinalityType, FS_EmptySet, ParticlesAssumption DEF TypeOK, ServerTypeOK
<1>2. IsFiniteSet(DOMAIN scheduled_jobs')
  BY RunnersAssumption, FS_Subset DEF TypeOK, ServerTypeOK
<1>3. Cardinality(DOMAIN scheduled_jobs') = 0
  <2>1. CASE assimilation_cycle' = 1
    BY <2>1, FS_EmptySet DEF Ledger, JobsAreBacked
  <2>2. CASE assimilation_cycle' # 1
    <3>1. 0 = count_members(alpha') + Cardinality(DOMAIN scheduled_jobs')
      BY <2>2 DEF Ledger, JobsAreBacked
    <3>2. count_members(alpha') = 0
      BY NoParticles
    <3> QED
      BY <1>2, <3>1, <3>2, FS_CardinalityType
  <2> QED
    BY <2>1, <2>2
<1>4. weights_this_cycle' + Cardinality(due_dates') + stealable_jobs' = Particles + 0
  BY <1>3 DEF Ledger, JobsConserved
<1> QED
  BY <1>1, <1>4

(* Reserving a job or handing one out moves a copy from alpha to the due   *)
(* dates.                                                                  *)
LEMMA CopyHandedOut ==
  ASSUME TypeOK, NEW p \in DOMAIN alpha, NEW d, d \notin due_dates, d.parent = p,
         alpha' = Taken(alpha, p), due_dates' = due_dates \cup {d}, NEW q \in State
  PROVE  LeftOf(alpha', due_dates', q) = LeftOf(alpha, due_dates, q)
<1>1. IsParticleBag(alpha) /\ IsFiniteSet(due_dates)
  BY DEF TypeOK, ServerTypeOK
<1>2. InBag(alpha', q) = InBag(alpha, q) - (IF q = p THEN 1 ELSE 0)
  BY <1>1, TakenIs
<1>3. Cardinality(OfParent(due_dates', q))
        = Cardinality(OfParent(due_dates, q)) + (IF q = p THEN 1 ELSE 0)
  BY <1>1, OneDueMore
<1>4. InBag(alpha, q) \in Nat /\ Cardinality(OfParent(due_dates, q)) \in Nat
  BY <1>1, BagCounts, DueOfParent
<1> QED
  BY <1>2, <1>3, <1>4 DEF LeftOf

(* The job that is to be handed out next is not due yet. *)
LEMMA NotDueYet ==
  ASSUME TypeOK, Ledger, NEW r, NEW p
  PROVE  /\ Due(r, generate_job_id, p) \notin due_dates
         /\ Due(r, generate_job_id, p).parent = p
<1>1. \A d \in due_dates : d.job # generate_job_id
  BY FreshJob DEF Ledger
<1> QED
  BY <1>1 DEF Due

(* accept_prefetch, which reserves a job or none. *)
LEMMA AcceptPrefetchKept ==
  ASSUME Invariants, TypeOK', Ledger', NEW r \in Runners, accept_prefetch(r)
  PROVE  WorkKept
<1>1. UNCHANGED <<assimilation_cycle, state_weights, weights_this_cycle,
                  stealable_jobs, checkpoint, status>>
  BY DEF accept_prefetch
<1>2. CASE UNCHANGED <<alpha, due_dates>>
  BY <1>1, <1>2, NoJobMoved DEF Invariants, Over
<1>3. CASE ~ UNCHANGED <<alpha, due_dates>>
  <2>1. PICK p \in ParentChoices(r, runners_last, gp[r].cached) \ {None} :
          /\ Prefetches(r)
          /\ alpha' = Taken(alpha, p)
          /\ due_dates' = due_dates \cup {Due(r, generate_job_id, p)}
    BY <1>3 DEF accept_prefetch
  <2>2. assimilation_cycle # 1
    BY <2>1 DEF Prefetches
  <2>3. p \in DOMAIN alpha
    BY <2>2, ChosenParent DEF Invariants, TypeOK, ServerTypeOK
  <2>4. \A q \in State : LeftOf(alpha', due_dates', q) = LeftOf(alpha, due_dates, q)
    BY <2>1, <2>3, CopyHandedOut, NotDueYet DEF Invariants
  <2>5. UpdatesAtOnce'
    BY <2>1, OutMeansNotReady
  <2> QED
    BY <1>1, <2>2, <2>4, <2>5 DEF WorkKept, Over
<1> QED
  BY <1>2, <1>3

(* Handing out a reserved job replaces one due date by another. *)
LEMMA GiveScheduledJobKept ==
  ASSUME Invariants, TypeOK', Ledger', NEW r \in Runners, give_scheduled_job(r)
  PROVE  WorkKept
<1> DEFINE j == scheduled_jobs[r].job
           p == scheduled_jobs[r].parent
           d == Due(r, j, p)
           new == Due(r, generate_job_id, p)
<1>1. /\ r \in DOMAIN scheduled_jobs
      /\ UNCHANGED <<assimilation_cycle, state_weights, weights_this_cycle,
                     alpha, checkpoint, status>>
      /\ due_dates' = WithoutDueDate(r, j) \cup {new}
  BY DEF give_scheduled_job, GiveJob, RemoveFromAlpha
<1>2. d \in due_dates /\ d.job = j /\ d.parent = p /\ d.runner = r
  BY <1>1 DEF Invariants, Ledger, ScheduledIsDue, Due
<1>3. WithoutDueDate(r, j) = due_dates \ {d}
  BY <1>2 DEF WithoutDueDate, DueDatesOf, Invariants, Ledger, DueJobsDistinct
<1>4. assimilation_cycle # 1
  BY <1>1 DEF Invariants, Ledger, JobsAreBacked
<1>5. new \notin due_dates \ {d} /\ new.parent = p
  BY NotDueYet DEF Invariants
<1>6. IsFiniteSet(due_dates)
  BY DEF Invariants, TypeOK, ServerTypeOK
<1>7. due_dates' = (due_dates \ {d}) \cup {new}
  BY <1>1, <1>3
<1> HIDE DEF j, p, d, new
<1>8. ASSUME NEW q \in State
      PROVE  LeftOf(alpha', due_dates', q) = LeftOf(alpha, due_dates, q)
  <2>1. /\ IsFiniteSet(due_dates \ {d})
        /\ Cardinality(OfParent(due_dates \ {d}, q))
             = Cardinality(OfParent(due_dates, q)) - (IF q = d.parent THEN 1 ELSE 0)
    BY <1>2, <1>6, OneDueLess
  <2>2. Cardinality(OfParent(due_dates', q))
          = Cardinality(OfParent(due_dates \ {d}, q)) + (IF q = new.parent THEN 1 ELSE 0)
    BY <1>5, <1>7, <2>1, OneDueMore
  <2>3. Cardinality(OfParent(due_dates, q)) \in Nat
    BY <1>6, DueOfParent
  <2>4. Cardinality(OfParent(due_dates', q)) = Cardinality(OfParent(due_dates, q))
    BY <1>2, <1>5, <2>1, <2>2, <2>3
  <2> QED
    BY <1>1, <2>4 DEF LeftOf
<1>9. UpdatesAtOnce'
  BY <1>7, OutMeansNotReady
<1> QED
  BY <1>1, <1>4, <1>8, <1>9 DEF WorkKept, Over

(* Handing out a new job. *)
LEMMA GiveNewJobKept ==
  ASSUME Invariants, TypeOK', Ledger', NEW r \in Runners, give_new_job(r)
  PROVE  WorkKept
<1> DEFINE last == Registered(r)
<1>1. PICK p \in ParentChoices(r, last, CachedBy(r)) \ {None} :
        /\ alpha' = RemoveFromAlpha(r, p, Offered(p, last[r]))
        /\ GiveJob(r, p, due_dates)
  BY DEF give_new_job
<1>2. /\ UNCHANGED <<assimilation_cycle, state_weights, weights_this_cycle,
                     checkpoint, status>>
      /\ due_dates' = due_dates \cup {Due(r, generate_job_id, p)}
      /\ r \notin DOMAIN scheduled_jobs
  BY <1>1 DEF give_new_job, GiveJob
<1>3. UpdatesAtOnce'
  BY <1>2, OutMeansNotReady
<1>4. CASE assimilation_cycle = 1
  BY <1>2, <1>3, <1>4, FirstCycleKept DEF WorkKept, Over, Invariants
<1>5. CASE assimilation_cycle # 1
  <2>1. p \in DOMAIN alpha /\ Offered(p, last[r]) = alpha
    BY <1>1, <1>5, ChosenParent DEF Invariants, TypeOK, ServerTypeOK
  <2>2. alpha' = Taken(alpha, p)
    BY <1>1, <1>2, <2>1 DEF RemoveFromAlpha
  <2>3. \A q \in State : LeftOf(alpha', due_dates', q) = LeftOf(alpha, due_dates, q)
    BY <1>2, <2>1, <2>2, CopyHandedOut, NotDueYet DEF Invariants
  <2> QED
    BY <1>2, <1>3, <1>5, <2>3 DEF WorkKept, Over
<1> QED
  BY <1>4, <1>5

(* An expired due date gives its copy back to alpha. *)
LEMMA CheckViolationsKept ==
  ASSUME Invariants, TypeOK', Ledger', check_violations
  PROVE  WorkKept
<1>1. PICK d \in due_dates :
        /\ alpha' = alpha (+) One(d.parent)
        /\ due_dates' = due_dates \ {d}
  BY DEF check_violations, AlphaAfterTimeout
<1>2. UNCHANGED <<assimilation_cycle, state_weights, weights_this_cycle,
                  checkpoint, status>>
  BY DEF check_violations
<1>3. /\ IsParticleBag(alpha) /\ IsFiniteSet(due_dates)
      /\ d.parent \in State
  BY DEF Invariants, TypeOK, ServerTypeOK, DueDate
<1>4. UpdatesAtOnce'
  <2>1. d.parent \in DOMAIN alpha'
    BY <1>1, <1>3, AddedOne
  <2>2. DOMAIN EmptyBag = {}
    BY DEF EmptyBag, SetToBag
  <2> QED
    BY <2>1, <2>2 DEF UpdatesAtOnce, ReadyForUpdate
<1>5. CASE assimilation_cycle = 1
  BY <1>2, <1>4, <1>5, FirstCycleKept DEF WorkKept, Over, Invariants
<1>6. CASE assimilation_cycle # 1
  <2>1. ASSUME NEW q \in State
        PROVE  LeftOf(alpha', due_dates', q) = LeftOf(alpha, due_dates, q)
    <3>1. InBag(alpha', q) = InBag(alpha, q) + (IF q = d.parent THEN 1 ELSE 0)
      BY <1>1, <1>3, AddedIs
    <3>2. Cardinality(OfParent(due_dates', q))
            = Cardinality(OfParent(due_dates, q)) - (IF q = d.parent THEN 1 ELSE 0)
      BY <1>1, <1>3, OneDueLess
    <3>3. InBag(alpha, q) \in Nat /\ Cardinality(OfParent(due_dates, q)) \in Nat
      BY <1>3, BagCounts, DueOfParent
    <3> QED
      BY <3>1, <3>2, <3>3 DEF LeftOf
  <2> QED
    BY <1>2, <1>4, <1>6, <2>1 DEF WorkKept, Over
<1> QED
  BY <1>5, <1>6

-----------------------------------------------------------------------------
(***************************************************************************)
(* A weight.                                                               *)
(***************************************************************************)
(* The result of due date d comes in. *)
ResultIn(d) ==
  /\ d \in due_dates
  /\ due_dates' = due_dates \ {d}
  /\ state_weights' = state_weights \cup {Order(d.job, d.parent)}

(* It is a new result of the current cycle. *)
LEMMA NewResult ==
  ASSUME TypeOK, Ledger, NEW d, ResultIn(d)
  PROVE  /\ d.parent \in State /\ d.job.t = assimilation_cycle
         /\ d.job \notin WeightedIn(state_weights, assimilation_cycle)
         /\ WeightedIn(state_weights', assimilation_cycle)
              = WeightedIn(state_weights, assimilation_cycle) \cup {d.job}
         /\ WeightedIn(state_weights', assimilation_cycle - 1)
              = WeightedIn(state_weights, assimilation_cycle - 1)
<1>1. /\ d.parent \in State /\ d.job.t = assimilation_cycle
      /\ \A w \in state_weights : w.job # d.job
      /\ assimilation_cycle \in Nat
  BY DEF ResultIn, Ledger, JobIdsFresh, TypeOK, ServerTypeOK, DueDate
<1>2. /\ Order(d.job, d.parent).job = d.job
      /\ assimilation_cycle - 1 # assimilation_cycle
  BY <1>1 DEF Order
<1> QED
  BY <1>1, <1>2 DEF ResultIn, WeightedIn

(* Its copy is taken from what is left and added to what is back. *)
LEMMA CopyReturned ==
  ASSUME TypeOK, Ledger, NEW d, ResultIn(d), UNCHANGED alpha, NEW q \in State
  PROVE  /\ LeftOf(alpha', due_dates', q)
              = LeftOf(alpha, due_dates, q) - (IF q = d.parent THEN 1 ELSE 0)
         /\ ReturnedOf(state_weights', assimilation_cycle, q)
              = ReturnedOf(state_weights, assimilation_cycle, q)
                + (IF q = d.parent THEN 1 ELSE 0)
         /\ LeftOf(alpha, due_dates, q) \in Nat
         /\ ReturnedOf(state_weights, assimilation_cycle, q) \in Nat
<1>1. /\ IsParticleBag(alpha) /\ IsFiniteSet(due_dates) /\ IsFiniteSet(state_weights)
      /\ d \in due_dates
  BY DEF TypeOK, ServerTypeOK, ResultIn
<1>2. InBag(alpha, q) \in Nat /\ Cardinality(OfParent(due_dates, q)) \in Nat
  BY <1>1, BagCounts, DueOfParent
<1>3. Cardinality(OfParent(due_dates', q))
        = Cardinality(OfParent(due_dates, q)) - (IF q = d.parent THEN 1 ELSE 0)
  BY <1>1, OneDueLess DEF ResultIn
<1> DEFINE W == {w \in state_weights : w.job.t = assimilation_cycle}
           new == Order(d.job, d.parent)
<1>4. {w \in state_weights' : w.job.t = assimilation_cycle} = W \cup {new}
  BY NewResult DEF ResultIn, Order
<1>5. new \notin W /\ new.parent = d.parent
  BY <1>1 DEF Ledger, JobIdsFresh, Order
<1>6. IsFiniteSet(W)
  BY <1>1, FS_Subset
<1> HIDE DEF W, new
<1>7. /\ Cardinality(OfParent(W \cup {new}, q))
           = Cardinality(OfParent(W, q)) + (IF q = new.parent THEN 1 ELSE 0)
      /\ Cardinality(OfParent(W, q)) \in Nat
  <2>1. new \notin W
    BY <1>5
  <2>2. Cardinality(OfParent(W \cup {new}, q))
          = Cardinality(OfParent(W, q)) + (IF q = new.parent THEN 1 ELSE 0)
    BY <1>6, <2>1, OneDueMore
  <2>3. Cardinality(OfParent(W, q)) \in Nat
    BY <1>6, DueOfParent
  <2> QED
    BY <2>2, <2>3
<1>8. /\ ReturnedOf(state_weights, assimilation_cycle, q) = Cardinality(OfParent(W, q))
      /\ ReturnedOf(state_weights', assimilation_cycle, q)
           = Cardinality(OfParent(W \cup {new}, q))
  BY <1>4 DEF ReturnedOf, W
<1> QED
  BY <1>2, <1>3, <1>5, <1>7, <1>8 DEF LeftOf

(* The bags of the abstract filter are those of the server. *)
LEMMA FilterBags ==
  ASSUME NEW a, NEW b
  PROVE  /\ Filter!(-)(a, b) = a (-) b
         /\ Filter!SetToBag(a) = SetToBag(a)
         /\ Filter!IsABag(a) = IsABag(a)
         /\ Filter!Size(a) = count_members(a)
<1>1. Filter!(-)(a, b) = a (-) b
  BY DEF Filter!(-), (-)
<1>2. Filter!SetToBag(a) = SetToBag(a)
  BY DEF Filter!SetToBag, SetToBag
<1>3. Filter!IsABag(a) = IsABag(a)
  BY DEF Filter!IsABag, IsABag
<1>4. Filter!Size(a) = Filter!Cardinality(Members(a))
  BY DEF Filter!Size, Members
<1>5. \A S : Filter!Cardinality(S) = Cardinality(S)
  BY DEF Filter!Cardinality, Cardinality
<1> QED
  BY <1>1, <1>2, <1>3, <1>4, <1>5 DEF count_members

(* A result that is not the last of its cycle. *)
LEMMA ResultPropagates ==
  ASSUME Invariants, TypeOK', Ledger', status = "up", NEW d, ResultIn(d),
         ~ ReadyForUpdate(weights_this_cycle + 1),
         weights_this_cycle' = weights_this_cycle + 1,
         UNCHANGED <<assimilation_cycle, stealable_jobs, alpha, checkpoint, status>>
  PROVE  Course' /\ Filter!Propagate
<1>1. CopiesConserved'
  <2> SUFFICES ASSUME assimilation_cycle > 1, NEW q \in State
               PROVE  LeftOf(alpha', due_dates', q)
                        + ReturnedOf(state_weights', assimilation_cycle, q)
                      = LeftOf(alpha, due_dates, q)
                        + ReturnedOf(state_weights, assimilation_cycle, q)
    BY DEF Invariants, Course, CopiesConserved
  <2> QED
    BY CopyReturned DEF Invariants
<1>2. UpdatesAtOnce' /\ CyclesInOrder'
  BY DEF UpdatesAtOnce, ReadyForUpdate, CyclesInOrder, Invariants, Course, Over
<1>3. \E p \in DOMAIN ToPropagate : ToPropagate' = ToPropagate (-) SetToBag({p})
  <2>1. CASE assimilation_cycle = 1
    <3> DEFINE n == stealable_jobs + Cardinality(due_dates)
               m == stealable_jobs' + Cardinality(due_dates')
    <3>1. n \in Nat /\ n > 0 /\ m = n - 1
      <4>1. IsFiniteSet(due_dates) /\ stealable_jobs \in Nat
        BY DEF Invariants, TypeOK, ServerTypeOK
      <4>2. Cardinality(due_dates') = Cardinality(due_dates) - 1
        BY <4>1, FS_RemoveElement DEF ResultIn
      <4>3. Cardinality(due_dates) \in Nat /\ Cardinality(due_dates') \in Nat
        BY <4>1, FS_CardinalityType DEF TypeOK, ServerTypeOK
      <4> QED
        BY <4>1, <4>2, <4>3
    <3>2. /\ ToPropagate = [p \in (IF n > 0 THEN {None} ELSE {}) |-> n]
          /\ ToPropagate' = [p \in (IF m > 0 THEN {None} ELSE {}) |-> m]
      BY <2>1 DEF ToPropagate
    <3> HIDE DEF n, m
    <3>3. ToPropagate' = ToPropagate (-) SetToBag({None})
      BY <3>1, <3>2 DEF (-), SetToBag
    <3> QED
      BY <3>1, <3>2, <3>3
  <2>2. CASE assimilation_cycle # 1
    <3> DEFINE f == LeftIn(alpha, due_dates)
               g == LeftIn(alpha', due_dates')
    <3>1. ToPropagate = Positive(f) /\ f \in [State -> Nat]
      BY <2>2, ToPropagateIs, TodoIs DEF Invariants, TypeOK, ServerTypeOK
    <3>2. ToPropagate' = Positive(g) /\ g \in [State -> Nat]
      BY <2>2, ToPropagateIs, TodoIs DEF TypeOK, ServerTypeOK
    <3>3. \A q \in State : g[q] = f[q] - (IF q = d.parent THEN 1 ELSE 0)
      BY CopyReturned DEF LeftIn, Invariants
    <3>4. d.parent \in State
      BY NewResult DEF Invariants
    <3> HIDE DEF f, g
    <3>5. /\ d.parent \in DOMAIN Positive(f)
          /\ Positive(g) = Positive(f) (-) SetToBag({d.parent})
      BY <3>1, <3>2, <3>3, <3>4, OnePositiveLess
    <3> QED
      BY <3>1, <3>2, <3>5
  <2> QED
    BY <2>1, <2>2
<1>4. /\ d.job \notin WeightedIn(state_weights, assimilation_cycle)
      /\ WeightedIn(state_weights, assimilation_cycle)'
           = WeightedIn(state_weights, assimilation_cycle) \cup {d.job}
      /\ WeightedIn(state_weights, assimilation_cycle - 1)'
           = WeightedIn(state_weights, assimilation_cycle - 1)
  BY NewResult DEF Invariants
<1>5. Filter!Propagate
  <2>1. ~ Over /\ ~ Over'
    BY DEF Over
  <2>2. \E s \in WeightedIn(state_weights, assimilation_cycle)' :
          /\ s \notin WeightedIn(state_weights, assimilation_cycle)
          /\ WeightedIn(state_weights, assimilation_cycle)'
               = WeightedIn(state_weights, assimilation_cycle) \cup {s}
    BY <1>4
  <2> QED
    BY <1>3, <1>4, <2>1, <2>2, FilterBags DEF Filter!Propagate
<1> QED
  BY <1>1, <1>2, <1>5 DEF Course

(* A bag that holds one copy of one parent has size one. *)
LEMMA OneCopy == ASSUME NEW p PROVE count_members([x \in {p} |-> 1]) = 1
<1>1. 1 .. 1 = {1}
  OBVIOUS
<1>2. Members([x \in {p} |-> 1]) = {<<p, 1>>}
  BY <1>1 DEF Members
<1> QED
  BY <1>2, FS_Singleton DEF count_members

(* What is left when only one due date is. *)
LEMMA OneLeft ==
  ASSUME Invariants, NEW d, due_dates = {d}, alpha = EmptyBag, stealable_jobs = 0
  PROVE  \E p : ToPropagate = [x \in {p} |-> 1]
<1>1. Cardinality(due_dates) = 1
  BY FS_Singleton
<1>2. CASE assimilation_cycle = 1
  <2>1. stealable_jobs + Cardinality(due_dates) = 1
    BY <1>1
  <2>2. ToPropagate = [x \in {None} |-> 1]
    BY <1>2, <2>1 DEF ToPropagate
  <2> QED
    BY <2>2
<1>3. CASE assimilation_cycle # 1
  <2>1. DOMAIN alpha = {}
    BY DEF EmptyBag, SetToBag
  <2>2. DOMAIN alpha \cup {e.parent : e \in due_dates} = {d.parent}
    BY <2>1
  <2>3. InBag(alpha, d.parent) = 0
    BY <2>1 DEF InBag
  <2>4. OfParent(due_dates, d.parent) = due_dates
    BY DEF OfParent
  <2>5. LeftOf(alpha, due_dates, d.parent) = 1
    BY <1>1, <2>3, <2>4 DEF LeftOf
  <2>6. ToPropagate = [x \in {d.parent} |-> 1]
    BY <1>3, <2>2, <2>5, ToPropagateIs
  <2> QED
    BY <2>6
<1> QED
  BY <1>2, <1>3

(* When no job is out, the bag of the cycle is alpha. *)
LEMMA NothingOut ==
  ASSUME IsParticleBag(alpha'), due_dates' = {}, assimilation_cycle' # 1
  PROVE  /\ \A q : LeftOf(alpha', due_dates', q) = InBag(alpha', q)
         /\ ToPropagate' = alpha'
<1>1. \A q : /\ OfParent(due_dates', q) = {}
             /\ InBag(alpha', q) \in Nat
  BY BagCounts DEF OfParent
<1>2. \A q : LeftOf(alpha', due_dates', q) = InBag(alpha', q)
  BY <1>1, FS_EmptySet DEF LeftOf
<1>3. DOMAIN alpha' \cup {d.parent : d \in due_dates'} = DOMAIN alpha'
  OBVIOUS
<1>4. ToPropagate' = [p \in DOMAIN alpha' |-> InBag(alpha', p)]
  BY <1>2, <1>3, ToPropagateIs
<1>5. alpha' = [p \in DOMAIN alpha' |-> alpha'[p]]
  BY DEF IsParticleBag, IsABag
<1> QED
  BY <1>2, <1>4, <1>5 DEF InBag

(* A cycle that was drawn and has not begun conserves its copies. *)
LEMMA FreshCycle ==
  ASSUME TypeOK', due_dates' = {}, stealable_jobs' = Particles,
         {w \in state_weights' : w.job.t = assimilation_cycle'} = {},
         assimilation_cycle' > 1 =>
           /\ assimilation_cycle' \in DOMAIN checkpoint'
           /\ checkpoint'[assimilation_cycle'] = alpha'
  PROVE  CopiesConserved' /\ UpdatesAtOnce'
<1>1. UpdatesAtOnce'
  BY ParticlesAssumption DEF UpdatesAtOnce, ReadyForUpdate
<1>2. SUFFICES ASSUME assimilation_cycle' > 1, NEW q \in State
               PROVE  LeftOf(alpha', due_dates', q)
                        + ReturnedOf(state_weights', assimilation_cycle', q)
                      = InBag(alpha', q)
  BY <1>1 DEF CopiesConserved
<1>3. LeftOf(alpha', due_dates', q) = InBag(alpha', q) /\ InBag(alpha', q) \in Nat
  BY <1>2, NothingOut, BagCounts DEF TypeOK, ServerTypeOK
<1>4. ReturnedOf(state_weights', assimilation_cycle', q) = 0
  <2>1. OfParent({w \in state_weights' : w.job.t = assimilation_cycle'}, q) = {}
    BY DEF OfParent
  <2> QED
    BY <2>1, FS_EmptySet DEF ReturnedOf
<1> QED
  BY <1>3, <1>4

(* At an update nothing is out or reserved. *)
LEMMA NoneOutAtUpdate ==
  ASSUME TypeOK, TypeOK', Ledger', NEW W, do_update_step(W)
  PROVE  due_dates' = {} /\ DOMAIN scheduled_jobs' = {} /\ count_members(alpha') = Particles
<1> DEFINE c == assimilation_cycle
<1>1. /\ c \in Nat \ {0} /\ assimilation_cycle' = c + 1 /\ stealable_jobs' = Particles
      /\ checkpoint' = Put(checkpoint, c + 1, alpha') /\ weights_this_cycle' = 0
  BY DEF do_update_step, CheckpointNumber, TypeOK, ServerTypeOK
<1>2. count_members(alpha') = Particles
  BY <1>1 DEF Put, Ledger, CheckpointsComplete
<1>3. due_dates' = {}
  <2>1. /\ Cardinality(due_dates') \in Nat
        /\ Cardinality(due_dates') = 0 <=> due_dates' = {}
        /\ Particles \in Nat
    BY FS_CardinalityType, FS_EmptySet, ParticlesAssumption DEF TypeOK, ServerTypeOK
  <2>2. IsFiniteSet(DOMAIN scheduled_jobs')
    BY RunnersAssumption, FS_Subset DEF TypeOK, ServerTypeOK
  <2>3. Cardinality(DOMAIN scheduled_jobs') \in Nat
    BY <2>2, FS_CardinalityType
  <2>4. Particles = Particles + Cardinality(DOMAIN scheduled_jobs')
    BY <1>1, <1>2 DEF Ledger, JobsAreBacked
  <2>5. 0 + Cardinality(due_dates') + Particles
          = Particles + Cardinality(DOMAIN scheduled_jobs')
    BY <1>1 DEF Ledger, JobsConserved
  <2> QED
    BY <2>1, <2>3, <2>4, <2>5
<1>4. DOMAIN scheduled_jobs' = {}
  BY <1>3 DEF Ledger, ScheduledIsDue
<1> QED
  BY <1>2, <1>3, <1>4

(* The last result of a cycle. *)
LEMMA ResultResamples ==
  ASSUME Invariants, TypeOK', Ledger', status = "up", NEW d, ResultIn(d),
         ReadyForUpdate(weights_this_cycle + 1), do_update_step(state_weights'),
         scheduled_jobs' = scheduled_jobs
  PROVE  Course' /\ Filter!Resample
<1> DEFINE c == assimilation_cycle
           S == WeightedIn(state_weights', c)
<1>1. /\ c \in Nat \ {0} /\ assimilation_cycle' = c + 1
      /\ alpha = EmptyBag /\ stealable_jobs = 0 /\ stealable_jobs' = Particles
      /\ checkpoint' = Put(checkpoint, c + 1, alpha')
      /\ status' = IF c + 1 < Cycles THEN "up" ELSE "stopping"
      /\ weights_this_cycle' = 0
  BY DEF do_update_step, ReadyForUpdate, CheckpointNumber, Invariants, TypeOK, ServerTypeOK
<1>2. IsParticleBag(alpha') /\ DOMAIN alpha' \subseteq S
  <2>1. PICK drawn \in Resamplings(S) : alpha' = EmptyBag (+) drawn
    BY <1>1 DEF do_update_step
  <2>2. S \subseteq State /\ IsFiniteSet(S)
    BY WeightedStates, JobsAreStates DEF TypeOK, ServerTypeOK
  <2> QED
    BY <2>1, <2>2, Resampled
<1>3. c + 1 \in DOMAIN checkpoint' /\ checkpoint'[c + 1] = alpha'
  BY <1>1 DEF Put
<1>4. count_members(alpha') = Particles
  BY NoneOutAtUpdate DEF Invariants
<1>5. due_dates' = {}
  BY NoneOutAtUpdate DEF Invariants
<1>6. {w \in state_weights' : w.job.t = c + 1} = {}
  <2>1. \A w \in state_weights : w.job.t <= c /\ w.job.t \in Nat
    BY DEF Invariants, Ledger, JobIdsFresh, TypeOK, ServerTypeOK, OrderType, Job
  <2>2. Order(d.job, d.parent).job.t = c
    BY NewResult DEF Invariants, Order
  <2>3. \A w \in state_weights' : w.job.t # c + 1
    BY <1>1, <2>1, <2>2 DEF ResultIn
  <2> QED
    BY <2>3
<1>7. CopiesConserved' /\ UpdatesAtOnce'
  BY <1>1, <1>3, <1>5, <1>6, FreshCycle
<1>8. /\ CyclesInOrder'
      /\ ~ Over
      /\ Over' <=> ~ (c + 1 < Cycles)
  <2>1. ~ Over /\ (Over' <=> ~ (c + 1 < Cycles))
    BY <1>1 DEF Over
  <2>2. Cycles \in Nat \ {0}
    BY CyclesAssumption
  <2>3. c < FinalCycle
    BY <1>1, <2>1, <2>2 DEF Invariants, Course, CyclesInOrder, FinalCycle
  <2>4. DOMAIN checkpoint' = DOMAIN checkpoint \cup {c + 1}
    BY <1>1 DEF Put
  <2>5. DOMAIN checkpoint' = 2 .. c + 1
    <3>1. CASE DOMAIN checkpoint = 2 .. c
      <4>1. c \in Nat \ {0}
        BY <1>1
      <4> HIDE DEF c
      <4>2. (2 .. c) \cup {c + 1} = 2 .. c + 1
        BY <4>1
      <4> QED
        BY <2>4, <3>1, <4>2
    <3>2. CASE c + 1 = FinalCycle /\ DOMAIN checkpoint = 2 .. FinalCycle
      BY <1>1, <2>4, <3>2
    <3> QED
      BY <3>1, <3>2 DEF Invariants, Course, CyclesInOrder
  <2> QED
    BY <1>1, <2>1, <2>2, <2>3, <2>5 DEF CyclesInOrder, FinalCycle
<1>9. ToPropagate' = alpha'
  BY <1>1, <1>2, <1>5, NothingOut
<1>10. /\ d.job \notin WeightedIn(state_weights, c)
       /\ S = WeightedIn(state_weights, c) \cup {d.job}
       /\ WeightedIn(state_weights, c - 1)' = S
       /\ WeightedIn(state_weights, c)' = {}
  <2>1. (c - 1)' = c
    BY <1>1
  <2>2. WeightedIn(state_weights', c + 1) = {}
    BY <1>6 DEF WeightedIn
  <2> QED
    BY <1>1, <2>1, <2>2, NewResult DEF Invariants
<1>11. Filter!Size(ToPropagate) = 1
  <2>1. due_dates = {d}
    BY <1>5 DEF ResultIn
  <2> QED
    BY <1>1, <2>1, OneLeft, OneCopy, FilterBags
<1>12. Filter!Resample
  <2>1. \E s \in WeightedIn(state_weights, c - 1)' :
          /\ s \notin WeightedIn(state_weights, c)
          /\ WeightedIn(state_weights, c - 1)' = WeightedIn(state_weights, c) \cup {s}
    BY <1>10
  <2>2. /\ DOMAIN ToPropagate' \subseteq WeightedIn(state_weights, c - 1)'
        /\ Filter!IsABag(ToPropagate') /\ Filter!Size(ToPropagate') = Particles
    BY <1>2, <1>4, <1>9, <1>10, FilterBags DEF IsParticleBag
  <2>3. checkpoint' = [n \in DOMAIN checkpoint \cup {assimilation_cycle'} |->
                         IF n = assimilation_cycle' THEN ToPropagate' ELSE checkpoint[n]]
    BY <1>1, <1>9 DEF Put
  <2> QED
    BY <1>1, <1>8, <1>10, <1>11, <2>1, <2>2, <2>3 DEF Filter!Resample
<1> QED
  BY <1>7, <1>8, <1>12 DEF Course

(* accept_weight: a base state, a result, or the last result of a cycle.   *)
LEMMA AcceptWeightMaps ==
  ASSUME Invariants, TypeOK', Ledger', NEW r \in Runners, accept_weight(r)
  PROVE  Course' /\ [Filter!Next]_Filter!vars
<1> DEFINE s == gp[r].state
<1>1. status = "up" /\ scheduled_jobs' = scheduled_jobs
  BY DEF accept_weight, Heard, Serving
<1>2. CASE UNCHANGED <<due_dates, state_weights>>
           /\ maybe_update(weights_this_cycle, state_weights)
  <2>1. UNCHANGED <<assimilation_cycle, stealable_jobs, alpha, weights_this_cycle,
                    checkpoint, status>>
    BY <1>2 DEF maybe_update, Invariants, Course, UpdatesAtOnce
  <2>2. WorkKept
    BY <1>2, <2>1, NoJobMoved DEF Invariants, Over
  <2> QED
    BY <2>2, WorkKeptStutters DEF Invariants
<1>3. CASE \E d \in DueDatesOf(r) :
             /\ d.job = s
             /\ due_dates' = WithoutDueDate(r, s)
             /\ state_weights' = state_weights \cup {Order(s, d.parent)}
             /\ maybe_update(weights_this_cycle + 1, state_weights')
  <2>1. PICK d \in DueDatesOf(r) :
          /\ d.job = s
          /\ due_dates' = WithoutDueDate(r, s)
          /\ state_weights' = state_weights \cup {Order(s, d.parent)}
          /\ maybe_update(weights_this_cycle + 1, state_weights')
    BY <1>3
  <2>2. due_dates' = due_dates \ {d}
    BY <2>1 DEF WithoutDueDate, DueDatesOf, Invariants, Ledger, DueJobsDistinct
  <2>3. ResultIn(d)
    BY <2>1, <2>2 DEF ResultIn, DueDatesOf
  <2>4. CASE ReadyForUpdate(weights_this_cycle + 1)
    <3>1. do_update_step(state_weights')
      BY <2>1, <2>4 DEF maybe_update
    <3> QED
      BY <1>1, <2>3, <2>4, <3>1, ResultResamples DEF Filter!Next
  <2>5. CASE ~ ReadyForUpdate(weights_this_cycle + 1)
    <3>1. /\ weights_this_cycle' = weights_this_cycle + 1
          /\ UNCHANGED <<assimilation_cycle, stealable_jobs, alpha, checkpoint, status>>
      BY <2>1, <2>5 DEF maybe_update
    <3> QED
      BY <1>1, <2>3, <2>5, <3>1, ResultPropagates DEF Filter!Next
  <2> QED
    BY <2>4, <2>5
<1> QED
  BY <1>2, <1>3 DEF accept_weight

-----------------------------------------------------------------------------
(***************************************************************************)
(* Restart.                                                                *)
(***************************************************************************)
(* The cycle that a new server goes on with. *)
LEMMA LastCycleIs ==
  ASSUME Invariants
  PROVE  /\ ~ is_restart => (IF Over THEN assimilation_cycle - 1 ELSE assimilation_cycle) = 1
         /\ is_restart /\ ~ Over => /\ last_assimilation_cycle = assimilation_cycle
                                    /\ assimilation_cycle > 1
                                    /\ assimilation_cycle \in DOMAIN checkpoint
         /\ is_restart /\ Over =>
              /\ last_assimilation_cycle = assimilation_cycle - 1
              /\ last_assimilation_cycle \in DOMAIN checkpoint <=> assimilation_cycle > 2
              /\ assimilation_cycle = Cycles
<1> DEFINE c == assimilation_cycle
           gaps == {n \in 1 .. Cycles - 1 : n + 1 \notin DOMAIN checkpoint}
<1>1. /\ c \in Nat \ {0} /\ Cycles \in Nat \ {0}
      /\ c <= FinalCycle /\ (Over <=> c = FinalCycle)
      /\ \/ DOMAIN checkpoint = 2 .. c
         \/ /\ c + 1 = FinalCycle /\ (Cycles = 1 \/ c > 1)
            /\ DOMAIN checkpoint = 2 .. FinalCycle
  BY CyclesAssumption DEF Invariants, TypeOK, ServerTypeOK, Course, CyclesInOrder
<1>2. last_assimilation_cycle =
        IF gaps = {} THEN Cycles - 1 ELSE CHOOSE n \in gaps : \A m \in gaps : n <= m
  BY DEF last_assimilation_cycle, FileAfterLoop
<1> HIDE DEF c
<1>3. CASE ~ is_restart
  BY <1>1, <1>3 DEF is_restart, FinalCycle, c
<1>4. CASE is_restart /\ ~ Over
  <2>1. Cycles > 1 /\ 2 \in DOMAIN checkpoint /\ c < Cycles /\ c > 1
    BY <1>1, <1>4 DEF is_restart, FinalCycle
  <2>2. c \in DOMAIN checkpoint
    BY <1>1, <2>1
  <2>3. CASE DOMAIN checkpoint = 2 .. c
    <3>1. gaps = c .. Cycles - 1
      BY <1>1, <2>1, <2>3
    <3>2. c \in Int /\ Cycles - 1 \in Int /\ c <= Cycles - 1
      BY <1>1, <2>1
    <3> HIDE DEF gaps
    <3>3. c \in gaps /\ \A n \in gaps : n \in Int /\ c <= n
      BY <3>1, <3>2
    <3> DEFINE least == CHOOSE n \in gaps : \A m \in gaps : n <= m
    <3>4. least \in gaps /\ \A m \in gaps : least <= m
      <4>1. \E n \in gaps : \A m \in gaps : n <= m
        BY <3>3
      <4> QED
        BY <4>1, Zenon
    <3>5. least <= c /\ c <= least /\ least \in Int
      BY <3>3, <3>4
    <3>6. least = c /\ gaps # {}
      <4> HIDE DEF least
      <4> QED
        BY <3>2, <3>3, <3>5
    <3> QED
      BY <1>2, <1>4, <2>1, <2>2, <3>3, <3>6 DEF c
  <2>4. CASE c + 1 = FinalCycle /\ DOMAIN checkpoint = 2 .. FinalCycle
    <3>1. gaps = {} /\ c = Cycles - 1
      BY <1>1, <2>1, <2>4 DEF FinalCycle
    <3> QED
      BY <1>2, <1>4, <2>1, <2>2, <3>1 DEF c
  <2> QED
    BY <1>1, <2>3, <2>4
<1>5. CASE is_restart /\ Over
  <2>1. Cycles > 1 /\ c = Cycles /\ DOMAIN checkpoint = 2 .. c
    BY <1>1, <1>5 DEF is_restart, FinalCycle
  <2>2. gaps = {}
    BY <1>1, <2>1
  <2>3. last_assimilation_cycle = c - 1
    BY <1>2, <2>1, <2>2
  <2> QED
    BY <1>1, <1>5, <2>1, <2>3 DEF c
<1> QED
  BY <1>3, <1>4, <1>5

(* A new server starts a cycle over, or finds nothing to go on with after  *)
(* the end.                                                                *)
LEMMA RestartMaps ==
  ASSUME Invariants, TypeOK', Ledger', restart
  PROVE  Course' /\ [Filter!Next]_Filter!vars
<1> DEFINE n == IF Over THEN assimilation_cycle - 1 ELSE assimilation_cycle
<1>0. assimilation_cycle \in Nat /\ assimilation_cycle <= FinalCycle
      /\ (Over <=> assimilation_cycle = FinalCycle)
  BY DEF Invariants, TypeOK, ServerTypeOK, Course, CyclesInOrder
<1>1. CASE StartsWith(n, IF n = 1 THEN EmptyBag ELSE checkpoint[n])
           /\ IF n = 1 THEN ~ is_restart ELSE n \in DOMAIN checkpoint
  <2>1. /\ assimilation_cycle' = n /\ alpha' = IF n = 1 THEN EmptyBag ELSE checkpoint[n]
        /\ due_dates' = {} /\ state_weights' = {} /\ stealable_jobs' = Particles
        /\ checkpoint' = checkpoint /\ status' = "up"
    BY <1>1 DEF StartsWith
  <2>2. CopiesConserved' /\ UpdatesAtOnce'
    BY <1>1, <2>1, FreshCycle
  <2>3. CyclesInOrder'
    <3> DEFINE c == assimilation_cycle
    <3>1. /\ c \in Nat \ {0} /\ Cycles \in Nat \ {0}
          /\ c <= FinalCycle /\ (Over <=> c = FinalCycle)
          /\ \/ DOMAIN checkpoint = 2 .. c
             \/ /\ c + 1 = FinalCycle /\ (Cycles = 1 \/ c > 1)
                /\ DOMAIN checkpoint = 2 .. FinalCycle
      BY CyclesAssumption DEF Invariants, TypeOK, ServerTypeOK, Course, CyclesInOrder
    <3>2. ~ Over'
      BY <2>1 DEF Over
    <3>3. n < FinalCycle
      BY <3>1 DEF FinalCycle
    <3>4. CASE Over
      <4>1. c = FinalCycle /\ DOMAIN checkpoint = 2 .. FinalCycle /\ n + 1 = FinalCycle
        BY <3>1, <3>4
      <4>2. Cycles = 1 \/ n > 1
        <5>1. ASSUME n = 1, Cycles # 1 PROVE FALSE
          <6>1. 2 \in DOMAIN checkpoint
            BY <4>1, <5>1
          <6> QED
            BY <1>1, <3>1, <5>1, <6>1 DEF is_restart
        <5>2. n >= 1
          BY <3>1, <3>4 DEF FinalCycle
        <5> QED
          BY <3>1, <5>1, <5>2
      <4> QED
        BY <2>1, <3>2, <3>3, <4>1, <4>2 DEF CyclesInOrder
    <3>5. CASE ~ Over
      BY <2>1, <3>1, <3>2, <3>3, <3>5 DEF CyclesInOrder
    <3> QED
      BY <3>4, <3>5
  <2>4. ToPropagate' = IF n = 1 THEN [p \in {None} |-> Particles] ELSE checkpoint[n]
    <3>1. CASE n = 1
      <4>1. stealable_jobs' + Cardinality(due_dates') = Particles /\ Particles > 0
        BY <2>1, FS_EmptySet, ParticlesAssumption
      <4> QED
        BY <2>1, <3>1, <4>1 DEF ToPropagate
    <3>2. CASE n # 1
      BY <2>1, <3>2, NothingOut DEF TypeOK, ServerTypeOK
    <3> QED
      BY <3>1, <3>2
  <2>5. /\ WeightedIn(state_weights, assimilation_cycle)' = {}
        /\ WeightedIn(state_weights, assimilation_cycle - 1)' = {}
    BY <2>1 DEF WeightedIn
  <2>6. ~ Over'
    BY <2>1 DEF Over
  <2>7. Filter!Restart
    BY <2>1, <2>4, <2>5, <2>6 DEF Filter!Restart
  <2> QED
    BY <2>2, <2>3, <2>7 DEF Course, Filter!Next
<1>2. CASE Over /\ Fault("no_checkpoint")
  <2>1. WorkKept
    BY <1>2, NoJobMoved DEF Fault, Over, Invariants
  <2> QED
    BY <2>1, WorkKeptStutters DEF Invariants
<1>3. CASE ~ is_restart
  <2>1. n = 1
    BY <1>3, LastCycleIs
  <2> QED
    BY <1>1, <1>3, <2>1 DEF restart
<1>4. CASE is_restart /\ ~ Over
  <2>1. last_assimilation_cycle = n /\ n \in DOMAIN checkpoint /\ n # 1
    BY <1>0, <1>4, LastCycleIs
  <2> QED
    BY <1>1, <1>4, <2>1 DEF restart
<1>5. CASE is_restart /\ Over
  <2>1. last_assimilation_cycle = n /\ (n \in DOMAIN checkpoint => n # 1)
    BY <1>0, <1>5, LastCycleIs
  <2> QED
    BY <1>1, <1>2, <1>5, <2>1 DEF restart
<1> QED
  BY <1>3, <1>4, <1>5

-----------------------------------------------------------------------------
(***************************************************************************)
(* All steps.                                                              *)
(***************************************************************************)
(* A handler that raises stops the server before its end. *)
LEMMA RaisesKept ==
  ASSUME Invariants, NEW r \in Runners, raises(r)
  PROVE  WorkKept
<1>1. PICK e \in Raised(r) : Fault(e)
  BY DEF raises
<1>2. e # "no_checkpoint" /\ e \in Faults
  BY <1>1, RaisedAreFaults DEF Raised, accept_weight_raises, accept_delete_raises,
     accept_prefetch_raises, handle_job_requests_raises
<1>3. Over' = Over
  BY <1>1, <1>2 DEF raises, Heard, Serving, Over, Fault, Faults
<1> QED
  BY <1>1, <1>3, NoJobMoved DEF Fault, Invariants

(* The server starts as the filter does. *)
LEMMA InitCourse == Init => Course /\ Filter!Init
<1> SUFFICES ASSUME Init PROVE Course /\ Filter!Init
  OBVIOUS
<1>1. assimilation_cycle = 1 /\ stealable_jobs = Particles /\ due_dates = {}
      /\ state_weights = {} /\ checkpoint = << >> /\ status = "up" /\ alpha = EmptyBag
  BY DEF Init
<1>2. Particles \in Nat \ {0} /\ Cycles \in Nat \ {0}
  BY ParticlesAssumption, CyclesAssumption
<1>3. ~ Over /\ DOMAIN checkpoint = {}
  BY <1>1 DEF Over
<1>4. Course
  <2>1. CopiesConserved /\ UpdatesAtOnce
    BY <1>1, <1>2 DEF CopiesConserved, UpdatesAtOnce, ReadyForUpdate
  <2>2. 2 .. 1 = {}
    OBVIOUS
  <2>3. CyclesInOrder
    BY <1>1, <1>2, <1>3, <2>2 DEF CyclesInOrder, FinalCycle
  <2> QED
    BY <2>1, <2>3 DEF Course
<1>5. ToPropagate = [p \in {None} |-> Particles]
  <2>1. stealable_jobs + Cardinality(due_dates) = Particles
    BY <1>1, <1>2, FS_EmptySet
  <2> QED
    BY <1>1, <1>2, <2>1 DEF ToPropagate
<1>6. \A t : WeightedIn(state_weights, t) = {}
  BY <1>1 DEF WeightedIn
<1> QED
  BY <1>1, <1>3, <1>4, <1>5, <1>6 DEF Filter!Init

(* Every step of the server is a step of the filter or leaves it alone. *)
LEMMA NextMaps ==
  ASSUME Invariants, TypeOK', Ledger', [Next]_vars
  PROVE  Course' /\ [Filter!Next]_Filter!vars
<1>1. ASSUME WorkKept PROVE Course' /\ [Filter!Next]_Filter!vars
  BY <1>1, WorkKeptStutters DEF Invariants
<1>2. ASSUME UNCHANGED <<assimilation_cycle, alpha, due_dates, state_weights,
                         weights_this_cycle, stealable_jobs, checkpoint, status>>
      PROVE  WorkKept
  BY <1>2, NoJobMoved DEF Invariants, Over
<1>3. CASE ServerStep
  <2>1. CASE check_violations
    BY <1>1, <2>1, CheckViolationsKept
  <2>2. CASE stop
    <3>1. WorkKept
      BY <2>2, NoJobMoved DEF stop, Over, Invariants
    <3> QED
      BY <1>1, <3>1
  <2>3. ASSUME NEW r \in Runners,
               handle_general_purpose(r) \/ handle_job_requests(r)
                 \/ ignore_faulty(r) \/ raises(r)
        PROVE  Course' /\ [Filter!Next]_Filter!vars
    <3>1. CASE accept_weight(r)
      BY <3>1, AcceptWeightMaps
    <3>2. CASE accept_delete(r)
      BY <1>1, <1>2, <3>2 DEF accept_delete
    <3>3. CASE accept_prefetch(r)
      BY <1>1, <3>3, AcceptPrefetchKept
    <3>4. CASE give_scheduled_job(r)
      BY <1>1, <3>4, GiveScheduledJobKept
    <3>5. CASE give_new_job(r)
      BY <1>1, <3>5, GiveNewJobKept
    <3>6. CASE give_no_job(r)
      BY <1>1, <1>2, <3>6 DEF give_no_job
    <3>7. CASE ignore_faulty(r)
      BY <1>1, <1>2, <3>7 DEF ignore_faulty, server
    <3>8. CASE raises(r)
      BY <1>1, <3>8, RaisesKept
    <3> QED
      BY <2>3, <3>1, <3>2, <3>3, <3>4, <3>5, <3>6, <3>7, <3>8
         DEF handle_general_purpose, handle_job_requests
  <2> QED
    BY <1>3, <2>1, <2>2, <2>3 DEF ServerStep
<1>4. ASSUME NEW r \in Runners, RunnerStep(r)
      PROVE  Course' /\ [Filter!Next]_Filter!vars
  <2>1. UNCHANGED server
    BY <1>4, RunnerStepLeavesServer
  <2> QED
    BY <1>1, <1>2, <2>1 DEF server
<1>5. CASE restart
  BY <1>5, RestartMaps
<1>6. CASE UNCHANGED vars
  BY <1>1, <1>2, <1>6 DEF vars, server
<1> QED
  BY <1>3, <1>4, <1>5, <1>6 DEF Next

-----------------------------------------------------------------------------
(* What is proved of the server holds in all its behaviours. *)
LEMMA InvariantsHold == Spec => []Invariants
<1>1. Init => Invariants
  BY InitTyped, InitBalances, InitCourse DEF Invariants
<1>2. Invariants /\ [Next]_vars => Invariants'
  BY NextTyped, NextBalances, NextMaps DEF Invariants
<1> QED
  BY <1>1, <1>2, PTL DEF Spec

(***************************************************************************)
(* Every parent is propagated as often as the resampling drew it, whatever *)
(* timed out, was reserved, given back or weighted in between, and across  *)
(* restarts of the server.                                                 *)
(***************************************************************************)
THEOREM ParentsAsDrawn == Spec => []ParentsPropagatedAsDrawn
<1>1. Invariants => ParentsPropagatedAsDrawn
  <2> SUFFICES ASSUME Invariants, assimilation_cycle > 1,
                      NEW p \in ParentsSeen \cup DOMAIN checkpoint[assimilation_cycle]
               PROVE  Waiting(p) + Out(p) + Returned(p) = Drawn(p)
    BY DEF ParentsPropagatedAsDrawn
  <2>1. p \in State
    BY DEF ParentsSeen, Invariants, TypeOK, ServerTypeOK, IsParticleBag, DueDate,
       OrderType, Course, CopiesConserved
  <2>2. /\ Waiting(p) + Out(p) = LeftOf(alpha, due_dates, p)
        /\ Drawn(p) = InBag(checkpoint[assimilation_cycle], p)
    BY DEF Waiting, Out, Drawn, LeftOf, InBag, OfParent
  <2>3. Returned(p) = ReturnedOf(state_weights, assimilation_cycle, p)
    <3>1. {w \in state_weights : w.parent = p /\ w.job.t = assimilation_cycle}
            = OfParent({w \in state_weights : w.job.t = assimilation_cycle}, p)
      BY DEF OfParent
    <3> QED
      BY <3>1 DEF Returned, ReturnedOf
  <2> QED
    BY <2>1, <2>2, <2>3 DEF Invariants, Course, CopiesConserved
<1> QED
  BY <1>1, InvariantsHold, PTL

(***************************************************************************)
(* The server implements the abstract filter: what arrives, times out, is  *)
(* reserved, handed out again or restarted amounts to propagating the bag  *)
(* of each cycle once per copy, drawing the next and starting over.        *)
(***************************************************************************)
THEOREM FilterImplemented == Spec => ImplementsParticleFilter
<1>1. Init => Filter!Init
  BY InitCourse
<1>2. Invariants /\ [Next]_vars => [Filter!Next]_Filter!vars
  BY NextTyped, NextBalances, NextMaps DEF Invariants
<1> QED
  BY <1>1, <1>2, InvariantsHold, PTL DEF Spec, ImplementsParticleFilter, Filter!Spec

(***************************************************************************)
(* Unless two cycles were asked for, a server that is restarted always     *)
(* finds the checkpoint that it opens, wherever its predecessor stopped.   *)
(***************************************************************************)
THEOREM RestartsFindCheckpoint ==
  ASSUME Cycles # 2
  PROVE  Spec => []CheckpointExists
<1>1. Init => CheckpointExists
  BY DEF Init, CheckpointExists
<1>2. ASSUME Invariants, CheckpointExists, [Next]_vars
      PROVE  CheckpointExists'
  <2>1. ASSUME NEW r \in Runners, raises(r) PROVE CheckpointExists'
    BY <2>1 DEF raises, Raised, accept_weight_raises, accept_delete_raises,
       accept_prefetch_raises, handle_job_requests_raises, Fault, CheckpointExists
  <2>2. ASSUME NEW r \in Runners, accept_weight(r) PROVE CheckpointExists'
    BY <1>2, <2>2 DEF accept_weight, maybe_update, do_update_step, CheckpointExists
  <2>3. CASE stop
    BY <2>3 DEF stop, CheckpointExists
  <2>4. CASE restart
    <3>1. is_restart => last_assimilation_cycle \in DOMAIN checkpoint
      <4>1. Cycles \in Nat /\ (is_restart => Cycles > 1)
        BY CyclesAssumption DEF is_restart
      <4> QED
        BY <1>2, <4>1, LastCycleIs
    <3>2. status' = "up"
      BY <2>4, <3>1 DEF restart, StartsWith
    <3> QED
      BY <3>2 DEF CheckpointExists
  <2>5. ASSUME UNCHANGED status PROVE CheckpointExists'
    BY <1>2, <2>5 DEF CheckpointExists
  <2>6. CASE ServerStep
    BY <2>1, <2>2, <2>3, <2>5, <2>6 DEF ServerStep, handle_general_purpose,
       handle_job_requests, accept_delete, accept_prefetch, give_scheduled_job,
       give_new_job, give_no_job, GiveJob, ignore_faulty, check_violations, server
  <2>7. ASSUME NEW r \in Runners, RunnerStep(r) PROVE CheckpointExists'
    BY <2>5, <2>7, RunnerStepLeavesServer DEF server
  <2>8. CASE UNCHANGED vars
    BY <2>5, <2>8 DEF vars, server
  <2> QED
    BY <1>2, <2>4, <2>6, <2>7, <2>8 DEF Next
<1> QED
  BY <1>1, <1>2, InvariantsHold, PTL DEF Spec
=============================================================================
