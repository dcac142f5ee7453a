------------------------- MODULE RunnerStorageProof -------------------------
(***************************************************************************)
(* The server, the applications and the storages of the head ranks do      *)
(* together what WeightServer says, and the storage keeps its books, for   *)
(* all runners, cache sizes, crashes, timeouts and restarts.  So what is   *)
(* proved of WeightServer holds of the server with these runners.  And     *)
(* what a runner loads is stored: a load is dirty at most once, parents    *)
(* stay on level 2, and a runner aborts in known cases only.               *)
(***************************************************************************)
EXTENDS RunnerStorage, DueDatesProof

-----------------------------------------------------------------------------
(***************************************************************************)
(* Where the states of a runner are.                                       *)
(***************************************************************************)
(* The id was given out before.  Runner ids, of base states, have no order.*)
Issued(s) ==
  \/ s.t < assimilation_cycle
  \/ s.t = assimilation_cycle /\ s.id \in 0 .. next_job_id - 1

Earlier(s, u) ==
  \/ s.t < u.t
  \/ s.t = u.t /\ s.id \in Nat /\ u.id \in Nat /\ s.id < u.id

(* The state whose weight is on its way to the server, or acknowledged. *)
Sent(r) == IF gp[r].type \in {"weight", "ack"} THEN {gp[r].state} ELSE {}

(* The state that is computed, or the one of the job that was received. *)
Newest(r) ==
  (IF jobs[r] = Idle THEN {app[r].job} ELSE {})
  \cup (IF jobs[r].type = "job" THEN {jobs[r].job} ELSE {})

InFetch(r) == IF head[r].at = "fetch" THEN {head[r].state} ELSE {}

(* What is not yet in the pool, and what is in it or comes from level 2. *)
Unpooled(r) == posted[r] \cup Sent(r) \cup Newest(r)
Pooled(r) ==
  held[r] \cup pulls[r] \cup InFetch(r)
  \cup (IF gp[r].type = "pull" THEN gp[r].states ELSE {})

-----------------------------------------------------------------------------
(***************************************************************************)
(* The invariant of one runner.                                            *)
(***************************************************************************)
(* States are reported in the order of their jobs. *)
InOrder(r) ==
  /\ \A s, u \in posted[r] : s # u => Earlier(s, u) \/ Earlier(u, s)
  /\ \A s \in Sent(r) : \A u \in posted[r] : Earlier(s, u)
  /\ \A s \in Sent(r) \cup posted[r] : \A u \in Newest(r) : Earlier(s, u)

(* A state enters the pool once: by its own report or by one fetch. *)
Apart(r) ==
  /\ Unpooled(r) \cap Pooled(r) = {}
  /\ held[r] \cap InFetch(r) = {}
  /\ \A s \in Pooled(r) \cup Sent(r) : Issued(s)

(* What is in the local storage, besides a state that is not yet posted. *)
Stored(r) ==
  /\ Local(r) \subseteq l1[r]
  /\ l1[r] \subseteq Local(r) \cup (IF Computing(r) THEN {NextState(r)} ELSE {})

(* The counter of used slots is right; only a runner that aborts has more  *)
(* of them than the pool.                                                  *)
Counted(r) ==
  /\ IsFiniteSet(held[r])
  /\ used[r] = Cardinality(held[r])
  /\ failed[r] = None => used[r] <= CacheSlots

(* The head rank does one thing at a time. *)
Talks(r) ==
  /\ gp[r].type = "delete" => gp[r].cached = held[r]
  /\ gp[r].type = "deleted" => gp[r].state \in held[r]
  /\ staged[r] # None =>
       gp[r] = Idle /\ head[r] = AtRest /\ staged[r] \in First(posted[r])

(* The application loads a parent, older than its job, before it asks for  *)
(* the next one.                                                           *)
LoadsParent(r) ==
  /\ load[r] # "idle" => app[r].parent # None
  /\ app[r].parent # None => jobs[r] = Idle /\ app[r].parent.t < app[r].job.t
  /\ jobs[r].type = "job" => jobs[r].parent.t < jobs[r].job.t

(* All of this. *)
InPool(r) ==
  InOrder(r) /\ Apart(r) /\ Stored(r) /\ Counted(r) /\ Talks(r) /\ LoadsParent(r)

(* The values of the variables of the storage. *)
StorageTypeOK ==
  /\ l1 \in [Runners -> SUBSET State] /\ l2 \subseteq State
  /\ used \in [Runners -> Int]
  /\ del_q \in [Runners -> Seq(State)] /\ own_cycle \in [Runners -> Nat]
  /\ staged \in [Runners -> State \cup {None}]
  /\ load \in [Runners -> LoadStates] /\ dirty \in [Runners -> Nat]
  /\ failed \in [Runners -> Failures \cup {None}]

-----------------------------------------------------------------------------
(***************************************************************************)
(* States in order.                                                        *)
(***************************************************************************)
(* The order is strict, and it is that in which the head rank reports. *)
LEMMA EarlierIsOrder ==
  ASSUME NEW s \in State, NEW u \in State, Earlier(s, u)
  PROVE  s # u /\ ~ Before(u, s)
<1>1. s.t \in Nat /\ u.t \in Nat
  BY DEF State
<1>2. CASE s.t < u.t
  BY <1>1, <1>2 DEF Before
<1>3. CASE s.t = u.t /\ s.id \in Nat /\ u.id \in Nat /\ s.id < u.id
  BY <1>1, <1>3 DEF Before
<1> QED
  BY <1>2, <1>3 DEF Earlier

(* A new job comes after all that was given out. *)
LEMMA NewJobIsLast ==
  ASSUME TypeOK, NEW s \in State, Issued(s)
  PROVE  Earlier(s, generate_job_id) /\ s # generate_job_id
<1>1. /\ generate_job_id.t = assimilation_cycle /\ generate_job_id.id = next_job_id
      /\ assimilation_cycle \in Nat /\ next_job_id \in Nat /\ s.t \in Nat
  BY DEF generate_job_id, TypeOK, ServerTypeOK, State
<1>2. Earlier(s, generate_job_id)
  BY <1>1 DEF Issued, Earlier
<1>3. s # generate_job_id
  BY <1>1 DEF Issued
<1> QED
  BY <1>2, <1>3

(* A job that a runner holds was given out. *)
LEMMA HeldIsIssued ==
  ASSUME Ledger, NEW r \in Runners, NEW s \in JobsHeld(r)
  PROVE  Issued(s)
BY DEF Ledger, JobsHeldKnown, Issued

(* What a runner holds are states. *)
LEMMA AllAreStates ==
  ASSUME TypeOK, NEW r \in Runners
  PROVE  /\ Unpooled(r) \subseteq State /\ Pooled(r) \subseteq State
         /\ app[r].job \in State /\ posted[r] \subseteq State /\ held[r] \subseteq State
<1>0. RunnerTypeOK
  BY DEF TypeOK
<1>1. gp[r] \in GpMessage /\ jobs[r] \in JobMessage
  BY <1>0 DEF RunnerTypeOK
<1>2. Sent(r) \subseteq State /\ (gp[r].type = "pull" => gp[r].states \subseteq State)
  BY <1>1, GpContents DEF Sent
<1>3. app[r].job \in State
  BY <1>0 DEF RunnerTypeOK
<1>4. Newest(r) \subseteq State
  BY <1>1, <1>3, JobContents, JobsAreStates DEF Newest
<1>5. InFetch(r) \subseteq State
  <2>1. head[r] \in {AtRest, AfterWeight} \cup [at : {"fetch"}, state : State]
    BY <1>0 DEF RunnerTypeOK
  <2>2. head[r].at = "fetch" => head[r].state \in State
    BY <2>1 DEF AtRest, AfterWeight
  <2> QED
    BY <2>2 DEF InFetch
<1>6. posted[r] \subseteq State /\ held[r] \subseteq State /\ pulls[r] \subseteq State
  BY <1>0 DEF RunnerTypeOK
<1> QED
  BY <1>2, <1>3, <1>4, <1>5, <1>6 DEF Unpooled, Pooled

-----------------------------------------------------------------------------
(***************************************************************************)
(* What the server does to a runner is an answer.                          *)
(***************************************************************************)
(* A runner that a step leaves alone. *)
LEMMA PoolLeft ==
  ASSUME TypeOK, NEW r \in Runners, InPool(r),
         gp'[r] = gp[r], jobs'[r] = jobs[r], app'[r] = app[r], posted'[r] = posted[r],
         head'[r] = head[r], held'[r] = held[r], pulls'[r] = pulls[r],
         l1'[r] = l1[r], used'[r] = used[r], staged'[r] = staged[r], load'[r] = load[r],
         failed'[r] = failed[r],
         \A s \in State : Issued(s) => Issued(s)'
  PROVE  InPool(r)'
<1>1. /\ Sent(r)' = Sent(r) /\ Newest(r)' = Newest(r) /\ InFetch(r)' = InFetch(r)
      /\ Local(r)' = Local(r) /\ Computing(r)' = Computing(r)
  BY DEF Sent, Newest, InFetch, Local, Computing
<1>2. Unpooled(r)' = Unpooled(r) /\ Pooled(r)' = Pooled(r)
  BY <1>1 DEF Unpooled, Pooled
<1>3. InOrder(r)'
  BY <1>1 DEF InPool, InOrder, Earlier
<1>4. Apart(r)'
  BY <1>1, <1>2, AllAreStates DEF InPool, Apart, Unpooled
<1>5. Stored(r)'
  BY <1>1 DEF InPool, Stored, NextState
<1>6. Counted(r)' /\ Talks(r)' /\ LoadsParent(r)'
  BY DEF InPool, Counted, Talks, LoadsParent
<1> QED
  BY <1>3, <1>4, <1>5, <1>6 DEF InPool

(* The answers to what the head rank asks.  What it is to delete is not    *)
(* what its application has to load; what it is to prefetch is a parent.   *)
Spared(r, s) == r \notin faulty_runners /\ \A d \in DueDatesOf(r) : d.parent # s
Awaited(s) == assimilation_cycle > 1 /\ \E d \in due_dates : d.parent = s

GpAnswered(r) ==
  \/ gp[r].type = "weight" /\ gp'[r] = Ack(gp[r].state)
  \/ gp[r].type = "delete" /\ gp'[r] = Empty
  \/ gp[r].type = "delete" /\ \E s \in gp[r].cached : gp'[r] = DeleteReply(s) /\ Spared(r, s)
  \/ /\ gp[r].type = "prefetch"
     /\ \E S : /\ gp'[r] = PullReply(S)
               /\ \A s \in S : Issued(s) /\ s \notin Unpooled(r) /\ Awaited(s)'

(* The answers to what the application asks. *)
JobAnswered(r) ==
  /\ jobs[r].type = "request"
  /\ \/ jobs'[r] = NoJob
     \/ \E p, n : jobs'[r] = JobReply(generate_job_id, p, n) /\ p.t < assimilation_cycle

Answered(r) ==
  \/ gp'[r] = gp[r] /\ jobs'[r] = jobs[r]
  \/ gp'[r] = gp[r] /\ JobAnswered(r)
  \/ jobs'[r] = jobs[r] /\ GpAnswered(r)

(* An answer on the general purpose channel. *)
LEMMA GpAnswerKeepsPool ==
  ASSUME TypeOK, TypeOK', NEW r \in Runners, InPool(r), UNCHANGED <<runner, storage>>,
         jobs'[r] = jobs[r], GpAnswered(r),
         \A s \in State : Issued(s) => Issued(s)'
  PROVE  InPool(r)'
<1>0. UNCHANGED <<app, posted, head, held, pulls, l1, used, staged, load, failed>>
  BY DEF runner, storage
<1>1. /\ gp[r].type \in {"weight", "delete", "prefetch"}
      /\ gp'[r].type \in {"ack", "empty", "deleted", "pull"}
      /\ gp'[r].type = "ack" <=> gp[r].type = "weight"
      /\ gp'[r].type = "ack" => gp'[r].state = gp[r].state
      /\ gp'[r].type = "deleted" => gp'[r].state \in held[r]
      /\ gp'[r].type = "pull" => \A s \in gp'[r].states : Issued(s) /\ s \notin Unpooled(r)
  <2>1. gp[r].type = "delete" => gp[r].cached = held[r]
    BY DEF InPool, Talks
  <2>2. CASE gp[r].type = "weight" /\ gp'[r] = Ack(gp[r].state)
    BY <2>2 DEF Ack
  <2>3. CASE gp[r].type = "delete" /\ gp'[r] = Empty
    BY <2>3 DEF Empty
  <2>4. CASE gp[r].type = "delete" /\ \E s \in gp[r].cached : gp'[r] = DeleteReply(s)
    BY <2>1, <2>4 DEF DeleteReply
  <2>5. CASE /\ gp[r].type = "prefetch"
             /\ \E S : /\ gp'[r] = PullReply(S)
                       /\ \A s \in S : Issued(s) /\ s \notin Unpooled(r)
    BY <2>5 DEF PullReply
  <2> QED
    BY <2>2, <2>3, <2>4, <2>5 DEF GpAnswered
<1>2. /\ Sent(r)' = Sent(r) /\ Newest(r)' = Newest(r) /\ InFetch(r)' = InFetch(r)
      /\ Local(r)' = Local(r) /\ Computing(r)' = Computing(r)
  BY <1>0, <1>1 DEF Sent, Newest, InFetch, Local, Computing
<1>3. Unpooled(r)' = Unpooled(r)
  BY <1>0, <1>2 DEF Unpooled
<1>4. InOrder(r)'
  BY <1>0, <1>2 DEF InPool, InOrder, Earlier
<1>5. Apart(r)'
  <2>1. Apart(r)
    BY DEF InPool
  <2>2. /\ held'[r] = held[r] /\ pulls'[r] = pulls[r]
        /\ Pooled(r)' \subseteq Pooled(r) \cup (IF gp'[r].type = "pull" THEN gp'[r].states ELSE {})
    BY <1>0, <1>2 DEF Pooled
  <2>3. \A s \in Pooled(r)' : Issued(s) /\ s \notin Unpooled(r)
    BY <1>1, <2>1, <2>2 DEF Apart
  <2>4. gp'[r].type = "pull" => gp'[r].states \subseteq State
    <3>1. gp'[r] \in GpMessage
      BY DEF TypeOK, RunnerTypeOK
    <3> QED
      BY <3>1, GpContents
  <2>5. \A s \in Pooled(r)' \cup Sent(r)' : s \in State
    BY <1>2, <2>2, <2>4, AllAreStates DEF Unpooled
  <2>6. \A s \in Sent(r)' : Issued(s)
    BY <1>2, <2>1 DEF Apart
  <2> QED
    BY <1>0, <1>2, <1>3, <2>1, <2>3, <2>5, <2>6 DEF Apart
<1>6. Stored(r)'
  BY <1>0, <1>2 DEF InPool, Stored, NextState
<1>7. Counted(r)' /\ LoadsParent(r)'
  BY <1>0 DEF InPool, Counted, LoadsParent
<1>8. Talks(r)'
  BY <1>0, <1>1 DEF InPool, Talks, Idle
<1> QED
  BY <1>4, <1>5, <1>6, <1>7, <1>8 DEF InPool

(* An answer on the job channel. *)
LEMMA JobAnswerKeepsPool ==
  ASSUME TypeOK, Ledger, NEW r \in Runners, InPool(r), UNCHANGED <<runner, storage>>,
         gp'[r] = gp[r], JobAnswered(r),
         \A s \in State : Issued(s) => Issued(s)'
  PROVE  InPool(r)'
<1>0. UNCHANGED <<app, posted, head, held, pulls, l1, used, staged, load, failed>>
  BY DEF runner, storage
<1>1. /\ jobs[r] # Idle /\ jobs[r].type # "job" /\ jobs'[r] # Idle
      /\ jobs'[r].type = "job" =>
           jobs'[r].job = generate_job_id /\ jobs'[r].parent.t < jobs'[r].job.t
  <2>1. CASE jobs'[r] = NoJob
    BY <2>1 DEF JobAnswered, Idle, NoJob
  <2>2. ASSUME NEW p, NEW n, jobs'[r] = JobReply(generate_job_id, p, n), p.t < assimilation_cycle
        PROVE  /\ jobs'[r] # Idle
               /\ jobs'[r].job = generate_job_id /\ jobs'[r].parent.t < jobs'[r].job.t
    <3>1. generate_job_id.t = assimilation_cycle
      BY DEF generate_job_id
    <3>2. /\ jobs'[r].type = "job" /\ jobs'[r].job = generate_job_id
          /\ jobs'[r].parent = p
      BY <2>2 DEF JobReply
    <3> QED
      BY <2>2, <3>1, <3>2 DEF Idle
  <2> QED
    BY <2>1, <2>2 DEF JobAnswered, Idle
<1>2. /\ Sent(r)' = Sent(r) /\ InFetch(r)' = InFetch(r) /\ Pooled(r)' = Pooled(r)
      /\ Local(r)' = Local(r) /\ ~ Computing(r) /\ ~ Computing(r)'
  BY <1>0, <1>1 DEF Sent, InFetch, Local, Computing, Pooled
<1>3. Newest(r) = {} /\ Newest(r)' \subseteq {generate_job_id}
  BY <1>1 DEF Newest
<1>4. \A s \in posted[r] \cup Sent(r) \cup Pooled(r) : s \in State /\ Issued(s)
  <2>1. posted[r] \subseteq JobsHeld(r)
    BY DEF JobsHeld
  <2> QED
    BY <2>1, AllAreStates, HeldIsIssued DEF InPool, Apart, Unpooled
<1>5. \A s \in posted[r] \cup Sent(r) \cup Pooled(r) :
        Earlier(s, generate_job_id) /\ s # generate_job_id
  BY <1>4, NewJobIsLast
<1>6. InOrder(r)'
  BY <1>0, <1>2, <1>3, <1>5 DEF InPool, InOrder, Earlier
<1>7. Apart(r)'
  <2>1. Apart(r)
    BY DEF InPool
  <2>2. Unpooled(r)' \subseteq Unpooled(r) \cup {generate_job_id}
    BY <1>0, <1>2, <1>3 DEF Unpooled
  <2>3. generate_job_id \notin Pooled(r)
    BY <1>5
  <2>4. \A s \in Pooled(r) \cup Sent(r) : Issued(s)'
    BY <1>4
  <2> QED
    BY <1>0, <1>2, <2>1, <2>2, <2>3, <2>4 DEF Apart
<1>8. Stored(r)'
  BY <1>0, <1>2 DEF InPool, Stored
<1>9. Counted(r)' /\ Talks(r)' /\ LoadsParent(r)'
  BY <1>0, <1>1 DEF InPool, Counted, Talks, LoadsParent
<1> QED
  BY <1>6, <1>7, <1>8, <1>9 DEF InPool

(* The server never takes an id back. *)
LEMMA IssuedStays ==
  ASSUME TypeOK, ServerStep, NEW s \in State, Issued(s)
  PROVE  Issued(s)'
<1>0. assimilation_cycle \in Nat /\ next_job_id \in Nat /\ s.t \in Nat
  BY DEF TypeOK, ServerTypeOK, State
<1>1. ASSUME assimilation_cycle' = assimilation_cycle,
             next_job_id' = next_job_id \/ next_job_id' = next_job_id + 1
      PROVE  Issued(s)'
  <2>1. 0 .. next_job_id - 1 \subseteq 0 .. next_job_id' - 1
    BY <1>0, <1>1
  <2> QED
    BY <1>1, <2>1 DEF Issued
<1>2. ASSUME assimilation_cycle' = assimilation_cycle + 1 PROVE Issued(s)'
  BY <1>0, <1>2 DEF Issued
<1>3. ASSUME NEW r \in Runners, handle_general_purpose(r) PROVE Issued(s)'
  <2>1. CASE accept_weight(r)
    BY <1>1, <1>2, <2>1 DEF accept_weight, maybe_update, do_update_step
  <2>2. CASE accept_delete(r)
    BY <1>1, <2>2 DEF accept_delete
  <2>3. CASE accept_prefetch(r)
    BY <1>1, <2>3 DEF accept_prefetch
  <2> QED
    BY <1>3, <2>1, <2>2, <2>3 DEF handle_general_purpose
<1>4. ASSUME NEW r \in Runners, handle_job_requests(r) PROVE Issued(s)'
  BY <1>1, <1>4 DEF handle_job_requests, give_scheduled_job, give_new_job, give_no_job, GiveJob
<1>5. ASSUME NEW r \in Runners, ignore_faulty(r) \/ raises(r) PROVE Issued(s)'
  BY <1>1, <1>5 DEF ignore_faulty, raises, Fault, server
<1>6. CASE check_violations \/ stop
  BY <1>1, <1>6 DEF check_violations, stop
<1> QED
  BY <1>3, <1>4, <1>5, <1>6 DEF ServerStep

(* A parent of today is a state of yesterday. *)
LEMMA GoodParentIsOlder ==
  ASSUME TypeOK, NEW r \in Runners, NEW p, GoodParent(p, r)
  PROVE  p.t < assimilation_cycle
BY DEF TypeOK, ServerTypeOK, GoodParent, BaseState

(* What is prefetched for a runner is none of the jobs in its hands. *)
LEMMA PrefetchedIsElsewhere ==
  ASSUME TypeOK, TypeOK', Ledger, Ledger', Dues, ParentsPast', NEW r \in Runners, accept_prefetch(r)
  PROVE  GpAnswered(r)
<1>1. /\ gp[r].type = "prefetch" /\ r \notin faulty_runners
      /\ assimilation_cycle' = assimilation_cycle
  BY DEF accept_prefetch, Heard
<1>2. PICK S : /\ gp' = [gp EXCEPT ![r] = PullReply(S)]
               /\ S = IF assimilation_cycle > 1 /\ r \in DOMAIN scheduled_jobs'
                      THEN {scheduled_jobs'[r].parent} \ gp[r].cached ELSE {}
  BY DEF accept_prefetch
<1>3. gp'[r] = PullReply(S)
  BY <1>2 DEF TypeOK, RunnerTypeOK
<1>4. ASSUME NEW p \in S PROVE Issued(p) /\ p \notin Unpooled(r) /\ Awaited(p)'
  <2>1. /\ assimilation_cycle > 1 /\ r \in DOMAIN scheduled_jobs'
        /\ p = scheduled_jobs'[r].parent
    BY <1>2, <1>4
  <2>2. Due(r, scheduled_jobs'[r].job, p) \in due_dates'
    BY <2>1 DEF Ledger, ScheduledIsDue
  <2>3. GoodParent(p, r)'
    BY <2>2 DEF ParentsPast, Due
  <2>4. p \in Job /\ p.t < assimilation_cycle
    BY <1>1, <2>1, <2>3 DEF GoodParent, TypeOK, ServerTypeOK
  <2>5. Unpooled(r) \subseteq InHand(r)
    BY <1>1 DEF Unpooled, Sent, Newest, InHand
  <2>6. ASSUME p \in InHand(r) PROVE FALSE
    <3>1. p.t > 0
      BY <2>4 DEF Job
    <3>2. p \in JobsDue(r)
      BY <1>1, <2>6, <3>1 DEF Dues, Matched, Agrees
    <3>3. p.t = assimilation_cycle
      BY <3>2 DEF JobsDue, DueDatesOf, Ledger, JobIdsFresh
    <3> QED
      BY <2>4, <3>3 DEF Job, TypeOK, ServerTypeOK
  <2>7. Awaited(p)'
    BY <1>1, <2>1, <2>2 DEF Awaited, Due
  <2> QED
    BY <2>4, <2>5, <2>6, <2>7 DEF Issued
<1> QED
  BY <1>1, <1>3, <1>4 DEF GpAnswered

(* A job that is handed out starts from an older state. *)
LEMMA GivenJobIsAnswer ==
  ASSUME TypeOK, TypeOK', ParentsPast', NEW r \in Runners, handle_job_requests(r)
  PROVE  JobAnswered(r) /\ gp' = gp /\ (\A q \in Runners : q # r => jobs'[q] = jobs[q])
<1>0. jobs \in [Runners -> JobMessage]
  BY DEF TypeOK, RunnerTypeOK
<1>1. jobs[r].type = "request"
  BY DEF handle_job_requests, give_scheduled_job, give_new_job, give_no_job, AsksForJob
<1>2. ASSUME NEW p, NEW kept, GiveJob(r, p, kept)
      PROVE  JobAnswered(r) /\ gp' = gp /\ (\A q \in Runners : q # r => jobs'[q] = jobs[q])
  <2>1. /\ Due(r, generate_job_id, p) \in due_dates'
        /\ jobs' = [jobs EXCEPT ![r] = JobReply(generate_job_id, p, WarmupNSteps)]
        /\ gp' = gp /\ assimilation_cycle' = assimilation_cycle
    BY <1>2 DEF GiveJob
  <2>2. GoodParent(p, r)'
    BY <2>1 DEF ParentsPast, Due
  <2>3. GoodParent(p, r)
    BY <2>1, <2>2 DEF GoodParent
  <2>4. p.t < assimilation_cycle
    BY <2>3, GoodParentIsOlder
  <2> QED
    BY <1>0, <1>1, <2>1, <2>4 DEF JobAnswered
<1>3. CASE give_no_job(r)
  BY <1>0, <1>1, <1>3 DEF give_no_job, JobAnswered
<1> QED
  BY <1>2, <1>3 DEF handle_job_requests, give_scheduled_job, give_new_job

(* Whatever the server does, it answers. *)
LEMMA ServerAnswers ==
  ASSUME TypeOK, TypeOK', Ledger, Ledger', Dues, ParentsPast', ServerStep, NEW q \in Runners
  PROVE  Answered(q)
<1>0. gp \in [Runners -> GpMessage] /\ jobs \in [Runners -> JobMessage]
  BY DEF TypeOK, RunnerTypeOK
<1>1. ASSUME NEW r \in Runners, NEW m, gp' = [gp EXCEPT ![r] = m], jobs' = jobs, GpAnswered(r)
      PROVE  Answered(q)
  BY <1>0, <1>1 DEF Answered
<1>2. ASSUME NEW r \in Runners, accept_weight(r) PROVE Answered(q)
  <2>1. gp[r].type = "weight" /\ gp' = [gp EXCEPT ![r] = Ack(gp[r].state)] /\ jobs' = jobs
    BY <1>2 DEF accept_weight
  <2> QED
    BY <1>0, <1>1, <2>1 DEF GpAnswered
<1>3. ASSUME NEW r \in Runners, accept_delete(r) PROVE Answered(q)
  <2>1. PICK s \in DeleteChoices(gp[r].cached \ Blacklist(r, gp[r].cached)) :
               gp' = [gp EXCEPT ![r] = DeleteReply(s)]
    BY <1>3 DEF accept_delete
  <2>2. s \in gp[r].cached \ Blacklist(r, gp[r].cached)
    BY <2>1 DEF DeleteChoices, First
  <2>5. Spared(r, s)
    BY <1>3, <2>2 DEF Blacklist, Spared, accept_delete, Heard
  <2>3. gp[r].type = "delete" /\ jobs' = jobs
    BY <1>3 DEF accept_delete
  <2>4. gp'[r] = DeleteReply(s)
    BY <1>0, <2>1
  <2> QED
    BY <1>1, <2>1, <2>2, <2>3, <2>4, <2>5 DEF GpAnswered
<1>4. ASSUME NEW r \in Runners, accept_prefetch(r) PROVE Answered(q)
  <2>1. jobs' = jobs /\ \E m : gp' = [gp EXCEPT ![r] = m]
    BY <1>4 DEF accept_prefetch
  <2> QED
    BY <1>1, <1>4, <2>1, PrefetchedIsElsewhere
<1>5. ASSUME NEW r \in Runners, handle_job_requests(r) PROVE Answered(q)
  BY <1>5, GivenJobIsAnswer DEF Answered
<1>6. ASSUME NEW r \in Runners, ignore_faulty(r) PROVE Answered(q)
  <2>1. CASE /\ gp[r].type \in {"weight", "delete", "prefetch"}
             /\ gp' = [gp EXCEPT ![r] = EmptyReply(gp[r])]
             /\ UNCHANGED jobs
    <3>1. gp'[r] = EmptyReply(gp[r])
      BY <1>0, <2>1
    <3>2. GpAnswered(r)
      BY <2>1, <3>1 DEF GpAnswered, EmptyReply
    <3> QED
      BY <1>1, <2>1, <3>2
  <2>2. CASE /\ jobs[r].type = "request"
             /\ jobs' = [jobs EXCEPT ![r] = NoJob] /\ UNCHANGED gp
    BY <1>0, <2>2 DEF Answered, JobAnswered
  <2> QED
    BY <1>6, <2>1, <2>2 DEF ignore_faulty
<1>7. ASSUME UNCHANGED channels PROVE Answered(q)
  BY <1>7 DEF Answered, channels
<1>8. ASSUME NEW r \in Runners, raises(r) PROVE Answered(q)
  BY <1>7, <1>8 DEF raises, Fault
<1>9. CASE check_violations \/ stop
  BY <1>7, <1>9 DEF check_violations, stop
<1> QED
  BY <1>2, <1>3, <1>4, <1>5, <1>6, <1>8, <1>9 DEF ServerStep, handle_general_purpose

(* The server leaves the pools in order. *)
LEMMA ServerKeepsPools ==
  ASSUME TypeOK, TypeOK', Ledger, Ledger', Dues, ParentsPast', ServerMoves,
         NEW r \in Runners, InPool(r)
  PROVE  InPool(r)'
<1>1. ServerStep /\ UNCHANGED <<runner, storage>>
  BY DEF ServerMoves, ServerStep
<1>2. \A s \in State : Issued(s) => Issued(s)'
  BY <1>1, IssuedStays
<1>3. Answered(r)
  BY <1>1, ServerAnswers
<1>4. CASE gp'[r] = gp[r] /\ jobs'[r] = jobs[r]
  BY <1>1, <1>2, <1>4, PoolLeft DEF runner, storage
<1>5. CASE gp'[r] = gp[r] /\ JobAnswered(r)
  BY <1>1, <1>2, <1>5, JobAnswerKeepsPool
<1>6. CASE jobs'[r] = jobs[r] /\ GpAnswered(r)
  BY <1>1, <1>2, <1>6, GpAnswerKeepsPool
<1> QED
  BY <1>3, <1>4, <1>5, <1>6 DEF Answered

-----------------------------------------------------------------------------
(***************************************************************************)
(* The application.                                                        *)
(***************************************************************************)
(* Each of its moves is one that WeightServer allows, or none of those.    *)
LEMMA AppMovesImplement ==
  ASSUME TypeOK, NEW r \in Runners, InPool(r), AppMoves(r)
  PROVE  AppStep(r) \/ UNCHANGED vars
<1>1. CASE StoreState(r) \/ LookUp(r) \/ CheckAnswer(r)
  BY <1>1 DEF StoreState, LookUp, CheckAnswer
<1>2. CASE PostState(r)
  BY <1>2 DEF PostState, Runs, Computing, NextState, AppStep, Expose
<1>3. CASE ReceiveJob(r)
  BY <1>3 DEF ReceiveJob, AppStep
<1>4. CASE ReadState(r)
  <2>1. up[r] = "up" /\ load[r] # "idle"
    BY <1>4 DEF ReadState, Runs
  <2>2. CASE app[r].parent \in l1[r]
    <3>1. app[r].parent \in Local(r)
      BY <2>1, <2>2 DEF InPool, Stored, LoadsParent, Computing
    <3> QED
      BY <1>4, <2>1, <2>2, <3>1 DEF ReadState, AppStep, Load
  <2>3. CASE app[r].parent \notin l1[r]
    BY <1>4, <2>3 DEF ReadState, vars, runner
  <2> QED
    BY <2>2, <2>3
<1> QED
  BY <1>1, <1>2, <1>3, <1>4 DEF AppMoves

(* A state is stored, or the application comes closer to its parent. *)
LEMMA LoadKeepsPool ==
  ASSUME TypeOK, StorageTypeOK, NEW r \in Runners, InPool(r),
         StoreState(r) \/ LookUp(r) \/ CheckAnswer(r)
  PROVE  InPool(r)'
<1>0. UNCHANGED vars /\ UNCHANGED <<used, staged>>
  BY DEF StoreState, LookUp, CheckAnswer
<1>1. UNCHANGED <<assimilation_cycle, next_job_id, gp, jobs, app, posted, head, held, pulls>>
  BY <1>0 DEF vars, server, channels, runner
<1>2. /\ Sent(r)' = Sent(r) /\ Newest(r)' = Newest(r) /\ InFetch(r)' = InFetch(r)
      /\ Local(r)' = Local(r) /\ Computing(r)' = Computing(r)
  BY <1>1 DEF Sent, Newest, InFetch, Local, Computing
<1>3. Unpooled(r)' = Unpooled(r) /\ Pooled(r)' = Pooled(r)
  BY <1>1, <1>2 DEF Unpooled, Pooled
<1>4. InOrder(r)' /\ Apart(r)'
  BY <1>1, <1>2, <1>3 DEF InPool, InOrder, Apart, Issued, Earlier
<1>5. Stored(r)'
  <2>1. CASE StoreState(r)
    <3>1. Computing(r) /\ l1'[r] = l1[r] \cup {NextState(r)}
      BY <2>1 DEF StoreState, StorageTypeOK
    <3> QED
      BY <1>1, <1>2, <3>1 DEF InPool, Stored, NextState
  <2>2. CASE LookUp(r) \/ CheckAnswer(r)
    <3>1. l1' = l1
      BY <2>2 DEF LookUp, CheckAnswer
    <3> QED
      BY <1>1, <1>2, <3>1 DEF InPool, Stored, NextState
  <2> QED
    BY <2>1, <2>2
<1>6. Counted(r)'
  <2>1. failed' = failed \/ failed'[r] = "not_local"
    BY DEF StoreState, LookUp, CheckAnswer, Aborts, StorageTypeOK
  <2>2. failed'[r] = None => failed[r] = None
    BY <2>1, StorageAssumption DEF Failures
  <2> QED
    BY <1>0, <1>1, <2>2 DEF InPool, Counted
<1>7. Talks(r)'
  BY <1>0, <1>1 DEF InPool, Talks
<1>8. LoadsParent(r)'
  <2>1. load'[r] = "idle" \/ app[r].parent # None
    BY DEF InPool, LoadsParent, StoreState, LookUp, CheckAnswer, StorageTypeOK
  <2> QED
    BY <1>1, <2>1 DEF InPool, LoadsParent
<1> QED
  BY <1>4, <1>5, <1>6, <1>7, <1>8 DEF InPool

(* A state is posted. *)
LEMMA PostKeepsPool ==
  ASSUME TypeOK, StorageTypeOK, NEW r \in Runners, InPool(r), PostState(r)
  PROVE  InPool(r)'
<1> DEFINE j == app[r].job
<1>0. /\ UNCHANGED <<assimilation_cycle, next_job_id, gp, app, head, held, pulls>>
      /\ UNCHANGED <<l1, used, staged, load, failed>>
  BY DEF PostState, server, storage
<1>1. /\ jobs[r] = Idle /\ Computing(r) /\ j \in l1[r]
      /\ posted'[r] = posted[r] \cup {j} /\ jobs'[r] = JobRequest
  BY DEF PostState, Computing, NextState, TypeOK, RunnerTypeOK
<1>2. jobs'[r] # Idle /\ jobs'[r].type # "job" /\ jobs[r].type # "job"
  BY <1>1 DEF Idle, JobRequest
<1>3. /\ Sent(r)' = Sent(r) /\ Newest(r) = {j} /\ Newest(r)' = {} /\ InFetch(r)' = InFetch(r)
      /\ Local(r)' = Local(r) \cup {j} /\ ~ Computing(r)'
  BY <1>0, <1>1, <1>2 DEF Sent, Newest, InFetch, Local, Computing
<1>4. Unpooled(r)' = Unpooled(r) /\ Pooled(r)' = Pooled(r)
  BY <1>0, <1>1, <1>3 DEF Unpooled, Pooled
<1>5. \A s \in Sent(r) \cup posted[r] : Earlier(s, j)
  BY <1>3 DEF InPool, InOrder
<1>6. InOrder(r)'
  BY <1>0, <1>1, <1>3, <1>5 DEF InPool, InOrder, Earlier
<1>7. Apart(r)'
  BY <1>0, <1>3, <1>4 DEF InPool, Apart, Issued
<1>8. Stored(r)'
  BY <1>0, <1>1, <1>3 DEF InPool, Stored, NextState
<1>9. Counted(r)' /\ LoadsParent(r)'
  BY <1>0, <1>1, <1>2 DEF InPool, Counted, LoadsParent, Computing
<1>10. Talks(r)'
  <2>1. ASSUME staged[r] # None PROVE staged[r] \in First(posted'[r])
    <3>1. staged[r] \in First(posted[r]) /\ staged[r] \in posted[r]
      BY <2>1 DEF InPool, Talks, First
    <3>2. Before(staged[r], j)
      BY <1>5, <3>1 DEF Earlier, Before
    <3> QED
      BY <1>1, <3>1, <3>2 DEF First
  <2> QED
    BY <1>0, <2>1 DEF InPool, Talks
<1> QED
  BY <1>6, <1>7, <1>8, <1>9, <1>10 DEF InPool

(* The answer to a job request is read. *)
LEMMA ReceiveKeepsPool ==
  ASSUME TypeOK, StorageTypeOK, NEW r \in Runners, InPool(r), ReceiveJob(r)
  PROVE  InPool(r)'
<1>0. /\ UNCHANGED <<assimilation_cycle, next_job_id, gp, posted, head, held, pulls>>
      /\ UNCHANGED <<l1, used, staged, load, failed>>
      /\ RunnerTypeOK
  BY DEF ReceiveJob, ReadJob, server, storage, TypeOK
<1>1. /\ jobs[r] # Idle /\ app[r].parent = None /\ load[r] = "idle"
      /\ Newest(r) = IF jobs[r].type = "job" THEN {jobs[r].job} ELSE {}
  <2>1. jobs[r] # Idle
    BY DEF ReceiveJob, ReadJob, Idle
  <2> QED
    BY <2>1 DEF InPool, LoadsParent, Newest
<1>2. ~ Computing(r) /\ Local(r)' = Local(r) /\ Sent(r)' = Sent(r) /\ Pooled(r)' = Pooled(r)
      /\ InFetch(r)' = InFetch(r)
  BY <1>0, <1>1 DEF Computing, Local, Sent, Pooled, InFetch
<1>3. /\ Newest(r)' = Newest(r)
      /\ app'[r].parent # None => jobs'[r] = Idle /\ app'[r].parent.t < app'[r].job.t
      /\ jobs'[r].type # "job"
  <2>1. CASE jobs[r].type = "none"
    <3>1. jobs'[r] = JobRequest /\ app' = app
      BY <1>0, <2>1 DEF ReceiveJob, ReadJob, RunnerTypeOK
    <3>2. jobs'[r] # Idle /\ jobs'[r].type # "job"
      BY <3>1 DEF JobRequest, Idle
    <3> QED
      BY <1>1, <2>1, <3>1, <3>2 DEF Newest
  <2>2. CASE jobs[r].type = "job"
    <3>1. /\ jobs'[r] = Idle /\ app'[r].job = jobs[r].job
          /\ app'[r].parent \in {None, jobs[r].parent}
      BY <1>0, <2>2 DEF ReceiveJob, ReadJob, RunnerTypeOK, Order
    <3>2. jobs'[r].type # "job"
      BY <3>1 DEF Idle
    <3>3. jobs[r].parent.t < jobs[r].job.t
      BY <2>2 DEF InPool, LoadsParent
    <3> QED
      BY <1>1, <2>2, <3>1, <3>2, <3>3 DEF Newest
  <2> QED
    BY <2>1, <2>2 DEF ReceiveJob, ReadJob
<1>4. InOrder(r)'
  BY <1>0, <1>2, <1>3 DEF InPool, InOrder, Earlier
<1>5. Apart(r)'
  BY <1>0, <1>2, <1>3 DEF InPool, Apart, Issued, Unpooled
<1>6. Stored(r)'
  BY <1>0, <1>2 DEF InPool, Stored
<1>7. Counted(r)' /\ Talks(r)' /\ LoadsParent(r)'
  BY <1>0, <1>1, <1>3 DEF InPool, Counted, Talks, LoadsParent
<1> QED
  BY <1>4, <1>5, <1>6, <1>7 DEF InPool

(* The parent is read, or found missing. *)
LEMMA ReadKeepsPool ==
  ASSUME TypeOK, StorageTypeOK, NEW r \in Runners, InPool(r), ReadState(r)
  PROVE  InPool(r)'
<1>0. /\ UNCHANGED <<assimilation_cycle, next_job_id, gp, jobs, posted, head, held, pulls>>
      /\ UNCHANGED <<l1, used, staged, failed>>
      /\ load[r] = "read"
  BY DEF ReadState, server, channels
<1>1. /\ app'[r].job = app[r].job /\ app'[r].parent \in {None, app[r].parent}
      /\ load'[r] # "idle" => app'[r].parent = app[r].parent
  BY DEF ReadState, TypeOK, RunnerTypeOK, StorageTypeOK
<1>2. app[r].parent # None /\ ~ Computing(r)
  BY <1>0 DEF InPool, LoadsParent, Computing
<1>3. /\ Sent(r)' = Sent(r) /\ Newest(r)' = Newest(r) /\ InFetch(r)' = InFetch(r)
      /\ Local(r)' = Local(r)
  BY <1>0, <1>1 DEF Sent, Newest, InFetch, Local
<1>4. Unpooled(r)' = Unpooled(r) /\ Pooled(r)' = Pooled(r)
  BY <1>0, <1>3 DEF Unpooled, Pooled
<1>5. InOrder(r)' /\ Apart(r)'
  BY <1>0, <1>3, <1>4 DEF InPool, InOrder, Apart, Issued, Earlier
<1>6. Stored(r)'
  BY <1>0, <1>2, <1>3 DEF InPool, Stored
<1>7. Counted(r)' /\ Talks(r)' /\ LoadsParent(r)'
  BY <1>0, <1>1, <1>2 DEF InPool, Counted, Talks, LoadsParent
<1> QED
  BY <1>5, <1>6, <1>7 DEF InPool

(* Whatever the application does. *)
LEMMA AppMovesKeepPool ==
  ASSUME TypeOK, StorageTypeOK, NEW r \in Runners, InPool(r), AppMoves(r)
  PROVE  InPool(r)'
BY LoadKeepsPool, PostKeepsPool, ReceiveKeepsPool, ReadKeepsPool DEF AppMoves

-----------------------------------------------------------------------------
(***************************************************************************)
(* The head rank.                                                          *)
(***************************************************************************)
(* Each of its moves is one that WeightServer allows, or none of those: its*)
(* counter and the local storage say what its list of cached states says.  *)
LEMMA HeadMovesImplement ==
  ASSUME TypeOK, StorageTypeOK, NEW r \in Runners, InPool(r), HeadMoves(r)
  PROVE  HeadStep(r) \/ UNCHANGED vars
<1>0. /\ pool_free(r) = Free(r)
      /\ failed[r] = None => Free(r) >= 0
      /\ Free(r) \in Int
  <2>1. used[r] \in Int /\ CacheSlots \in Nat
    BY BoundsAssumption DEF StorageTypeOK
  <2> QED
    BY <2>1 DEF InPool, Counted, pool_free, Free
<1>1. CASE StageToGlobal(r) \/ RemoveOldest(r)
  BY <1>1 DEF StageToGlobal, RemoveOldest
<1>2. CASE ReportWeight(r)
  <2>1. /\ up[r] = "up" /\ gp[r] = Idle /\ head[r] = AtRest /\ staged[r] \in First(posted[r])
    BY <1>2 DEF ReportWeight, Runs, InPool, Talks
  <2>2. staged[r] \in posted[r] /\ \A u \in posted[r] \ {staged[r]} : Before(staged[r], u)
    BY <2>1 DEF First
  <2>3. PushWeight(r)
    BY <1>2, <2>1, <2>2 DEF ReportWeight, PushWeight, HeadReady
  <2> QED
    BY <2>3 DEF HeadStep
<1>3. CASE ReadAck(r)
  BY <1>3 DEF ReadAck, EnterPool, Runs, HeadStep, ReadReply
<1>4. CASE delete_request(r)
  BY <1>0, <1>4 DEF delete_request, NeedsRoom, Runs, HeadStep, AskDelete, HeadReady
<1>5. CASE prefetch_request(r)
  <2>1. Free(r) > 0
    BY <1>0, <1>5 DEF prefetch_request, NeedsRoom, Runs
  <2> QED
    BY <1>5, <2>1 DEF prefetch_request, Runs, HeadStep, AskPrefetch, HeadReady
<1>6. CASE ReadDelete(r)
  BY <1>6 DEF ReadDelete, Runs, HeadStep, ReadReply
<1>7. CASE ReadOther(r)
  BY <1>7 DEF ReadOther, HeadStep
<1>8. CASE TakeLoad(r)
  <2>1. CASE app[r].parent \in l1[r]
    BY <1>8, <2>1 DEF TakeLoad, vars, runner
  <2>2. CASE app[r].parent \notin l1[r]
    <3>1. app[r].parent \notin Local(r) \cup {None}
      BY <1>8, <2>2 DEF TakeLoad, Asking, InPool, Stored, LoadsParent
    <3>2. StartFetch(r)
      BY <1>8, <2>2, <3>1 DEF TakeLoad, HeadIdle, Runs, StartFetch, HeadReady
    <3> QED
      BY <3>2 DEF HeadStep
  <2> QED
    BY <2>1, <2>2
<1>9. CASE TakePull(r)
  <2>1. PICK s \in pulls[r] :
          /\ pulls' = [pulls EXCEPT ![r] = @ \ {s}]
          /\ head' = IF s \in l1[r] THEN head ELSE [head EXCEPT ![r] = Fetching(s)]
    BY <1>9 DEF TakePull
  <2>2. s \in l1[r] <=> s \in held[r]
    <3>1. s \notin Unpooled(r)
      BY DEF InPool, Apart, Pooled
    <3>2. l1[r] \subseteq held[r] \cup Unpooled(r)
      BY DEF InPool, Stored, Local, Unpooled, Sent, Newest, Computing, NextState
    <3>3. held[r] \subseteq l1[r]
      BY DEF InPool, Stored, Local
    <3> QED
      BY <3>1, <3>2, <3>3
  <2>3. StartFetch(r)
    BY <1>9, <2>1, <2>2 DEF TakePull, HeadIdle, Runs, StartFetch, HeadReady
  <2> QED
    BY <2>3 DEF HeadStep
<1>10. CASE FetchState(r)
  <2>1. CASE head[r].state \in l2
    <3>1. Free(r) > 1
      BY <1>0, <1>10 DEF FetchState, NeedsRoom
    <3>2. FinishFetch(r)
      BY <1>10, <2>1, <3>1 DEF FetchState, EnterPool, Runs, FinishFetch, HeadReady
    <3> QED
      BY <3>2 DEF HeadStep
  <2>2. CASE head[r].state \notin l2
    BY <1>10, <2>2 DEF FetchState, vars, runner
  <2> QED
    BY <2>1, <2>2
<1> QED
  BY <1>1, <1>2, <1>3, <1>4, <1>5, <1>6, <1>7, <1>8, <1>9, <1>10 DEF HeadMoves

(* Level 2 is written or cleaned. *)
LEMMA GlobalKeepsPool ==
  ASSUME TypeOK, StorageTypeOK, NEW r \in Runners, InPool(r),
         StageToGlobal(r) \/ RemoveOldest(r)
  PROVE  InPool(r)'
<1>0. UNCHANGED vars /\ UNCHANGED <<l1, used, load>>
  BY DEF StageToGlobal, RemoveOldest
<1>1. UNCHANGED <<assimilation_cycle, next_job_id, gp, jobs, app, posted, head, held, pulls>>
  BY <1>0 DEF vars, server, channels, runner
<1>2. /\ Sent(r)' = Sent(r) /\ Newest(r)' = Newest(r) /\ InFetch(r)' = InFetch(r)
      /\ Local(r)' = Local(r) /\ Computing(r)' = Computing(r)
  BY <1>1 DEF Sent, Newest, InFetch, Local, Computing
<1>3. Unpooled(r)' = Unpooled(r) /\ Pooled(r)' = Pooled(r)
  BY <1>1, <1>2 DEF Unpooled, Pooled
<1>4. InOrder(r)' /\ Apart(r)'
  BY <1>1, <1>2, <1>3 DEF InPool, InOrder, Apart, Issued, Earlier
<1>5. Stored(r)' /\ LoadsParent(r)'
  BY <1>0, <1>1, <1>2 DEF InPool, Stored, NextState, LoadsParent
<1>6. Counted(r)'
  <2>1. failed' = failed \/ failed'[r] = "global_exists"
    BY DEF StageToGlobal, RemoveOldest, Aborts, StorageTypeOK
  <2>2. failed'[r] = None => failed[r] = None
    BY <2>1, StorageAssumption DEF Failures
  <2> QED
    BY <1>0, <1>1, <2>2 DEF InPool, Counted
<1>7. Talks(r)'
  <2>1. CASE staged' = staged
    BY <1>1, <2>1 DEF InPool, Talks
  <2>2. CASE \E s \in First(posted[r]) : staged' = [staged EXCEPT ![r] = s]
    <3>1. gp[r] = Idle /\ head[r] = AtRest
      BY <2>2 DEF StageToGlobal, RemoveOldest, HeadIdle
    <3>2. staged'[r] \in First(posted[r])
      BY <2>2 DEF StorageTypeOK
    <3> QED
      BY <1>1, <3>1, <3>2 DEF Talks, Idle
  <2> QED
    BY <2>1, <2>2 DEF StageToGlobal, RemoveOldest, Oldest
<1> QED
  BY <1>4, <1>5, <1>6, <1>7 DEF InPool

(* The weight is sent. *)
LEMMA ReportKeepsPool ==
  ASSUME TypeOK, Ledger, StorageTypeOK, NEW r \in Runners, InPool(r), ReportWeight(r)
  PROVE  InPool(r)'
<1> DEFINE s == staged[r]
<1>0. /\ UNCHANGED <<assimilation_cycle, next_job_id, jobs, app, held, pulls>>
      /\ UNCHANGED <<l1, used, load, failed>>
      /\ RunnerTypeOK
  BY DEF ReportWeight, server, TypeOK
<1>1. /\ s # None /\ gp[r] = Idle /\ head[r] = AtRest /\ s \in posted[r]
      /\ \A u \in posted[r] \ {s} : Before(s, u)
  BY DEF ReportWeight, InPool, Talks, First
<1>2. /\ posted'[r] = posted[r] \ {s} /\ gp'[r] = WeightMsg(s) /\ head'[r] = AfterWeight
      /\ staged'[r] = None
  BY <1>0 DEF ReportWeight, RunnerTypeOK, StorageTypeOK
<1>3. /\ gp'[r].type = "weight" /\ gp'[r].state = s /\ gp[r].type = "idle"
      /\ head[r].at = "rest" /\ head'[r].at = "post"
  BY <1>1, <1>2 DEF WeightMsg, Idle, AtRest, AfterWeight
<1>4. /\ Sent(r) = {} /\ Sent(r)' = {s} /\ Newest(r)' = Newest(r)
      /\ InFetch(r) = {} /\ InFetch(r)' = {} /\ Computing(r)' = Computing(r)
  BY <1>0, <1>3 DEF Sent, Newest, InFetch, Computing
<1>5. /\ Local(r)' = Local(r) /\ Unpooled(r)' = Unpooled(r) /\ Pooled(r)' = Pooled(r)
  BY <1>0, <1>1, <1>2, <1>3, <1>4 DEF Local, Unpooled, Pooled
<1>6. InOrder(r)'
  <2>1. ASSUME NEW u \in posted[r] \ {s} PROVE Earlier(s, u)
    <3>1. s \in State /\ u \in State
      BY <1>1, AllAreStates
    <3>2. Earlier(s, u) \/ Earlier(u, s)
      BY <1>1 DEF InPool, InOrder
    <3> QED
      BY <1>1, <3>1, <3>2, EarlierIsOrder
  <2> QED
    BY <1>1, <1>2, <1>4, <2>1 DEF InPool, InOrder, Earlier
<1>7. Apart(r)'
  <2>1. Issued(s)
    BY <1>1, HeldIsIssued DEF JobsHeld
  <2> QED
    BY <1>0, <1>4, <1>5, <2>1 DEF InPool, Apart, Issued
<1>8. Stored(r)' /\ Counted(r)' /\ LoadsParent(r)'
  BY <1>0, <1>4, <1>5 DEF InPool, Stored, NextState, Counted, LoadsParent
<1>9. Talks(r)'
  BY <1>2, <1>3 DEF Talks
<1> QED
  BY <1>6, <1>7, <1>8, <1>9 DEF InPool

(* A state that was reported enters the pool. *)
LEMMA AckKeepsPool ==
  ASSUME TypeOK, StorageTypeOK, NEW r \in Runners, InPool(r), ReadAck(r)
  PROVE  InPool(r)'
<1> DEFINE s == gp[r].state
<1>0. /\ UNCHANGED <<assimilation_cycle, next_job_id, jobs, app, posted, head, pulls>>
      /\ UNCHANGED <<l1, staged, load>>
      /\ RunnerTypeOK
  BY DEF ReadAck, server, TypeOK
<1>1. /\ gp[r].type = "ack" /\ gp'[r] = Idle /\ gp'[r].type = "idle"
      /\ held'[r] = held[r] \cup {s} /\ used'[r] = used[r] + 1
      /\ IF used[r] < CacheSlots THEN failed' = failed
         ELSE failed' = [failed EXCEPT ![r] = "overflow"]
  BY <1>0 DEF ReadAck, EnterPool, Aborts, RunnerTypeOK, StorageTypeOK, Idle
<1>2. /\ Sent(r) = {s} /\ Sent(r)' = {} /\ Newest(r)' = Newest(r)
      /\ InFetch(r)' = InFetch(r) /\ Computing(r)' = Computing(r)
  BY <1>0, <1>1 DEF Sent, Newest, InFetch, Computing
<1>3. /\ Local(r)' = Local(r) /\ Unpooled(r)' \subseteq Unpooled(r)
      /\ Pooled(r)' = Pooled(r) \cup {s}
  BY <1>0, <1>1, <1>2 DEF Local, Unpooled, Pooled
<1>4. s \in Unpooled(r) /\ s \notin Pooled(r) /\ s \notin held[r] /\ s \notin InFetch(r)
  BY <1>2 DEF InPool, Apart, Unpooled, Pooled
<1>5. InOrder(r)'
  BY <1>0, <1>2 DEF InPool, InOrder, Earlier
<1>6. Apart(r)'
  <2>1. s \notin Unpooled(r)'
    <3>1. \A u \in posted[r] \cup Newest(r) : Earlier(s, u) /\ u \in State /\ s \in State
      BY <1>2, <1>4, AllAreStates DEF InPool, InOrder, Unpooled
    <3>2. s \notin posted[r] \cup Newest(r)
      BY <3>1, EarlierIsOrder
    <3> QED
      BY <1>0, <1>2, <3>2 DEF Unpooled
  <2> QED
    BY <1>0, <1>1, <1>2, <1>3, <1>4, <2>1 DEF InPool, Apart, Issued
<1>7. Stored(r)'
  BY <1>0, <1>2, <1>3 DEF InPool, Stored, NextState
<1>8. Counted(r)'
  <2>1. IsFiniteSet(held'[r]) /\ Cardinality(held'[r]) = Cardinality(held[r]) + 1
    <3>1. IsFiniteSet(held[r])
      BY DEF InPool, Counted
    <3>2. held'[r] = held[r] \cup {s} /\ s \notin held[r]
      BY <1>1, <1>4
    <3> HIDE DEF s
    <3> QED
      BY <3>1, <3>2, FS_AddElement
  <2>2. failed'[r] = None => used'[r] <= CacheSlots
    BY <1>1, StorageAssumption, BoundsAssumption DEF StorageTypeOK, Failures
  <2> QED
    BY <1>1, <2>1, <2>2 DEF InPool, Counted
<1>9. Talks(r)' /\ LoadsParent(r)'
  BY <1>0, <1>1 DEF InPool, Talks, LoadsParent, Idle
<1> QED
  BY <1>5, <1>6, <1>7, <1>8, <1>9 DEF InPool

(* A request names what is in the pool. *)
LEMMA AskingKeepsPool ==
  ASSUME TypeOK, StorageTypeOK, NEW r \in Runners, InPool(r),
         delete_request(r) \/ prefetch_request(r)
  PROVE  InPool(r)'
<1>0. /\ UNCHANGED <<assimilation_cycle, next_job_id, jobs, runner, storage>>
      /\ UNCHANGED <<app, posted, head, held, pulls, l1, used, staged, load, failed>>
  BY DEF delete_request, prefetch_request, server, runner, storage
<1>1. /\ gp[r] = Idle /\ gp[r].type = "idle" /\ head[r] # AtRest
      /\ gp'[r] \in {DeleteMsg(held[r]), PrefetchMsg(held[r])}
  BY DEF delete_request, prefetch_request, NeedsRoom, TypeOK, RunnerTypeOK, Idle, AtRest
<1>2. /\ gp'[r].type \in {"delete", "prefetch"} /\ gp'[r].cached = held[r]
  BY <1>1 DEF DeleteMsg, PrefetchMsg
<1>3. /\ Sent(r)' = Sent(r) /\ Newest(r)' = Newest(r) /\ InFetch(r)' = InFetch(r)
      /\ Local(r)' = Local(r) /\ Computing(r)' = Computing(r) /\ Pooled(r)' = Pooled(r)
  BY <1>0, <1>1, <1>2 DEF Sent, Newest, InFetch, Local, Computing, Pooled
<1>4. Unpooled(r)' = Unpooled(r)
  BY <1>0, <1>3 DEF Unpooled
<1>5. InOrder(r)' /\ Apart(r)'
  BY <1>0, <1>3, <1>4 DEF InPool, InOrder, Apart, Issued, Earlier
<1>6. Stored(r)' /\ Counted(r)' /\ LoadsParent(r)'
  BY <1>0, <1>3 DEF InPool, Stored, NextState, Counted, LoadsParent
<1>7. Talks(r)'
  BY <1>0, <1>1, <1>2 DEF InPool, Talks
<1> QED
  BY <1>5, <1>6, <1>7 DEF InPool

(* A state leaves the pool and the local storage. *)
LEMMA DeleteKeepsPool ==
  ASSUME TypeOK, StorageTypeOK, NEW r \in Runners, InPool(r), ReadDelete(r)
  PROVE  InPool(r)'
<1> DEFINE s == gp[r].state
<1>0. /\ UNCHANGED <<assimilation_cycle, next_job_id, jobs, app, posted, head, pulls>>
      /\ UNCHANGED <<staged, load>>
      /\ RunnerTypeOK
  BY DEF ReadDelete, server, TypeOK
<1>1. /\ gp[r].type = "deleted" /\ gp'[r] = Idle /\ gp'[r].type = "idle"
      /\ held'[r] = held[r] \ {s} /\ used'[r] = used[r] - 1 /\ l1'[r] = l1[r] \ {s}
      /\ failed' = failed \/ failed'[r] = "not_removed"
  BY <1>0 DEF ReadDelete, LocalWithout, Aborts, RunnerTypeOK, StorageTypeOK, Idle
<1>2. s \in held[r]
  BY <1>1 DEF InPool, Talks
<1>3. /\ Sent(r) = {} /\ Sent(r)' = {} /\ Newest(r)' = Newest(r)
      /\ InFetch(r)' = InFetch(r) /\ Computing(r)' = Computing(r)
  BY <1>0, <1>1 DEF Sent, Newest, InFetch, Computing
<1>4. Unpooled(r)' = Unpooled(r) /\ Pooled(r)' \subseteq Pooled(r)
  BY <1>0, <1>1, <1>3 DEF Unpooled, Pooled
<1>5. s \notin posted[r]
  BY <1>2 DEF InPool, Apart, Unpooled, Pooled
<1>6. Local(r)' = Local(r) \ {s}
  BY <1>0, <1>1, <1>5 DEF Local
<1>7. InOrder(r)'
  BY <1>0, <1>3 DEF InPool, InOrder, Earlier
<1>8. Apart(r)'
  BY <1>0, <1>1, <1>3, <1>4 DEF InPool, Apart, Issued
<1>9. Stored(r)'
  BY <1>0, <1>1, <1>3, <1>6 DEF InPool, Stored, NextState
<1>10. Counted(r)'
  <2>1. IsFiniteSet(held'[r]) /\ Cardinality(held'[r]) = Cardinality(held[r]) - 1
    BY <1>1, <1>2, FS_RemoveElement DEF InPool, Counted
  <2>2. failed'[r] = None => used'[r] <= CacheSlots
    BY <1>1, StorageAssumption, BoundsAssumption DEF InPool, Counted, StorageTypeOK, Failures
  <2> QED
    BY <1>1, <2>1, <2>2 DEF InPool, Counted
<1>11. Talks(r)' /\ LoadsParent(r)'
  BY <1>0, <1>1 DEF InPool, Talks, LoadsParent, Idle
<1> QED
  BY <1>7, <1>8, <1>9, <1>10, <1>11 DEF InPool

(* States to prefetch are queued; an empty answer ends the runner. *)
LEMMA OtherKeepsPool ==
  ASSUME TypeOK, StorageTypeOK, NEW r \in Runners, InPool(r), ReadOther(r)
  PROVE  InPool(r)'
<1>0. /\ UNCHANGED <<assimilation_cycle, next_job_id, jobs, app, posted, storage>>
      /\ UNCHANGED <<l1, used, staged, load, failed>>
      /\ RunnerTypeOK
  BY DEF ReadOther, ReadReply, server, TypeOK, storage
<1>1. /\ gp[r].type \in {"pull", "empty"} /\ gp'[r] = Idle /\ gp'[r].type = "idle"
      /\ held' = held
      /\ pulls'[r] = pulls[r] \cup (IF gp[r].type = "pull" THEN gp[r].states ELSE {})
      /\ head' = head \/ head'[r] = AtRest
  BY <1>0 DEF ReadOther, ReadReply, RunnerTypeOK, Idle
<1>2. /\ Sent(r) = {} /\ Sent(r)' = {} /\ Newest(r)' = Newest(r)
      /\ InFetch(r)' \subseteq InFetch(r) /\ Computing(r)' = Computing(r)
  BY <1>0, <1>1 DEF Sent, Newest, InFetch, Computing, AtRest
<1>3. /\ Unpooled(r)' = Unpooled(r) /\ Pooled(r)' \subseteq Pooled(r) /\ Local(r)' = Local(r)
  BY <1>0, <1>1, <1>2 DEF Unpooled, Pooled, Local
<1>4. InOrder(r)'
  BY <1>0, <1>2 DEF InPool, InOrder, Earlier
<1>5. Apart(r)'
  BY <1>0, <1>1, <1>2, <1>3 DEF InPool, Apart, Issued
<1>6. Stored(r)' /\ Counted(r)' /\ LoadsParent(r)'
  BY <1>0, <1>1, <1>2, <1>3 DEF InPool, Stored, NextState, Counted, LoadsParent
<1>7. Talks(r)'
  BY <1>0, <1>1 DEF InPool, Talks, Idle
<1> QED
  BY <1>4, <1>5, <1>6, <1>7 DEF InPool

(* A state is fetched that is neither in the pool nor about to enter it. *)
LEMMA TakingKeepsPool ==
  ASSUME TypeOK, Ledger, StorageTypeOK, NEW r \in Runners, InPool(r), TakeLoad(r) \/ TakePull(r)
  PROVE  InPool(r)'
<1>0. /\ UNCHANGED <<assimilation_cycle, next_job_id, gp, jobs, app, posted, held>>
      /\ UNCHANGED <<l1, used, staged, failed>>
      /\ RunnerTypeOK
  BY DEF TakeLoad, TakePull, server, channels, TypeOK, storage
<1>1. gp[r] = Idle /\ head[r] = AtRest /\ staged[r] = None /\ InFetch(r) = {}
  BY DEF TakeLoad, TakePull, HeadIdle, AtRest, InFetch
<1>2. /\ Sent(r)' = Sent(r) /\ Newest(r)' = Newest(r) /\ Local(r)' = Local(r)
      /\ Computing(r)' = Computing(r) /\ Unpooled(r)' = Unpooled(r)
  BY <1>0 DEF Sent, Newest, Local, Computing, Unpooled
<1>3. /\ \A s \in InFetch(r)' : s \notin Unpooled(r) /\ s \notin held[r] /\ Issued(s)
      /\ pulls'[r] \subseteq pulls[r]
      /\ load'[r] # "idle" => load[r] # "idle"
  <2>1. CASE TakeLoad(r)
    <3> DEFINE p == app[r].parent
    <3>1. /\ p # None /\ jobs[r] = Idle /\ p.t < app[r].job.t /\ load[r] # "idle"
      BY <2>1 DEF TakeLoad, Asking, InPool, LoadsParent
    <3>2. head' = head \/ (p \notin l1[r] /\ head'[r] = Fetching(p))
      BY <1>0, <2>1 DEF TakeLoad, RunnerTypeOK
    <3>3. InFetch(r)' = {} \/ (p \notin l1[r] /\ InFetch(r)' = {p})
      BY <1>1, <3>2 DEF InFetch, Fetching
    <3>4. p \notin l1[r] => p \notin Unpooled(r) /\ p \notin held[r]
      <4>1. Newest(r) = {app[r].job} /\ app[r].job \in State
        BY <3>1, AllAreStates DEF Newest, Idle
      <4>2. p # app[r].job
        BY <3>1, <4>1 DEF State
      <4> QED
        BY <4>1, <4>2 DEF InPool, Stored, Local, Unpooled, Sent
    <3>5. Issued(p)
      <4>1. Issued(app[r].job) /\ app[r].job \in State /\ p \in State
        BY <1>0, <3>1, HeldIsIssued DEF JobsHeld, RunnerTypeOK
      <4> QED
        BY <3>1, <4>1 DEF Issued, State, TypeOK, ServerTypeOK
    <3>6. pulls' = pulls
      BY <2>1 DEF TakeLoad
    <3> QED
      BY <3>1, <3>3, <3>4, <3>5, <3>6
  <2>2. CASE TakePull(r)
    <3>1. PICK s \in pulls[r] :
            /\ pulls' = [pulls EXCEPT ![r] = @ \ {s}]
            /\ head' = IF s \in l1[r] THEN head ELSE [head EXCEPT ![r] = Fetching(s)]
      BY <2>2 DEF TakePull
    <3>2. head' = head \/ (s \notin l1[r] /\ head'[r] = Fetching(s))
      BY <1>0, <3>1 DEF RunnerTypeOK
    <3>3. InFetch(r)' = {} \/ (s \notin l1[r] /\ InFetch(r)' = {s})
      BY <1>1, <3>2 DEF InFetch, Fetching
    <3>4. s \notin Unpooled(r) /\ Issued(s)
      BY DEF InPool, Apart, Pooled
    <3>5. s \notin l1[r] => s \notin held[r]
      BY DEF InPool, Stored, Local
    <3>6. load' = load /\ pulls'[r] \subseteq pulls[r]
      BY <1>0, <2>2, <3>1 DEF TakePull, storage, RunnerTypeOK
    <3> QED
      BY <3>3, <3>4, <3>5, <3>6
  <2> QED
    BY <2>1, <2>2
<1>4. Pooled(r)' \subseteq Pooled(r) \cup InFetch(r)'
  BY <1>0, <1>3 DEF Pooled
<1>5. InOrder(r)'
  BY <1>0, <1>2 DEF InPool, InOrder, Earlier
<1>6. Apart(r)'
  <2>1. \A s : Issued(s)' <=> Issued(s)
    BY <1>0 DEF Issued
  <2> QED
    BY <1>0, <1>2, <1>3, <1>4, <2>1 DEF InPool, Apart
<1>7. Stored(r)' /\ Counted(r)' /\ LoadsParent(r)'
  BY <1>0, <1>2, <1>3 DEF InPool, Stored, NextState, Counted, LoadsParent
<1>8. Talks(r)'
  BY <1>0, <1>1 DEF Talks, Idle
<1> QED
  BY <1>5, <1>6, <1>7, <1>8 DEF InPool

(* The fetched state enters the pool. *)
LEMMA FetchKeepsPool ==
  ASSUME TypeOK, StorageTypeOK, NEW r \in Runners, InPool(r), FetchState(r)
  PROVE  InPool(r)'
<1> DEFINE s == head[r].state
<1>0. /\ UNCHANGED <<assimilation_cycle, next_job_id, gp, jobs, app, posted, pulls>>
      /\ UNCHANGED <<staged>>
      /\ RunnerTypeOK
  BY DEF FetchState, server, channels, TypeOK
<1>1. head[r].at = "fetch" /\ gp[r] = Idle /\ InFetch(r) = {s} /\ staged[r] = None
  <2>1. head[r].at = "fetch" /\ gp[r] = Idle /\ head[r] # AtRest
    BY DEF FetchState, AtRest
  <2> QED
    BY <2>1 DEF InFetch, InPool, Talks
<1>2. CASE s \in l2
  <2>1. /\ held'[r] = held[r] \cup {s} /\ used'[r] = used[r] + 1 /\ l1'[r] = l1[r] \cup {s}
        /\ head'[r] = AtRest
        /\ IF used[r] < CacheSlots THEN failed' = failed
           ELSE failed' = [failed EXCEPT ![r] = "overflow"]
        /\ load'[r] # "idle" => load[r] # "idle"
    BY <1>0, <1>2 DEF FetchState, EnterPool, Aborts, Answer, RunnerTypeOK, StorageTypeOK
  <2>2. s \notin Unpooled(r) /\ s \notin held[r]
    BY <1>1 DEF InPool, Apart, Pooled
  <2>3. /\ Sent(r)' = Sent(r) /\ Newest(r)' = Newest(r) /\ Computing(r)' = Computing(r)
        /\ InFetch(r)' = {} /\ Unpooled(r)' = Unpooled(r) /\ Local(r)' = Local(r) \cup {s}
    BY <1>0, <2>1 DEF Sent, Newest, Computing, InFetch, Unpooled, Local, AtRest
  <2>4. Pooled(r)' = Pooled(r)
    BY <1>0, <1>1, <2>1, <2>3 DEF Pooled
  <2>5. InOrder(r)'
    BY <1>0, <2>3 DEF InPool, InOrder, Earlier
  <2>6. Apart(r)'
    BY <1>0, <2>3, <2>4 DEF InPool, Apart, Issued
  <2>7. Stored(r)'
    BY <1>0, <2>1, <2>3 DEF InPool, Stored, NextState
  <2>8. Counted(r)'
    <3>1. IsFiniteSet(held'[r]) /\ Cardinality(held'[r]) = Cardinality(held[r]) + 1
      BY <2>1, <2>2, FS_AddElement DEF InPool, Counted
    <3>2. failed'[r] = None => used'[r] <= CacheSlots
      BY <2>1, StorageAssumption, BoundsAssumption DEF StorageTypeOK, Failures
    <3> QED
      BY <2>1, <3>1, <3>2 DEF InPool, Counted
  <2>9. Talks(r)' /\ LoadsParent(r)'
    BY <1>0, <1>1, <2>1 DEF InPool, Talks, LoadsParent, Idle
  <2> QED
    BY <2>5, <2>6, <2>7, <2>8, <2>9 DEF InPool
<1>3. CASE s \notin l2
  <2>1. /\ UNCHANGED <<l1, held, used, head, load>> /\ failed'[r] = "not_global"
    BY <1>3 DEF FetchState, Aborts, StorageTypeOK
  <2>2. /\ Sent(r)' = Sent(r) /\ Newest(r)' = Newest(r) /\ Computing(r)' = Computing(r)
        /\ InFetch(r)' = InFetch(r) /\ Local(r)' = Local(r) /\ Pooled(r)' = Pooled(r)
        /\ Unpooled(r)' = Unpooled(r)
    BY <1>0, <2>1 DEF Sent, Newest, Computing, InFetch, Unpooled, Local, Pooled
  <2>3. InOrder(r)' /\ Apart(r)' /\ Stored(r)'
    BY <1>0, <2>1, <2>2 DEF InPool, InOrder, Apart, Stored, NextState, Issued, Earlier
  <2>4. Counted(r)'
    BY <2>1, StorageAssumption DEF InPool, Counted, Failures
  <2>5. Talks(r)' /\ LoadsParent(r)'
    BY <1>0, <1>1, <2>1 DEF InPool, Talks, LoadsParent
  <2> QED
    BY <2>3, <2>4, <2>5 DEF InPool
<1> QED
  BY <1>2, <1>3

(* Whatever the head rank does. *)
LEMMA HeadMovesKeepPool ==
  ASSUME TypeOK, Ledger, StorageTypeOK, NEW r \in Runners, InPool(r), HeadMoves(r)
  PROVE  InPool(r)'
BY GlobalKeepsPool, ReportKeepsPool, AckKeepsPool, AskingKeepsPool, DeleteKeepsPool, OtherKeepsPool,
   TakingKeepsPool, FetchKeepsPool DEF HeadMoves

-----------------------------------------------------------------------------
(***************************************************************************)
(* The study.                                                              *)
(***************************************************************************)
(* A server that does not find its checkpoints serves nobody: no runner of *)
(* its predecessor is left.                                                *)
Deserted ==
  ~ CheckpointExists =>
    \A r \in Runners : up[r] # "up" /\ held[r] = {} /\ used[r] = 0

(* The inductive invariant: what is known of WeightServer, and the pools. *)
StudyInvariant ==
  /\ Everything /\ ParentsPast
  /\ StorageTypeOK /\ Deserted
  /\ CheckpointExists => \A r \in Runners : InPool(r)

(* A move of a runner, with all it does not touch. *)
Moves(r) == Goes(r) /\ (Begins(r) \/ Dies(r) \/ AppMoves(r) \/ HeadMoves(r))

(* Moves of a runner leave the server alone, and every other runner. *)
LEMMA MovesAreLocal ==
  ASSUME TypeOK, StorageTypeOK, NEW r \in Runners,
         Begins(r) \/ Dies(r) \/ AppMoves(r) \/ HeadMoves(r)
  PROVE  /\ UNCHANGED server /\ restarts' = restarts
         /\ \A q \in Runners \ {r} :
              /\ gp'[q] = gp[q] /\ jobs'[q] = jobs[q] /\ app'[q] = app[q] /\ posted'[q] = posted[q]
              /\ head'[q] = head[q] /\ held'[q] = held[q] /\ pulls'[q] = pulls[q] /\ up'[q] = up[q]
              /\ l1'[q] = l1[q] /\ used'[q] = used[q] /\ staged'[q] = staged[q]
              /\ load'[q] = load[q] /\ dirty'[q] = dirty[q] /\ failed'[q] = failed[q]
              /\ del_q'[q] = del_q[q] /\ own_cycle'[q] = own_cycle[q]
<1>0. RunnerTypeOK
  BY DEF TypeOK
<1>1. CASE Begins(r) \/ Dies(r)
  BY <1>0, <1>1 DEF Begins, Dies, StartRunner, RunnerDies, channels, storage, RunnerTypeOK
<1>2. CASE AppMoves(r)
  BY <1>0, <1>2 DEF AppMoves, StoreState, PostState, ReceiveJob, ReadJob, LookUp, CheckAnswer, ReadState,
     Aborts, vars, channels, runner, storage, RunnerTypeOK, StorageTypeOK
<1>3. CASE HeadMoves(r)
  <2>1. CASE StageToGlobal(r) \/ ReportWeight(r) \/ RemoveOldest(r)
    BY <1>0, <2>1 DEF StageToGlobal, ReportWeight, RemoveOldest, Aborts, vars, channels, runner,
       RunnerTypeOK, StorageTypeOK
  <2>2. CASE ReadAck(r) \/ delete_request(r) \/ prefetch_request(r)
    BY <1>0, <2>2 DEF ReadAck, EnterPool, delete_request, prefetch_request, Aborts, runner, storage,
       RunnerTypeOK, StorageTypeOK
  <2>3. CASE ReadDelete(r) \/ ReadOther(r)
    BY <1>0, <2>3 DEF ReadDelete, LocalWithout, ReadOther, ReadReply, Aborts, storage,
       RunnerTypeOK, StorageTypeOK
  <2>4. CASE TakeLoad(r) \/ TakePull(r)
    BY <1>0, <2>4 DEF TakeLoad, TakePull, channels, storage, RunnerTypeOK, StorageTypeOK
  <2>5. CASE FetchState(r)
    BY <1>0, <2>5 DEF FetchState, EnterPool, Aborts, channels, RunnerTypeOK, StorageTypeOK
  <2> QED
    BY <1>3, <2>1, <2>2, <2>3, <2>4, <2>5 DEF HeadMoves
<1> QED
  BY <1>1, <1>2, <1>3

(* A runner that starts or dies takes nothing with it. *)
LEMMA LifeKeepsPool ==
  ASSUME TypeOK, NEW r \in Runners, InPool(r), Begins(r) \/ Dies(r)
  PROVE  InPool(r)'
<1>1. /\ UNCHANGED <<server, channels, app, posted, head, held, pulls, storage>>
  BY DEF Begins, Dies, StartRunner, RunnerDies
<1> QED
  BY <1>1, PoolLeft DEF server, channels, storage, Issued

(* A move of a runner keeps all pools in order. *)
LEMMA MovesKeepPools ==
  ASSUME TypeOK, Ledger, StorageTypeOK, NEW r \in Runners, Moves(r), NEW q \in Runners, InPool(q)
  PROVE  InPool(q)'
<1>1. CASE q = r
  BY <1>1, LifeKeepsPool, AppMovesKeepPool, HeadMovesKeepPool DEF Moves
<1>2. CASE q # r
  <2>1. UNCHANGED server /\ q \in Runners \ {r}
    BY <1>2, MovesAreLocal DEF Moves
  <2>2. \A s \in State : Issued(s) => Issued(s)'
    BY <2>1 DEF Issued, server
  <2> QED
    BY <2>1, <2>2, MovesAreLocal, PoolLeft DEF Moves
<1> QED
  BY <1>1, <1>2

(* New runners with a new server. *)
LEMMA FreshPools ==
  ASSUME gp = Silent, jobs = Silent, app = BaseJobs, posted = Nothing, head = HeadsAtRest,
         held = Nothing, pulls = Nothing, l1 = Nothing, used = Zero, staged = NoneYet,
         load = NoLoad, failed = NoneYet, NEW r \in Runners
  PROVE  InPool(r)
<1>1. /\ gp[r] = Idle /\ jobs[r] = Idle /\ app[r] = Order(BaseState(r), None)
      /\ posted[r] = {} /\ head[r] = AtRest /\ held[r] = {} /\ pulls[r] = {}
      /\ l1[r] = {} /\ used[r] = 0 /\ staged[r] = None /\ load[r] = "idle" /\ failed[r] = None
  BY DEF Silent, BaseJobs, Nothing, HeadsAtRest, Zero, NoneYet, NoLoad
<1>2. /\ gp[r].type = "idle" /\ jobs[r].type = "idle" /\ app[r].job = BaseState(r)
      /\ app[r].parent = None /\ head[r].at = "rest"
  BY <1>1 DEF Idle, Order, AtRest
<1>3. Sent(r) = {} /\ Newest(r) = {BaseState(r)} /\ InFetch(r) = {} /\ Local(r) = {} /\ Pooled(r) = {}
  BY <1>1, <1>2 DEF Sent, Newest, InFetch, Local, Pooled
<1>4. InOrder(r) /\ Apart(r) /\ Stored(r)
  BY <1>1, <1>3 DEF InOrder, Apart, Stored
<1>5. Counted(r)
  BY <1>1, FS_EmptySet, BoundsAssumption DEF Counted
<1>6. Talks(r) /\ LoadsParent(r)
  BY <1>1, <1>2 DEF Talks, LoadsParent
<1> QED
  BY <1>4, <1>5, <1>6 DEF InPool

(* After a restart. *)
LEMMA RestartPools ==
  ASSUME StudyRestart, CheckpointExists', NEW r \in Runners
  PROVE  InPool(r)'
<1>1. (/\ gp = Silent /\ jobs = Silent /\ app = BaseJobs /\ posted = Nothing /\ head = HeadsAtRest
       /\ held = Nothing /\ pulls = Nothing /\ l1 = Nothing /\ used = Zero /\ staged = NoneYet
       /\ load = NoLoad /\ failed = NoneYet)'
  BY DEF StudyRestart, restart, StartsWith, Fault, CheckpointExists
<1> QED
  BY <1>1, FreshPools, PTL

(* At the start. *)
LEMMA InitStudyInvariant == StudyInit => StudyInvariant
<1> SUFFICES ASSUME StudyInit PROVE StudyInvariant
  OBVIOUS
<1>1. Init /\ Everything /\ ParentsPast
  BY InitEverything, InitParents DEF StudyInit
<1>2. StorageTypeOK
  BY DEF StudyInit, StorageTypeOK, Nothing, Zero, Unwritten, FirstCycle, NoneYet, NoLoad, LoadStates
<1>3. CheckpointExists /\ \A r \in Runners : InPool(r)
  BY FreshPools DEF StudyInit, Init, CheckpointExists
<1> QED
  BY <1>1, <1>2, <1>3 DEF StudyInvariant, Deserted

(* The study does what WeightServer allows. *)
LEMMA StudyStepImplements ==
  ASSUME StudyInvariant, [StudyNext]_study
  PROVE  [Next]_vars
<1>0. TypeOK /\ StorageTypeOK /\ Deserted /\ (CheckpointExists => \A r \in Runners : InPool(r))
  BY DEF StudyInvariant, Everything, Invariants
<1>1. CASE ServerMoves
  BY <1>1 DEF ServerMoves, Next
<1>2. CASE StudyRestart
  BY <1>2 DEF StudyRestart, Next
<1>3. ASSUME NEW r \in Runners, Moves(r) PROVE [Next]_vars
  <2>1. Goes(r) /\ InPool(r)
    BY <1>0, <1>3 DEF Moves, Goes, Serving, CheckpointExists
  <2>2. CASE Begins(r) \/ Dies(r)
    BY <2>1, <2>2 DEF Begins, Dies, Next, RunnerStep
  <2>3. CASE AppMoves(r)
    BY <1>0, <2>1, <2>3, AppMovesImplement DEF Next, RunnerStep
  <2>4. CASE HeadMoves(r)
    BY <1>0, <2>1, <2>4, HeadMovesImplement DEF Next, RunnerStep
  <2> QED
    BY <1>3, <2>2, <2>3, <2>4 DEF Moves
<1>4. CASE UNCHANGED study
  BY <1>4 DEF study
<1> QED
  BY <1>1, <1>2, <1>3, <1>4 DEF StudyNext, Moves

(* Types of the storage. *)
LEMMA StudyStepTyped ==
  ASSUME StudyInvariant, [StudyNext]_study
  PROVE  StorageTypeOK'
<1>0. TypeOK /\ RunnerTypeOK /\ StorageTypeOK
  BY DEF StudyInvariant, Everything, Invariants, TypeOK
<1>1. ASSUME UNCHANGED storage PROVE StorageTypeOK'
  BY <1>0, <1>1 DEF StorageTypeOK, storage
<1>8. ASSUME NEW r \in Runners, NEW s, EnterPool(r, s)
      PROVE  used' \in [Runners -> Int] /\ failed' \in [Runners -> Failures \cup {None}]
  <2>1. used[r] + 1 \in Int /\ "overflow" \in Failures
    BY <1>0 DEF StorageTypeOK, Failures
  <2>2. /\ used' = [used EXCEPT ![r] = used[r] + 1]
        /\ failed' = failed \/ failed' = [failed EXCEPT ![r] = "overflow"]
    BY <1>8 DEF EnterPool, Aborts
  <2> QED
    BY <1>0, <2>1, <2>2 DEF StorageTypeOK
<1>2. CASE ServerMoves
  BY <1>1, <1>2 DEF ServerMoves
<1>3. CASE StudyRestart
  BY <1>0, <1>3 DEF StudyRestart, StorageTypeOK, Nothing, Zero, Unwritten, FirstCycle, NoneYet,
     NoLoad, LoadStates
<1>4. ASSUME NEW r \in Runners, AppMoves(r) PROVE StorageTypeOK'
  <2>1. NextState(r) \in State
    BY <1>0 DEF NextState, RunnerTypeOK
  <2>2. CASE StoreState(r)
    BY <1>0, <2>1, <2>2 DEF StoreState, StorageTypeOK
  <2>3. CASE PostState(r) \/ ReceiveJob(r)
    BY <1>1, <2>3 DEF PostState, ReceiveJob
  <2>4. CASE LookUp(r)
    BY <1>0, <2>4 DEF LookUp, StorageTypeOK, LoadStates, Asking
  <2>5. CASE CheckAnswer(r)
    BY <1>0, <2>5 DEF CheckAnswer, Aborts, StorageTypeOK, LoadStates, Asking, Failures
  <2>6. CASE ReadState(r)
    <3>1. dirty[r] + 1 \in Nat /\ 0 \in Nat /\ "again" \in LoadStates /\ "idle" \in LoadStates
      BY <1>0 DEF StorageTypeOK, LoadStates, Asking
    <3>2. load' \in [Runners -> LoadStates] /\ dirty' \in [Runners -> Nat]
      BY <1>0, <2>6, <3>1 DEF ReadState, StorageTypeOK
    <3>3. UNCHANGED <<l1, l2, used, del_q, own_cycle, staged, failed>>
      BY <2>6 DEF ReadState
    <3> QED
      BY <1>0, <3>2, <3>3 DEF StorageTypeOK
  <2> QED
    BY <1>4, <2>2, <2>3, <2>4, <2>5, <2>6 DEF AppMoves
<1>5. ASSUME NEW r \in Runners, HeadMoves(r) PROVE StorageTypeOK'
  <2>1. posted[r] \subseteq State
    BY <1>0 DEF RunnerTypeOK
  <2>2. CASE StageToGlobal(r)
    <3>1. PICK s \in Oldest(posted[r]) :
            \/ Aborts(r, "global_exists") /\ UNCHANGED <<l2, staged>>
            \/ l2' = l2 \cup {s} /\ staged' = [staged EXCEPT ![r] = s] /\ UNCHANGED failed
      BY <2>2 DEF StageToGlobal
    <3>2. s \in State
      BY <2>1, <3>1 DEF Oldest, First
    <3> QED
      BY <1>0, <2>2, <3>1, <3>2 DEF StageToGlobal, Aborts, StorageTypeOK, Failures
  <2>3. CASE ReportWeight(r)
    BY <1>0, <2>3 DEF ReportWeight, StorageTypeOK
  <2>4. CASE ReadAck(r)
    <3>1. gp[r].state \in State
      BY <1>0, <2>4, GpContents DEF ReadAck, RunnerTypeOK
    <3>2. gp[r].state.t \in Nat
      BY <3>1 DEF State
    <3>3. own_cycle' \in [Runners -> Nat]
      BY <1>0, <2>4, <3>2 DEF ReadAck, Latest, StorageTypeOK
    <3>4. del_q' \in [Runners -> Seq(State)]
      BY <1>0, <2>4, <3>1 DEF ReadAck, StorageTypeOK
    <3>5. used' \in [Runners -> Int] /\ failed' \in [Runners -> Failures \cup {None}]
      BY <1>8, <2>4 DEF ReadAck
    <3>6. UNCHANGED <<l1, l2, staged, load, dirty>>
      BY <2>4 DEF ReadAck
    <3> QED
      BY <1>0, <3>3, <3>4, <3>5, <3>6 DEF StorageTypeOK
  <2>5. CASE delete_request(r) \/ prefetch_request(r) \/ ReadOther(r) \/ TakePull(r)
    BY <1>1, <2>5 DEF delete_request, prefetch_request, ReadOther, TakePull
  <2>6. CASE ReadDelete(r)
    <3>1. used[r] - 1 \in Int /\ "not_removed" \in Failures
      BY <1>0 DEF StorageTypeOK, Failures
    <3>2. /\ used' = [used EXCEPT ![r] = used[r] - 1]
          /\ l1' = [l1 EXCEPT ![r] = l1[r] \ {gp[r].state}]
          /\ failed' = failed \/ failed' = [failed EXCEPT ![r] = "not_removed"]
          /\ UNCHANGED <<l2, del_q, own_cycle, staged, load, dirty>>
      BY <2>6 DEF ReadDelete, LocalWithout, Aborts
    <3> QED
      BY <1>0, <3>1, <3>2 DEF StorageTypeOK
  <2>7. CASE TakeLoad(r)
    BY <1>0, <2>7 DEF TakeLoad, Answer, Fetched, StorageTypeOK, LoadStates, Asking
  <2>8. CASE FetchState(r)
    <3>1. head[r].state \in State
      <4>1. head[r] \in {AtRest, AfterWeight} \cup [at : {"fetch"}, state : State]
        BY <1>0 DEF RunnerTypeOK
      <4> QED
        BY <2>8, <4>1 DEF FetchState, AtRest, AfterWeight
    <3>2. load' \in [Runners -> LoadStates]
      BY <1>0, <2>8 DEF FetchState, Answer, StorageTypeOK, LoadStates, Asking
    <3>3. /\ l1' \in [Runners -> SUBSET State] /\ used' \in [Runners -> Int]
          /\ failed' \in [Runners -> Failures \cup {None}]
      <4>1. CASE head[r].state \in l2
        <5>1. EnterPool(r, head[r].state) /\ l1' = [l1 EXCEPT ![r] = l1[r] \cup {head[r].state}]
          BY <2>8, <4>1 DEF FetchState
        <5> QED
          BY <1>0, <1>8, <3>1, <5>1 DEF StorageTypeOK
      <4>2. CASE head[r].state \notin l2
        BY <1>0, <2>8, <4>2 DEF FetchState, Aborts, StorageTypeOK, Failures
      <4> QED
        BY <4>1, <4>2
    <3>4. UNCHANGED <<l2, del_q, own_cycle, staged, dirty>>
      BY <2>8 DEF FetchState
    <3> QED
      BY <1>0, <3>2, <3>3, <3>4 DEF StorageTypeOK
  <2>9. CASE RemoveOldest(r)
    <3>1. del_q[r] \in Seq(State) /\ del_q[r] # << >>
      BY <1>0, <2>9 DEF RemoveOldest, StorageTypeOK
    <3>2. Tail(del_q[r]) \in Seq(State)
      BY <3>1
    <3>3. /\ del_q' = [del_q EXCEPT ![r] = Tail(del_q[r])] /\ l2' \subseteq l2
          /\ UNCHANGED <<l1, used, own_cycle, staged, load, dirty, failed>>
      BY <2>9 DEF RemoveOldest
    <3>4. del_q' \in [Runners -> Seq(State)]
      BY <1>0, <3>2, <3>3 DEF StorageTypeOK
    <3> QED
      BY <1>0, <3>3, <3>4 DEF StorageTypeOK
  <2> QED
    BY <1>5, <2>2, <2>3, <2>4, <2>5, <2>6, <2>7, <2>8, <2>9 DEF HeadMoves
<1>6. ASSUME NEW r \in Runners, Begins(r) \/ Dies(r) PROVE StorageTypeOK'
  BY <1>1, <1>6 DEF Begins, Dies
<1>7. CASE UNCHANGED study
  BY <1>1, <1>7 DEF study
<1> QED
  BY <1>2, <1>3, <1>4, <1>5, <1>6, <1>7 DEF StudyNext

(* The server that serves found its checkpoints. *)
LEMMA ServerHasCheckpoints ==
  ASSUME ServerStep
  PROVE  CheckpointExists /\ CheckpointExists'
<1>1. ASSUME NEW r \in Runners, raises(r) PROVE status' # "no_checkpoint"
  BY <1>1 DEF raises, Raised, accept_weight_raises, accept_delete_raises,
     accept_prefetch_raises, handle_job_requests_raises, Fault
<1>2. ASSUME NEW r \in Runners, accept_weight(r) PROVE status' # "no_checkpoint"
  BY <1>2 DEF accept_weight, Heard, Serving, maybe_update, do_update_step
<1>3. CASE stop
  BY <1>3 DEF stop, CheckpointExists
<1>4. ASSUME status = "up", UNCHANGED status \/ status' # "no_checkpoint"
      PROVE  CheckpointExists /\ CheckpointExists'
  BY <1>4 DEF CheckpointExists
<1> QED
  BY <1>1, <1>2, <1>3, <1>4 DEF ServerStep, handle_general_purpose, handle_job_requests,
     accept_weight, accept_delete, accept_prefetch, give_scheduled_job, give_new_job, give_no_job,
     GiveJob, AsksForJob, Heard, Serving, ignore_faulty, raises, check_violations, server

(* A restart without checkpoints leaves no runner behind. *)
LEMMA DesertedStays ==
  ASSUME StudyInvariant, [StudyNext]_study
  PROVE  Deserted'
<1>0. TypeOK /\ RunnerTypeOK /\ StorageTypeOK /\ Deserted
  BY DEF StudyInvariant, Everything, Invariants, TypeOK
<1>1. CASE StudyRestart
  <2>1. /\ up' = [r \in Runners |-> IF up[r] = "up" THEN "killed" ELSE up[r]]
        /\ held' = Nothing /\ used' = Zero
    BY <1>1 DEF StudyRestart, restart
  <2>2. \A r \in Runners : up'[r] # "up" /\ held'[r] = {} /\ used'[r] = 0
    BY <1>0, <2>1 DEF RunnerTypeOK, Nothing, Zero
  <2> QED
    BY <2>2 DEF Deserted
<1>2. CASE ServerMoves
  BY <1>2, ServerHasCheckpoints DEF ServerMoves, Deserted, CheckpointExists
<1>3. ASSUME NEW r \in Runners, Moves(r) PROVE Deserted'
  <2>1. UNCHANGED server /\ status = "up"
    BY <1>0, <1>3, MovesAreLocal DEF Moves, Goes, Serving
  <2> QED
    BY <2>1 DEF Deserted, CheckpointExists, server
<1>4. CASE UNCHANGED study
  BY <1>0, <1>4 DEF Deserted, CheckpointExists, study, storage, vars, server, runner
<1> QED
  BY <1>1, <1>2, <1>3, <1>4 DEF StudyNext, Moves

(* Every step keeps the invariant. *)
LEMMA StudyStepKeeps == StudyInvariant /\ [StudyNext]_study => StudyInvariant'
<1> SUFFICES ASSUME StudyInvariant, [StudyNext]_study PROVE StudyInvariant'
  OBVIOUS
<1>1. [Next]_vars
  BY StudyStepImplements
<1>2. Everything /\ TypeOK /\ Ledger /\ Dues /\ ParentsPast /\ StorageTypeOK
  BY DEF StudyInvariant, Everything, Invariants
<1>3. Everything' /\ TypeOK' /\ Ledger'
  BY <1>1, <1>2, NextEverything DEF Everything, Invariants
<1>4. ParentsPast'
  BY <1>1, <1>2, <1>3, NextParents
<1>5. StorageTypeOK' /\ Deserted'
  BY StudyStepTyped, DesertedStays
<1>6. ASSUME CheckpointExists', NEW q \in Runners PROVE InPool(q)'
  <2>1. CASE StudyRestart
    BY <1>6, <2>1, RestartPools
  <2>2. CASE ServerMoves
    <3>1. CheckpointExists
      BY <2>2, ServerHasCheckpoints DEF ServerMoves
    <3> QED
      BY <1>2, <1>3, <1>4, <2>2, <3>1, ServerKeepsPools DEF StudyInvariant
  <2>3. ASSUME NEW r \in Runners, Moves(r) PROVE InPool(q)'
    <3>1. CheckpointExists
      BY <2>3 DEF Moves, Goes, Serving, CheckpointExists
    <3> QED
      BY <1>2, <2>3, <3>1, MovesKeepPools DEF StudyInvariant
  <2>4. CASE UNCHANGED study
    <3>1. CheckpointExists /\ UNCHANGED <<server, channels, runner, storage>>
      BY <1>6, <2>4 DEF study, vars, server, CheckpointExists
    <3>2. \A s \in State : Issued(s) => Issued(s)'
      BY <3>1 DEF Issued, server
    <3> QED
      BY <1>2, <3>1, <3>2, PoolLeft DEF StudyInvariant, channels, runner, storage
  <2> QED
    BY <2>1, <2>2, <2>3, <2>4 DEF StudyNext, Moves
<1> QED
  BY <1>3, <1>4, <1>5, <1>6 DEF StudyInvariant

(* So it is always. *)
LEMMA StudyInvariantHolds == StudySpec => []StudyInvariant
BY InitStudyInvariant, StudyStepKeeps, PTL DEF StudySpec

(***************************************************************************)
(* The runners' code does no more than WeightServer lets its environment   *)
(* do: every theorem about Spec is one about the study with its storage.   *)
(***************************************************************************)
THEOREM StudyImplementsWeightServer == StudySpec => ImplementsWeightServer
<1>1. StudyInit => Init
  BY DEF StudyInit
<1> QED
  BY <1>1, StudyInvariantHolds, StudyStepImplements, PTL DEF StudySpec, ImplementsWeightServer, Spec

(***************************************************************************)
(* state_pool.m_used_slots, m_cached_states and the local storage, which   *)
(* different functions keep, always agree: for all runners, pool sizes,    *)
(* backlogs, timeouts, deaths and restarts.                                *)
(***************************************************************************)
THEOREM PoolsAlwaysAgree == StudySpec => []PoolAgrees
<1>1. StudyInvariant => PoolAgrees
  <2> SUFFICES ASSUME StudyInvariant, NEW r \in Runners
               PROVE  /\ used[r] = Cardinality(held[r])
                      /\ up[r] = "up" =>
                           l1[r] = held[r] \cup (JobsHeld(r) \cap l1[r])
                                    \cup (IF gp[r].type = "ack" THEN {gp[r].state} ELSE {})
                      /\ held[r] \subseteq l1[r]
    BY DEF PoolAgrees
  <2>1. CASE CheckpointExists
    <3>1. InPool(r)
      BY <2>1 DEF StudyInvariant
    <3>2. used[r] = Cardinality(held[r]) /\ held[r] \subseteq l1[r]
      BY <3>1 DEF InPool, Counted, Stored, Local
    <3>3. l1[r] = held[r] \cup (JobsHeld(r) \cap l1[r])
                    \cup (IF gp[r].type = "ack" THEN {gp[r].state} ELSE {})
      BY <3>1 DEF InPool, Stored, Local, NextState, JobsHeld
    <3> QED
      BY <3>2, <3>3
  <2>2. CASE ~ CheckpointExists
    BY <2>2, FS_EmptySet DEF StudyInvariant, Deserted
  <2> QED
    BY <2>1, <2>2
<1> QED
  BY <1>1, StudyInvariantHolds, PTL

-----------------------------------------------------------------------------
(***************************************************************************)
(* What the steps of the server do to parents and jobs.                    *)
(***************************************************************************)
(* Whoever is still needed as a parent. *)
Needed == DOMAIN alpha \cup {d.parent : d \in due_dates}

(* Within a cycle the server only hands out what it has. *)
CycleGoesOn ==
  /\ UNCHANGED <<assimilation_cycle, checkpoint, Over>>
  /\ Over => next_job_id' = next_job_id
  /\ assimilation_cycle > 1 => Needed' \subseteq Needed

(* With the last weight it draws from the results of the cycle. *)
CycleEnds ==
  /\ ~ Over /\ assimilation_cycle' = assimilation_cycle + 1 /\ next_job_id' = 0
  /\ Needed' \subseteq {w.job : w \in {v \in state_weights' : v.job.t = assimilation_cycle}}
  /\ checkpoint' = Put(checkpoint, assimilation_cycle + 1, alpha')

WeightsCome ==
  \A w \in state_weights' :
    w \in state_weights \/ \E r \in Runners : gp[r].type = "weight" /\ w.job = gp[r].state

NewDuesAreNew == \A d \in due_dates' : d \in due_dates \/ d.job = generate_job_id

(* accept_weight takes a result, and may end the cycle. *)
LEMMA AcceptWeightCourse ==
  ASSUME TypeOK, TypeOK', Ledger', NEW r \in Runners, accept_weight(r)
  PROVE  (CycleGoesOn \/ CycleEnds) /\ WeightsCome /\ due_dates' \subseteq due_dates
<1>1. due_dates' \subseteq due_dates /\ status = "up" /\ gp[r].type = "weight"
  BY DEF accept_weight, WithoutDueDate, Heard, Serving
<1>2. WeightsCome
  BY <1>1 DEF accept_weight, WeightsCome, Order
<1>3. PICK n : maybe_update(n, state_weights')
  BY DEF accept_weight
<1>4. CASE ReadyForUpdate(n)
  <2> DEFINE D == WeightedIn(state_weights', assimilation_cycle)
  <2>1. do_update_step(state_weights') /\ alpha = EmptyBag
    BY <1>3, <1>4 DEF maybe_update, ReadyForUpdate
  <2>2. due_dates' = {}
    BY <2>1, NoneOutAtUpdate
  <2>3. PICK drawn \in Resamplings(D) : alpha' = EmptyBag (+) drawn
    BY <2>1 DEF do_update_step
  <2>4. D \subseteq State /\ IsFiniteSet(D)
    BY WeightedStates, JobsAreStates DEF TypeOK, ServerTypeOK
  <2>5. DOMAIN alpha' \subseteq D
    BY <2>3, <2>4, Resampled
  <2>6. Needed' = DOMAIN alpha'
    BY <2>2 DEF Needed
  <2>7. /\ assimilation_cycle' = assimilation_cycle + 1 /\ next_job_id' = 0
        /\ checkpoint' = Put(checkpoint, assimilation_cycle + 1, alpha')
    BY <2>1 DEF do_update_step, CheckpointNumber
  <2> QED
    BY <1>1, <1>2, <2>5, <2>6, <2>7 DEF CycleEnds, Over, WeightedIn
<1>5. CASE ~ ReadyForUpdate(n)
  <2>1. UNCHANGED <<assimilation_cycle, next_job_id, alpha, checkpoint, status>>
    BY <1>3, <1>5 DEF maybe_update
  <2> QED
    BY <1>1, <1>2, <2>1 DEF CycleGoesOn, Over, Needed
<1> QED
  BY <1>1, <1>2, <1>4, <1>5

(* accept_prefetch reserves a copy of a parent. *)
LEMMA AcceptPrefetchCourse ==
  ASSUME TypeOK, NEW r \in Runners, accept_prefetch(r)
  PROVE  CycleGoesOn /\ NewDuesAreNew /\ state_weights' = state_weights
<1>0. UNCHANGED <<assimilation_cycle, checkpoint, status, state_weights>> /\ status = "up"
  BY DEF accept_prefetch, Heard, Serving
<1>1. CASE UNCHANGED <<alpha, due_dates>>
  BY <1>0, <1>1 DEF CycleGoesOn, NewDuesAreNew, Over, Needed
<1>2. CASE /\ Prefetches(r)
           /\ \E p \in ParentChoices(r, runners_last, gp[r].cached) \ {None} :
                /\ alpha' = Taken(alpha, p)
                /\ due_dates' = due_dates \cup {Due(r, generate_job_id, p)}
  <2>1. PICK p \in ParentChoices(r, runners_last, gp[r].cached) \ {None} :
               /\ alpha' = Taken(alpha, p)
               /\ due_dates' = due_dates \cup {Due(r, generate_job_id, p)}
    BY <1>2
  <2>2. assimilation_cycle > 1
    BY <1>2 DEF Prefetches
  <2>3. p \in DOMAIN alpha
    BY <2>1, <2>2, ChoiceKeepsParent
  <2>4. DOMAIN alpha' \subseteq DOMAIN alpha
    BY <2>1, <2>3, TakenOne DEF TypeOK, ServerTypeOK
  <2>5. Due(r, generate_job_id, p).job = generate_job_id /\ Due(r, generate_job_id, p).parent = p
    BY DEF Due
  <2> HIDE DEF generate_job_id
  <2>6. NewDuesAreNew
    BY <2>1, <2>5 DEF NewDuesAreNew
  <2>7. Needed' \subseteq Needed
    BY <2>1, <2>3, <2>4, <2>5 DEF Needed
  <2> QED
    BY <1>0, <2>6, <2>7 DEF CycleGoesOn, Over
<1> QED
  BY <1>1, <1>2 DEF accept_prefetch

(* handle_job_requests hands a copy of a parent to the runner that asks. *)
LEMMA HandleJobRequestsCourse ==
  ASSUME TypeOK, Ledger, NEW r \in Runners, handle_job_requests(r)
  PROVE  /\ CycleGoesOn /\ NewDuesAreNew /\ state_weights' = state_weights
         /\ jobs'[r].type = "job" => Due(r, jobs'[r].job, jobs'[r].parent) \in due_dates'
<1>0. UNCHANGED <<assimilation_cycle, checkpoint, status, state_weights>> /\ status = "up"
  BY DEF handle_job_requests, give_scheduled_job, give_new_job, give_no_job, GiveJob, AsksForJob,
     Heard, Serving
<1>1. ASSUME NEW p, NEW kept, GiveJob(r, p, kept), kept \subseteq due_dates,
             assimilation_cycle > 1 => DOMAIN alpha' \cup {p} \subseteq Needed
      PROVE  /\ CycleGoesOn /\ NewDuesAreNew
             /\ jobs'[r].type = "job" => Due(r, jobs'[r].job, jobs'[r].parent) \in due_dates'
  <2>1. /\ due_dates' = kept \cup {Due(r, generate_job_id, p)}
        /\ jobs' = [jobs EXCEPT ![r] = JobReply(generate_job_id, p, WarmupNSteps)]
    BY <1>1 DEF GiveJob
  <2>2. Due(r, generate_job_id, p).job = generate_job_id /\ Due(r, generate_job_id, p).parent = p
    BY DEF Due
  <2>3. jobs'[r].job = generate_job_id /\ jobs'[r].parent = p
    BY <2>1 DEF JobReply, TypeOK, RunnerTypeOK
  <2> HIDE DEF generate_job_id
  <2>4. NewDuesAreNew
    BY <1>1, <2>1, <2>2 DEF NewDuesAreNew
  <2>5. assimilation_cycle > 1 => Needed' \subseteq Needed
    BY <1>1, <2>1, <2>2 DEF Needed
  <2> QED
    BY <1>0, <2>1, <2>3, <2>4, <2>5 DEF CycleGoesOn, Over
<1>2. CASE give_scheduled_job(r)
  <2> DEFINE p == scheduled_jobs[r].parent
  <2>1. /\ r \in DOMAIN scheduled_jobs /\ alpha' = alpha
        /\ GiveJob(r, p, WithoutDueDate(r, scheduled_jobs[r].job))
    BY <1>2 DEF give_scheduled_job, RemoveFromAlpha
  <2>2. Due(r, scheduled_jobs[r].job, p) \in due_dates
    BY <2>1 DEF Ledger, ScheduledIsDue
  <2>3. Due(r, scheduled_jobs[r].job, p).parent = p
    BY DEF Due
  <2>4. p \in Needed
    BY <2>2, <2>3 DEF Needed
  <2>5. WithoutDueDate(r, scheduled_jobs[r].job) \subseteq due_dates
    BY DEF WithoutDueDate
  <2>6. DOMAIN alpha' \cup {p} \subseteq Needed
    BY <2>1, <2>4 DEF Needed
  <2> HIDE DEF p
  <2> QED
    BY <1>0, <1>1, <2>1, <2>5, <2>6
<1>3. CASE give_new_job(r)
  <2>1. PICK p \in ParentChoices(r, Registered(r), CachedBy(r)) \ {None} :
               /\ alpha' = RemoveFromAlpha(r, p, Offered(p, Registered(r)[r]))
               /\ GiveJob(r, p, due_dates)
    BY <1>3 DEF give_new_job
  <2>2. ASSUME assimilation_cycle > 1 PROVE DOMAIN alpha' \cup {p} \subseteq Needed
    <3>1. p \in DOMAIN alpha
      BY <2>1, <2>2, ChoiceKeepsParent
    <3>2. alpha' = Taken(alpha, p)
      BY <1>3, <2>1, <2>2 DEF RemoveFromAlpha, Offered, give_new_job
    <3>3. DOMAIN alpha' \subseteq DOMAIN alpha
      BY <3>1, <3>2, TakenOne DEF TypeOK, ServerTypeOK
    <3> QED
      BY <3>1, <3>3 DEF Needed
  <2> QED
    BY <1>0, <1>1, <2>1, <2>2
<1>4. CASE give_no_job(r)
  <2>1. UNCHANGED <<alpha, due_dates, next_job_id>> /\ jobs'[r].type = "none"
    BY <1>4 DEF give_no_job, NoJob, TypeOK, RunnerTypeOK
  <2> QED
    BY <1>0, <2>1 DEF CycleGoesOn, NewDuesAreNew, Over, Needed
<1> QED
  BY <1>2, <1>3, <1>4 DEF handle_job_requests

(* A due date that expires gives its parent back. *)
LEMMA CheckViolationsCourse ==
  ASSUME TypeOK, check_violations
  PROVE  CycleGoesOn /\ due_dates' \subseteq due_dates /\ state_weights' = state_weights
<1>1. PICK d \in due_dates : alpha' = alpha (+) One(d.parent) /\ due_dates' = due_dates \ {d}
  BY DEF check_violations, AlphaAfterTimeout
<1>2. UNCHANGED <<assimilation_cycle, next_job_id, checkpoint, status, state_weights>>
  BY DEF check_violations
<1>3. d.parent \in State /\ IsParticleBag(alpha)
  BY DEF TypeOK, ServerTypeOK, DueDate
<1>4. DOMAIN alpha' = DOMAIN alpha \cup {d.parent}
  BY <1>1, <1>3, AddedOne
<1>5. Needed' \subseteq Needed
  BY <1>1, <1>4 DEF Needed
<1> QED
  BY <1>1, <1>2, <1>5 DEF CycleGoesOn, Over

(* All of this, whatever the server does. *)
LEMMA ServerCourse ==
  ASSUME TypeOK, TypeOK', Ledger, Ledger', ServerStep
  PROVE  /\ CycleGoesOn \/ CycleEnds
         /\ WeightsCome /\ NewDuesAreNew
         /\ faulty_runners \subseteq faulty_runners'
         /\ \A q \in Runners : jobs'[q] # jobs[q] /\ jobs'[q].type = "job" =>
              Due(q, jobs'[q].job, jobs'[q].parent) \in due_dates'
<1>1. ASSUME UNCHANGED <<assimilation_cycle, next_job_id, alpha, due_dates, checkpoint, state_weights>>,
             UNCHANGED Over
      PROVE  CycleGoesOn /\ WeightsCome /\ NewDuesAreNew
  BY <1>1 DEF CycleGoesOn, WeightsCome, NewDuesAreNew, Needed
<1>2. ASSUME NEW r \in Runners,
             handle_general_purpose(r) \/ handle_job_requests(r)
               \/ ignore_faulty(r) \/ raises(r)
      PROVE  /\ CycleGoesOn \/ CycleEnds
             /\ WeightsCome /\ NewDuesAreNew
             /\ faulty_runners \subseteq faulty_runners'
             /\ \A q \in Runners : jobs'[q] # jobs[q] /\ jobs'[q].type = "job" =>
                  Due(q, jobs'[q].job, jobs'[q].parent) \in due_dates'
  <2>1. CASE accept_weight(r)
    <3>1. UNCHANGED <<jobs, faulty_runners>>
      BY <2>1 DEF accept_weight
    <3> QED
      BY <2>1, <3>1, AcceptWeightCourse DEF NewDuesAreNew
  <2>2. CASE accept_delete(r)
    BY <1>1, <2>2 DEF accept_delete, Over
  <2>3. CASE accept_prefetch(r)
    <3>1. UNCHANGED <<jobs, faulty_runners>>
      BY <2>3 DEF accept_prefetch
    <3> QED
      BY <2>3, <3>1, AcceptPrefetchCourse DEF WeightsCome
  <2>4. CASE handle_job_requests(r)
    <3>1. faulty_runners' = faulty_runners
      BY <2>4 DEF handle_job_requests, give_scheduled_job, give_new_job, give_no_job, GiveJob
    <3>2. \A q \in Runners : q # r => jobs'[q] = jobs[q]
      <4>1. \E m : jobs' = [jobs EXCEPT ![r] = m]
        BY <2>4 DEF handle_job_requests, give_scheduled_job, give_new_job, give_no_job, GiveJob
      <4> QED
        BY <4>1 DEF TypeOK, RunnerTypeOK
    <3> QED
      BY <2>4, <3>1, <3>2, HandleJobRequestsCourse DEF WeightsCome
  <2>5. CASE ignore_faulty(r)
    <3>1. UNCHANGED server
      BY <2>5 DEF ignore_faulty
    <3>2. \A q \in Runners : jobs'[q] = jobs[q] \/ jobs'[q] = NoJob
      BY <2>5 DEF ignore_faulty, TypeOK, RunnerTypeOK
    <3> QED
      BY <1>1, <3>1, <3>2 DEF server, NoJob, Over
  <2>6. CASE raises(r)
    <3>1. PICK e \in Raised(r) : Fault(e)
      BY <2>6 DEF raises
    <3>2. status = "up" /\ e # "no_checkpoint" /\ e \notin {"stopping", "finished"}
      BY <2>6, <3>1 DEF raises, Heard, Serving, Raised, accept_weight_raises, accept_delete_raises,
         accept_prefetch_raises, handle_job_requests_raises
    <3>3. UNCHANGED Over
      BY <3>1, <3>2 DEF Fault, Over
    <3> QED
      BY <1>1, <3>1, <3>3 DEF Fault, channels
  <2> QED
    BY <1>2, <2>1, <2>2, <2>3, <2>4, <2>5, <2>6 DEF handle_general_purpose
<1>3. CASE check_violations
  <2>1. jobs' = jobs /\ faulty_runners \subseteq faulty_runners'
    BY <1>3 DEF check_violations, channels
  <2> QED
    BY <1>3, <2>1, CheckViolationsCourse DEF WeightsCome, NewDuesAreNew
<1>4. CASE stop
  <2>1. UNCHANGED Over
    BY <1>4 DEF stop, Over
  <2> QED
    BY <1>1, <1>4, <2>1 DEF stop, channels
<1> QED
  BY <1>2, <1>3, <1>4 DEF ServerStep

-----------------------------------------------------------------------------
(***************************************************************************)
(* The job of a runner that is not faulty is due.                          *)
(***************************************************************************)
JobIsDue(r) ==
  r \notin faulty_runners =>
    /\ jobs[r].type = "job" => Due(r, jobs[r].job, jobs[r].parent) \in due_dates
    /\ app[r].parent # None => Due(r, app[r].job, app[r].parent) \in due_dates

JobsAreDue == \A r \in Runners : JobIsDue(r)

(* The server leaves the due date of a job that is in somebody's hands. *)
LEMMA DueStays ==
  ASSUME TypeOK, Ledger, Dues', NewDuesAreNew, NEW r \in Runners, r \notin faulty_runners',
         NEW j, NEW p, Due(r, j, p) \in due_dates, j \in InHand(r)'
  PROVE  Due(r, j, p) \in due_dates'
<1>1. /\ Due(r, j, p).runner = r /\ Due(r, j, p).job = j
      /\ j \in Job /\ j.id < next_job_id /\ next_job_id \in Nat
  BY DEF Due, TypeOK, ServerTypeOK, DueDate, Ledger, JobIdsFresh
<1>2. j.t > 0
  BY <1>1 DEF Job
<1>3. j \in JobsDue(r)'
  BY <1>2 DEF Dues, Matched, Agrees
<1>4. PICK d \in due_dates' : d.runner = r /\ d.job = j
  BY <1>3 DEF JobsDue, DueDatesOf
<1>5. d.job # generate_job_id
  <2>1. generate_job_id.id = next_job_id
    BY DEF generate_job_id
  <2> QED
    BY <1>1, <1>4, <2>1
<1>6. d \in due_dates
  BY <1>4, <1>5 DEF NewDuesAreNew
<1>7. d = Due(r, j, p)
  BY <1>1, <1>4, <1>6 DEF Ledger, DueJobsDistinct
<1> QED
  BY <1>4, <1>7

(* The server. *)
LEMMA ServerKeepsDue ==
  ASSUME StudyInvariant, StudyInvariant', ServerMoves, NEW r \in Runners, JobIsDue(r)
  PROVE  JobIsDue(r)'
<1>0. /\ TypeOK /\ TypeOK' /\ Ledger /\ Ledger' /\ Dues' /\ ServerStep /\ app' = app
      /\ InPool(r) /\ InPool(r)'
  BY ServerHasCheckpoints DEF StudyInvariant, Everything, Invariants, ServerMoves, ServerStep, runner
<1>1. /\ NewDuesAreNew /\ faulty_runners \subseteq faulty_runners'
      /\ jobs'[r] # jobs[r] /\ jobs'[r].type = "job" =>
           Due(r, jobs'[r].job, jobs'[r].parent) \in due_dates'
  BY <1>0, ServerCourse
<1>2. ASSUME r \notin faulty_runners', jobs'[r].type = "job", jobs'[r] = jobs[r]
      PROVE  Due(r, jobs'[r].job, jobs'[r].parent) \in due_dates'
  <2>1. Due(r, jobs[r].job, jobs[r].parent) \in due_dates
    BY <1>1, <1>2 DEF JobIsDue
  <2>2. jobs[r].job \in InHand(r)'
    BY <1>2 DEF InHand
  <2> QED
    BY <1>0, <1>1, <1>2, <2>1, <2>2, DueStays
<1>3. ASSUME r \notin faulty_runners', app[r].parent # None
      PROVE  Due(r, app[r].job, app[r].parent) \in due_dates'
  <2>1. Due(r, app[r].job, app[r].parent) \in due_dates
    BY <1>1, <1>3 DEF JobIsDue
  <2>2. jobs'[r] = Idle
    BY <1>0, <1>3 DEF InPool, LoadsParent
  <2>3. app[r].job \in InHand(r)'
    BY <1>0, <2>2 DEF InHand
  <2> QED
    BY <1>0, <1>1, <1>3, <2>1, <2>3, DueStays
<1> QED
  BY <1>0, <1>1, <1>2, <1>3 DEF JobIsDue

(* What a move does to the application. *)
LEMMA MoveTakesJob ==
  ASSUME StudyInvariant, NEW r \in Runners, Moves(r)
  PROVE  /\ jobs'[r].type = "job" => jobs'[r] = jobs[r]
         /\ \/ app'[r] = app[r] \/ app'[r].parent = None
            \/ /\ jobs[r].type = "job"
               /\ app'[r].job = jobs[r].job /\ app'[r].parent = jobs[r].parent
<1>0. RunnerTypeOK
  BY DEF StudyInvariant, Everything, Invariants, TypeOK
<1>1. ASSUME jobs' = jobs, app' = app
      PROVE  jobs'[r] = jobs[r] /\ app'[r] = app[r]
  BY <1>1
<1>2. CASE PostState(r)
  BY <1>0, <1>2 DEF PostState, JobRequest, RunnerTypeOK
<1>3. CASE ReceiveJob(r)
  <2>1. ReadJob(r)
    BY <1>3 DEF ReceiveJob
  <2>2. CASE jobs[r].type = "none" /\ jobs' = [jobs EXCEPT ![r] = JobRequest] /\ app' = app
    BY <1>0, <2>2 DEF JobRequest, RunnerTypeOK
  <2>3. CASE jobs[r].type = "job"
    BY <1>0, <2>1, <2>3 DEF ReadJob, Idle, Order, RunnerTypeOK
  <2> QED
    BY <2>1, <2>2, <2>3 DEF ReadJob
<1>4. CASE ReadState(r)
  BY <1>0, <1>4 DEF ReadState, channels, RunnerTypeOK
<1>5. CASE StoreState(r) \/ LookUp(r) \/ CheckAnswer(r)
  BY <1>1, <1>5 DEF StoreState, LookUp, CheckAnswer, vars, channels, runner
<1>6. CASE HeadMoves(r)
  BY <1>1, <1>6 DEF HeadMoves, StageToGlobal, ReportWeight, ReadAck, delete_request, prefetch_request,
     ReadDelete, ReadOther, ReadReply, TakeLoad, TakePull, FetchState, RemoveOldest, vars, channels,
     runner
<1>7. CASE Begins(r) \/ Dies(r)
  BY <1>1, <1>7 DEF Begins, Dies, StartRunner, RunnerDies, channels
<1> QED
  BY <1>2, <1>3, <1>4, <1>5, <1>6, <1>7 DEF Moves, AppMoves

(* A runner. *)
LEMMA MovesKeepDue ==
  ASSUME StudyInvariant, NEW r \in Runners, Moves(r), NEW q \in Runners, JobIsDue(q)
  PROVE  JobIsDue(q)'
<1>0. TypeOK /\ StorageTypeOK
  BY DEF StudyInvariant, Everything, Invariants
<1>1. UNCHANGED <<due_dates, faulty_runners>>
  BY <1>0, MovesAreLocal DEF Moves, server
<1>2. CASE q # r
  BY <1>0, <1>1, <1>2, MovesAreLocal DEF Moves, JobIsDue
<1>3. CASE q = r
  BY <1>1, <1>3, MoveTakesJob DEF JobIsDue
<1> QED
  BY <1>2, <1>3

(* Every step. *)
LEMMA StepKeepsDue ==
  ASSUME StudyInvariant, StudyInvariant', JobsAreDue, [StudyNext]_study
  PROVE  JobsAreDue'
<1> SUFFICES ASSUME NEW q \in Runners PROVE JobIsDue(q)'
  BY DEF JobsAreDue
<1>0. JobIsDue(q)
  BY DEF JobsAreDue
<1>1. CASE ServerMoves
  BY <1>0, <1>1, ServerKeepsDue
<1>2. ASSUME NEW r \in Runners, Moves(r) PROVE JobIsDue(q)'
  BY <1>0, <1>2, MovesKeepDue
<1>3. CASE StudyRestart
  <2>1. app'[q].parent = None
    BY <1>3 DEF StudyRestart, restart, BaseJobs, Order
  <2>2. \/ jobs'[q] = Idle
        \/ UNCHANGED <<jobs, due_dates, faulty_runners>>
    BY <1>3 DEF StudyRestart, restart, StartsWith, Fault, channels, Silent
  <2> QED
    BY <1>0, <2>1, <2>2 DEF JobIsDue, Idle
<1>4. CASE UNCHANGED study
  BY <1>0, <1>4 DEF study, vars, server, channels, runner, JobIsDue
<1> QED
  BY <1>1, <1>2, <1>3, <1>4 DEF StudyNext, Moves

(* Jobs are always due. *)
LEMMA JobsAlwaysDue == StudySpec => []JobsAreDue
<1>1. StudyInit => JobsAreDue
  BY DEF StudyInit, Init, JobsAreDue, JobIsDue, Silent, BaseJobs, Order, Idle
<1> QED
  BY <1>1, StepKeepsDue, StudyInvariantHolds, PTL DEF StudySpec

-----------------------------------------------------------------------------
(***************************************************************************)
(* The load of a parent, and the room in the pool.                         *)
(***************************************************************************)
(* The parent is about to be deleted. *)
Doomed(r) == gp[r].type = "deleted" /\ gp[r].state = app[r].parent

(* The application misses its parent, or missed it once. *)
Misses(r) == load[r] \notin {"idle", "read"} \/ dirty[r] > 0

(* Once the application misses its parent, nobody deletes it any more. *)
LoadsWell(r) ==
  /\ Misses(r) => ~ Doomed(r)
  /\ load[r] = "answered" \/ (load[r] = "read" /\ dirty[r] > 0) => app[r].parent \in l1[r]
  /\ load[r] \in {"fetching", "refetching"} => head[r] = Fetching(app[r].parent)
  /\ load[r] \in {"again", "refetching"} => dirty[r] = 1
  /\ dirty[r] > 0 => load[r] \in {"again", "refetching", "read"}
  /\ dirty[r] <= 1
  /\ failed[r] # "not_local"

(* The head rank waits for these answers at the end of a post. *)
AfterPost(r) == gp[r].type \in {"weight", "ack", "prefetch", "pull"} => head[r].at = "post"

(* The pool is full at most until the end of a post. *)
Room(r) ==
  /\ failed[r] \notin {"overflow", "not_removed"}
  /\ failed[r] = None =>
       \/ used[r] < CacheSlots
       \/ /\ used[r] = CacheSlots /\ head[r].at = "post"
          /\ gp[r].type \in {"idle", "delete", "deleted", "empty"}

LoadWell(r) ==
  /\ CheckpointExists => AfterPost(r)
  /\ LoadsWell(r)
  /\ CacheSlots > 0 => Room(r)

AllLoadWell == \A r \in Runners : LoadWell(r)

(* A runner that a step leaves alone. *)
LEMMA LoadLeft ==
  ASSUME NEW r \in Runners, LoadWell(r), CheckpointExists' => CheckpointExists,
         gp'[r] = gp[r], app'[r] = app[r], head'[r] = head[r], l1'[r] = l1[r], used'[r] = used[r],
         load'[r] = load[r], dirty'[r] = dirty[r], failed'[r] = failed[r]
  PROVE  LoadWell(r)'
BY DEF LoadWell, AfterPost, LoadsWell, Misses, Doomed, Room

(* The server answers. *)
LEMMA ServerKeepsLoad ==
  ASSUME StudyInvariant, StudyInvariant', JobsAreDue, ServerMoves, NEW r \in Runners, LoadWell(r)
  PROVE  LoadWell(r)'
<1>0. /\ TypeOK /\ TypeOK' /\ Ledger /\ Ledger' /\ Dues /\ ParentsPast' /\ ServerStep /\ CheckpointExists
      /\ UNCHANGED <<runner, storage>> /\ JobIsDue(r)
  BY ServerHasCheckpoints DEF StudyInvariant, Everything, Invariants, ServerMoves, ServerStep, JobsAreDue
<1>1. UNCHANGED <<app, head, l1, used, load, dirty, failed>>
  BY <1>0 DEF runner, storage
<1>2. CASE gp'[r] = gp[r]
  BY <1>0, <1>1, <1>2, LoadLeft
<1>3. CASE GpAnswered(r)
  <2>1. /\ gp'[r].type \in {"ack", "empty", "deleted", "pull"}
        /\ gp'[r].type = "ack" => gp[r].type = "weight"
        /\ gp'[r].type = "pull" => gp[r].type = "prefetch"
        /\ gp'[r].type = "deleted" => Spared(r, gp'[r].state)
        /\ gp[r].type \in {"weight", "delete", "prefetch"}
        /\ gp'[r].type \in {"empty", "deleted"} => gp[r].type = "delete"
    <3>1. CASE gp[r].type = "weight" /\ gp'[r] = Ack(gp[r].state)
      BY <3>1 DEF Ack
    <3>2. CASE gp[r].type = "delete" /\ gp'[r] = Empty
      BY <3>2 DEF Empty
    <3>3. ASSUME gp[r].type = "delete", NEW s, gp'[r] = DeleteReply(s), Spared(r, s)
          PROVE  /\ gp'[r].type = "deleted" /\ gp[r].type = "delete"
                 /\ Spared(r, gp'[r].state)
      BY <3>3 DEF DeleteReply
    <3>4. ASSUME gp[r].type = "prefetch", NEW S, gp'[r] = PullReply(S)
          PROVE  gp'[r].type = "pull"
      BY <3>4 DEF PullReply
    <3> QED
      BY <1>3, <3>1, <3>2, <3>3, <3>4 DEF GpAnswered
  <2>2. ~ Doomed(r)'
    <3>1. ASSUME gp'[r].type = "deleted", app[r].parent # None
          PROVE  gp'[r].state # app[r].parent
      <4>1. Due(r, app[r].job, app[r].parent) \in due_dates
        BY <1>0, <2>1, <3>1 DEF JobIsDue, Spared
      <4>2. \A d \in DueDatesOf(r) : d.parent # gp'[r].state
        BY <2>1, <3>1 DEF Spared
      <4> QED
        BY <4>1, <4>2 DEF DueDatesOf, Due
    <3>2. gp'[r].type = "deleted" => gp'[r].state # None
      <4>1. gp'[r] \in GpMessage
        BY <1>0 DEF TypeOK, RunnerTypeOK
      <4> QED
        BY <4>1, GpContents, NoneAssumption
    <3> QED
      BY <1>1, <3>1, <3>2 DEF Doomed
  <2>3. LoadsWell(r)'
    BY <1>1, <2>2 DEF LoadWell, LoadsWell, Misses
  <2>4. AfterPost(r)'
    BY <1>0, <1>1, <2>1 DEF LoadWell, AfterPost
  <2>5. CacheSlots > 0 => Room(r)'
    BY <1>1, <2>1 DEF LoadWell, Room
  <2> QED
    BY <2>3, <2>4, <2>5 DEF LoadWell
<1>4. Answered(r)
  BY <1>0, ServerAnswers
<1> QED
  BY <1>2, <1>3, <1>4 DEF Answered

(* The application looks for its parent, and reads it. *)
LEMMA AppKeepsLoad ==
  ASSUME TypeOK, StorageTypeOK, NEW r \in Runners, InPool(r), InPool(r)', AppMoves(r), LoadWell(r),
         CheckpointExists
  PROVE  LoadWell(r)'
<1>0. /\ app \in [Runners -> [job : State, parent : State \cup {None}]]
      /\ l1 \in [Runners -> SUBSET State] /\ load \in [Runners -> LoadStates]
      /\ dirty \in [Runners -> Nat] /\ dirty[r] \in Nat /\ failed \in [Runners -> Failures \cup {None}]
  BY DEF TypeOK, RunnerTypeOK, StorageTypeOK
<1>1. LoadsWell(r) /\ AfterPost(r) /\ (CacheSlots > 0 => Room(r))
  BY DEF LoadWell
<1>2. CASE StoreState(r)
  <2>1. l1'[r] = l1[r] \cup {NextState(r)} /\ UNCHANGED <<vars, used, load, dirty, failed>>
    BY <1>0, <1>2 DEF StoreState
  <2>2. LoadsWell(r)'
    BY <1>1, <2>1 DEF LoadsWell, Misses, Doomed, vars, channels, runner
  <2> QED
    BY <1>1, <2>1, <2>2 DEF LoadWell, AfterPost, Room, vars, channels, runner
<1>3. CASE PostState(r)
  <2>1. UNCHANGED <<gp, app, head, storage, CheckpointExists>>
    BY <1>3 DEF PostState, server, CheckpointExists
  <2> QED
    BY <2>1, LoadLeft DEF storage
<1>4. CASE ReceiveJob(r)
  <2>1. ReadJob(r) /\ UNCHANGED <<gp, head, storage>>
    BY <1>4 DEF ReceiveJob, ReadJob
  <2>2. CASE app' = app
    BY <2>1, <2>2, LoadLeft DEF storage
  <2>3. CASE jobs[r].type = "job"
    <3>1. load[r] = "idle"
      BY <2>3 DEF InPool, LoadsParent, Idle
    <3>2. dirty[r] = 0
      BY <1>0, <1>1, <3>1 DEF LoadsWell
    <3>3. LoadsWell(r)'
      BY <1>1, <2>1, <3>1, <3>2 DEF LoadsWell, Misses, storage
    <3> QED
      BY <1>1, <2>1, <3>3 DEF LoadWell, AfterPost, Room, storage
  <2> QED
    BY <2>1, <2>2, <2>3 DEF ReadJob
<1>5. CASE LookUp(r)
  <2>1. /\ load[r] = "idle" /\ load'[r] = IF app[r].parent \in l1[r] THEN "read" ELSE "ask"
        /\ UNCHANGED <<vars, l1, used, dirty, failed>>
    BY <1>0, <1>5 DEF LookUp
  <2>2. dirty[r] = 0
    BY <1>0, <1>1, <2>1 DEF LoadsWell
  <2>3. Doomed(r) => app[r].parent \in l1[r]
    BY DEF InPool, Talks, Stored, Local, Doomed
  <2>4. LoadsWell(r)'
    BY <1>1, <2>1, <2>2, <2>3 DEF LoadsWell, Misses, Doomed, vars, channels, runner
  <2> QED
    BY <1>1, <2>1, <2>4 DEF LoadWell, AfterPost, Room, vars, channels, runner
<1>6. CASE CheckAnswer(r)
  <2>1. load[r] = "answered" /\ app[r].parent \in l1[r]
    BY <1>1, <1>6 DEF LoadsWell, CheckAnswer
  <2>2. load'[r] = "read" /\ UNCHANGED <<vars, l1, used, dirty, failed>>
    BY <1>0, <1>6, <2>1 DEF CheckAnswer
  <2>3. dirty[r] = 0
    BY <1>0, <1>1, <2>1 DEF LoadsWell
  <2>4. LoadsWell(r)'
    BY <1>1, <2>1, <2>2, <2>3 DEF LoadsWell, Misses, Doomed, vars, channels, runner
  <2> QED
    BY <1>1, <2>2, <2>4 DEF LoadWell, AfterPost, Room, vars, channels, runner
<1>7. CASE ReadState(r)
  <2>0. /\ load[r] = "read" /\ UNCHANGED <<gp, head, l1, used, failed>>
    BY <1>7 DEF ReadState, channels
  <2>1. LoadsWell(r)'
    <3>1. CASE app[r].parent \in l1[r]
      <4>1. load'[r] = "idle" /\ dirty'[r] = 0
        BY <1>0, <1>7, <3>1 DEF ReadState
      <4> QED
        BY <1>1, <2>0, <4>1 DEF LoadsWell, Misses
    <3>2. CASE app[r].parent \notin l1[r]
      <4>1. dirty[r] = 0
        BY <1>0, <1>1, <2>0, <3>2 DEF LoadsWell
      <4>2. load'[r] = "again" /\ dirty'[r] = 1 /\ app' = app
        BY <1>0, <1>7, <3>2, <4>1 DEF ReadState
      <4>3. ~ Doomed(r)
        BY <3>2 DEF InPool, Talks, Stored, Local, Doomed
      <4> QED
        BY <1>1, <2>0, <4>2, <4>3 DEF LoadsWell, Misses, Doomed
    <3> QED
      BY <3>1, <3>2
  <2> QED
    BY <1>1, <2>0, <2>1 DEF LoadWell, AfterPost, Room
<1> QED
  BY <1>2, <1>3, <1>4, <1>5, <1>6, <1>7 DEF AppMoves

(* The head rank fetches the parent, and deletes what nobody misses. *)
LEMMA HeadKeepsLoad ==
  ASSUME TypeOK, StorageTypeOK, NEW r \in Runners, InPool(r), InPool(r)', HeadMoves(r), LoadWell(r),
         CheckpointExists
  PROVE  LoadWell(r)'
<1>0. /\ RunnerTypeOK /\ head \in [Runners -> {AtRest, AfterWeight} \cup [at : {"fetch"}, state : State]]
      /\ gp \in [Runners -> GpMessage] /\ gp[r] \in GpMessage
      /\ l1 \in [Runners -> SUBSET State] /\ load \in [Runners -> LoadStates]
      /\ used \in [Runners -> Int] /\ used[r] \in Int /\ CacheSlots \in Nat
      /\ dirty \in [Runners -> Nat] /\ dirty[r] \in Nat /\ failed \in [Runners -> Failures \cup {None}]
      /\ up[r] = "up" /\ failed[r] = None
  BY BoundsAssumption DEF TypeOK, RunnerTypeOK, StorageTypeOK, HeadMoves, StageToGlobal, ReportWeight, ReadAck,
     delete_request, prefetch_request, ReadDelete, ReadOther, TakeLoad, TakePull, FetchState,
     RemoveOldest, HeadIdle, Runs
<1>1. LoadsWell(r) /\ AfterPost(r) /\ (CacheSlots > 0 => Room(r))
  BY DEF LoadWell
<1>2. None \notin Failures
  BY StorageAssumption
<1>3. CASE StageToGlobal(r) \/ RemoveOldest(r)
  <2>1. /\ UNCHANGED <<vars, l1, used, load, dirty>>
        /\ failed' = failed \/ failed'[r] = "global_exists"
    BY <1>0, <1>3 DEF StageToGlobal, RemoveOldest, Aborts
  <2>2. LoadsWell(r)'
    BY <1>1, <2>1 DEF LoadsWell, Misses, Doomed, vars, channels, runner
  <2>3. CacheSlots > 0 => Room(r)'
    BY <1>0, <1>1, <1>2, <2>1 DEF Room, Failures, vars, channels, runner
  <2> QED
    BY <1>1, <2>1, <2>2, <2>3 DEF LoadWell, AfterPost, vars, channels, runner
<1>4. CASE ReportWeight(r)
  <2>1. /\ gp'[r] = WeightMsg(staged[r]) /\ head'[r] = AfterWeight /\ head[r] = AtRest
        /\ UNCHANGED <<app, l1, used, load, dirty, failed>>
    BY <1>0, <1>4 DEF ReportWeight, InPool, Talks
  <2>2. /\ gp'[r].type = "weight" /\ head'[r].at = "post" /\ head[r].at = "rest"
    BY <2>1 DEF WeightMsg, AfterWeight, AtRest
  <2>3. LoadsWell(r)'
    BY <1>1, <2>1, <2>2 DEF LoadsWell, Misses, Doomed, Fetching
  <2>4. CacheSlots > 0 => Room(r)'
    BY <1>1, <2>1, <2>2 DEF Room
  <2> QED
    BY <2>2, <2>3, <2>4 DEF LoadWell, AfterPost
<1>5. CASE ReadAck(r)
  <2>1. /\ gp[r].type = "ack" /\ gp'[r] = Idle /\ used'[r] = used[r] + 1
        /\ failed' = IF used[r] < CacheSlots THEN failed ELSE [failed EXCEPT ![r] = "overflow"]
        /\ UNCHANGED <<app, head, l1, load, dirty>>
    BY <1>0, <1>5 DEF ReadAck, EnterPool, Aborts
  <2>2. gp'[r].type = "idle"
    BY <2>1 DEF Idle
  <2>3. LoadsWell(r)'
    BY <1>0, <1>1, <2>1, <2>2 DEF LoadsWell, Misses, Doomed
  <2>4. CacheSlots > 0 => Room(r)'
    BY <1>0, <1>1, <2>1, <2>2 DEF Room, AfterPost
  <2> QED
    BY <2>2, <2>3, <2>4 DEF LoadWell, AfterPost
<1>6. CASE delete_request(r) \/ prefetch_request(r)
  <2>1. /\ gp[r] = Idle /\ UNCHANGED <<app, head, l1, used, load, dirty, failed>>
        /\ \/ gp'[r] = DeleteMsg(held[r])
           \/ gp'[r] = PrefetchMsg(held[r]) /\ head[r].at = "post" /\ used[r] # CacheSlots
    BY <1>0, <1>6 DEF delete_request, prefetch_request, NeedsRoom, pool_free, runner, storage
  <2>2. \/ gp'[r].type = "delete" /\ gp[r].type = "idle"
        \/ gp'[r].type = "prefetch" /\ head[r].at = "post" /\ used[r] # CacheSlots
    BY <2>1 DEF DeleteMsg, PrefetchMsg, Idle
  <2>3. LoadsWell(r)'
    BY <1>1, <2>1, <2>2 DEF LoadsWell, Misses, Doomed
  <2>4. CacheSlots > 0 => Room(r)'
    BY <1>1, <2>1, <2>2 DEF Room
  <2> QED
    BY <2>1, <2>2, <2>3, <2>4 DEF LoadWell, AfterPost
<1>7. CASE ReadDelete(r)
  <2>1. /\ gp[r].type = "deleted" /\ gp'[r] = Idle /\ used'[r] = used[r] - 1
        /\ l1'[r] = l1[r] \ {gp[r].state} /\ UNCHANGED <<app, head, load, dirty>>
    BY <1>0, <1>7 DEF ReadDelete, LocalWithout
  <2>2. gp[r].state \in l1[r]
    BY <2>1 DEF InPool, Talks, Stored, Local
  <2>3. failed' = failed
    BY <1>7, <2>2 DEF ReadDelete
  <2>4. gp'[r].type = "idle"
    BY <2>1 DEF Idle
  <2>5. LoadsWell(r)'
    <3>1. Misses(r) => gp[r].state # app[r].parent
      BY <1>1, <2>1 DEF LoadsWell, Doomed
    <3> QED
      BY <1>1, <2>1, <2>3, <2>4, <3>1 DEF LoadsWell, Misses, Doomed
  <2>6. CacheSlots > 0 => Room(r)'
    BY <1>0, <1>1, <2>1, <2>3 DEF Room
  <2> QED
    BY <2>4, <2>5, <2>6 DEF LoadWell, AfterPost
<1>8. CASE ReadOther(r)
  <2>1. /\ gp[r].type \in {"pull", "empty"} /\ gp'[r] = Idle
        /\ UNCHANGED <<app, l1, used, load, dirty, failed>>
        /\ \/ gp[r].type = "empty" /\ head' = head
           \/ gp[r].type = "pull" /\ head'[r] = AtRest
    BY <1>0, <1>8 DEF ReadOther, ReadReply, storage
  <2>2. gp'[r].type = "idle"
    BY <2>1 DEF Idle
  <2>3. load[r] \in {"fetching", "refetching"} => head' = head
    <3>1. gp[r].type = "pull" => head[r].at = "post"
      BY <1>1 DEF AfterPost
    <3>2. Fetching(app[r].parent).at = "fetch"
      BY DEF Fetching
    <3> QED
      BY <1>1, <2>1, <3>1, <3>2 DEF LoadsWell
  <2>4. LoadsWell(r)'
    BY <1>1, <2>1, <2>2, <2>3 DEF LoadsWell, Misses, Doomed
  <2>5. CacheSlots > 0 => Room(r)'
    BY <1>1, <2>1, <2>2 DEF Room
  <2> QED
    BY <2>2, <2>4, <2>5 DEF LoadWell, AfterPost
<1>9. CASE TakeLoad(r)
  <2>1. /\ load[r] \in Asking /\ head[r] = AtRest /\ gp[r] = Idle
        /\ UNCHANGED <<gp, app, l1, used, dirty, failed>>
    BY <1>9 DEF TakeLoad, HeadIdle, channels
  <2>2. head[r].at = "rest" /\ gp[r].type = "idle"
    BY <2>1 DEF AtRest, Idle
  <2>3. LoadsWell(r)'
    <3>1. CASE app[r].parent \in l1[r]
      <4>1. /\ head' = head
            /\ load'[r] = IF load[r] = "ask" THEN "answered" ELSE "read"
        BY <1>0, <1>9, <2>1, <3>1 DEF TakeLoad, Answer, Asking
      <4> QED
        BY <1>0, <1>1, <2>1, <2>2, <3>1, <4>1 DEF LoadsWell, Misses, Doomed, Asking
    <3>2. CASE app[r].parent \notin l1[r]
      <4>1. /\ head'[r] = Fetching(app[r].parent)
            /\ load'[r] = IF load[r] = "ask" THEN "fetching" ELSE "refetching"
        BY <1>0, <1>9, <2>1, <3>2 DEF TakeLoad, Fetched, Asking
      <4> QED
        BY <1>0, <1>1, <2>1, <2>2, <4>1 DEF LoadsWell, Misses, Doomed, Asking
    <3> QED
      BY <3>1, <3>2
  <2>4. CacheSlots > 0 => Room(r)'
    BY <1>0, <1>1, <2>1, <2>2 DEF Room
  <2> QED
    BY <2>1, <2>2, <2>3, <2>4 DEF LoadWell, AfterPost
<1>10. CASE TakePull(r)
  <2>1. /\ head[r] = AtRest /\ gp[r] = Idle
        /\ UNCHANGED <<gp, app, l1, used, load, dirty, failed>>
    BY <1>10 DEF TakePull, HeadIdle, channels, storage
  <2>2. head[r].at = "rest" /\ gp[r].type = "idle" /\ Fetching(app[r].parent).at = "fetch"
    BY <2>1 DEF AtRest, Idle, Fetching
  <2>3. LoadsWell(r)'
    BY <1>1, <2>1, <2>2 DEF LoadsWell, Misses, Doomed
  <2>4. CacheSlots > 0 => Room(r)'
    BY <1>0, <1>1, <2>1, <2>2 DEF Room
  <2> QED
    BY <2>1, <2>2, <2>3, <2>4 DEF LoadWell, AfterPost
<1>11. CASE FetchState(r)
  <2> DEFINE s == head[r].state
  <2>1. /\ gp[r] = Idle /\ head[r].at = "fetch" /\ CacheSlots - used[r] > 1
        /\ UNCHANGED <<gp, app, dirty>>
    BY <1>0, <1>11 DEF FetchState, NeedsRoom, pool_free, channels
  <2>2. gp[r].type = "idle"
    BY <2>1 DEF Idle
  <2>3. CASE s \in l2
    <3>1. /\ l1'[r] = l1[r] \cup {s} /\ used'[r] = used[r] + 1 /\ failed' = failed
          /\ head'[r] = AtRest
          /\ load'[r] = IF load[r] \in Asking THEN load[r] ELSE Answer(load[r])
      BY <1>0, <1>11, <2>1, <2>3 DEF FetchState, EnterPool
    <3>2. load[r] \in {"fetching", "refetching"} => app[r].parent = s
      BY <1>1 DEF LoadsWell, Fetching
    <3>3. load'[r] = IF load[r] = "fetching" THEN "answered"
                     ELSE IF load[r] = "refetching" THEN "read" ELSE load[r]
      BY <3>1 DEF Answer, Asking
    <3>4. LoadsWell(r)'
      BY <1>0, <1>1, <2>1, <2>2, <3>1, <3>2, <3>3 DEF LoadsWell, Misses, Doomed
    <3>5. CacheSlots > 0 => Room(r)'
      BY <1>0, <1>1, <2>1, <3>1 DEF Room
    <3> QED
      BY <2>1, <2>2, <3>4, <3>5 DEF LoadWell, AfterPost
  <2>4. CASE s \notin l2
    <3>1. failed'[r] = "not_global" /\ UNCHANGED <<l1, used, head, load>>
      BY <1>0, <1>11, <2>4 DEF FetchState, Aborts
    <3>2. LoadsWell(r)'
      BY <1>1, <2>1, <3>1 DEF LoadsWell, Misses, Doomed
    <3>3. CacheSlots > 0 => Room(r)'
      BY <1>0, <1>1, <1>2, <3>1 DEF Room, Failures
    <3> QED
      BY <2>1, <2>2, <3>2, <3>3 DEF LoadWell, AfterPost
  <2> QED
    BY <2>3, <2>4
<1> QED
  BY <1>3, <1>4, <1>5, <1>6, <1>7, <1>8, <1>9, <1>10, <1>11 DEF HeadMoves

(* Every step. *)
LEMMA StepKeepsLoad ==
  ASSUME StudyInvariant, StudyInvariant', JobsAreDue, AllLoadWell, [StudyNext]_study
  PROVE  AllLoadWell'
<1> SUFFICES ASSUME NEW q \in Runners PROVE LoadWell(q)'
  BY DEF AllLoadWell
<1>0. LoadWell(q) /\ TypeOK /\ StorageTypeOK
  BY DEF AllLoadWell, StudyInvariant, Everything, Invariants
<1>1. CASE ServerMoves
  BY <1>0, <1>1, ServerKeepsLoad
<1>2. ASSUME NEW r \in Runners, Moves(r) PROVE LoadWell(q)'
  <2>1. UNCHANGED server /\ status = "up"
    BY <1>0, <1>2, MovesAreLocal DEF Moves, Goes, Serving
  <2>2. CheckpointExists /\ CheckpointExists'
    BY <2>1 DEF CheckpointExists, server
  <2>3. CASE q # r
    BY <1>0, <1>2, <2>2, <2>3, MovesAreLocal, LoadLeft DEF Moves
  <2>4. CASE q = r /\ (Begins(r) \/ Dies(r))
    <3>1. UNCHANGED <<gp, app, head, l1, used, load, dirty, failed>>
      BY <2>4 DEF Begins, Dies, StartRunner, RunnerDies, channels, storage
    <3> QED
      BY <1>0, <2>2, <2>4, <3>1, LoadLeft
  <2>5. InPool(q) /\ InPool(q)'
    BY <2>2 DEF StudyInvariant
  <2> QED
    BY <1>0, <1>2, <2>2, <2>3, <2>4, <2>5, AppKeepsLoad, HeadKeepsLoad DEF Moves
<1>3. CASE StudyRestart
  <2>1. /\ used'[q] = 0 /\ load'[q] = "idle" /\ dirty'[q] = 0 /\ failed'[q] = None
        /\ CheckpointExists' => gp'[q] = Idle
    BY <1>3 DEF StudyRestart, restart, StartsWith, Fault, CheckpointExists, Zero, NoLoad, NoneYet, Silent
  <2>2. Idle.type = "idle" /\ None \notin Failures
    BY StorageAssumption DEF Idle
  <2> QED
    BY <2>1, <2>2 DEF LoadWell, LoadsWell, AfterPost, Misses, Room, Failures
<1>4. CASE UNCHANGED study
  <2>1. UNCHANGED <<gp, app, head, l1, used, load, dirty, failed, status>>
    BY <1>4 DEF study, vars, server, channels, runner, storage
  <2> QED
    BY <1>0, <2>1, LoadLeft DEF CheckpointExists
<1> QED
  BY <1>1, <1>2, <1>3, <1>4 DEF StudyNext, Moves

(* Loads always go well. *)
LEMMA AlwaysLoadWell == StudySpec => []AllLoadWell
<1>1. StudyInit => AllLoadWell
  <2> SUFFICES ASSUME StudyInit, NEW q \in Runners PROVE LoadWell(q)
    BY DEF AllLoadWell
  <2>1. /\ used[q] = 0 /\ load[q] = "idle" /\ dirty[q] = 0 /\ failed[q] = None /\ gp[q] = Idle
    BY DEF StudyInit, Init, Zero, NoLoad, NoneYet, Silent
  <2>2. Idle.type = "idle" /\ None \notin Failures
    BY StorageAssumption DEF Idle
  <2> QED
    BY <2>1, <2>2 DEF LoadWell, LoadsWell, AfterPost, Misses, Room, Failures
<1> QED
  BY <1>1, StepKeepsLoad, StudyInvariantHolds, JobsAlwaysDue, PTL DEF StudySpec

(***************************************************************************)
(* The application misses its parent while it reads it at most once for    *)
(* each job, and after that it is there: for all runners, pool sizes,      *)
(* backlogs, timeouts, deaths and restarts.                                *)
(***************************************************************************)
THEOREM LoadsAreDirtyOnce == StudySpec => []OneDirtyLoad
<1>1. AllLoadWell => OneDirtyLoad
  BY DEF AllLoadWell, LoadWell, LoadsWell, OneDirtyLoad
<1> QED
  BY <1>1, AlwaysLoadWell, PTL

-----------------------------------------------------------------------------
(***************************************************************************)
(* What is on level 2.                                                     *)
(***************************************************************************)
(* The cycle a server would go on with after a restart. *)
WorkCycle == IF Over THEN assimilation_cycle - 1 ELSE assimilation_cycle

(* A state is on level 2 until nobody can start from it any more. *)
Kept(s) == s \in l2 \/ s.t < WorkCycle - 1

(* What the head rank is told to fetch, or fetches. *)
ToFetch(r) ==
  pulls[r] \cup InFetch(r) \cup (IF gp[r].type = "pull" THEN gp[r].states ELSE {})

(* Results are stored before the server knows of them, so that parents,    *)
(* also those in a checkpoint, are stored.                                 *)
ParentsKept ==
  /\ assimilation_cycle > 1 => Needed \subseteq l2
  /\ \A n \in DOMAIN checkpoint : n >= WorkCycle => DOMAIN checkpoint[n] \subseteq l2
  /\ \A w \in state_weights : Kept(w.job)
  /\ Over => next_job_id = 0

(* A runner is never ahead of the server, and is told to fetch only what   *)
(* is stored.                                                              *)
RunnerKeeps(r) ==
  /\ \A s \in Sent(r) \cup ({staged[r]} \ {None}) : Kept(s)
  /\ own_cycle[r] <= WorkCycle
  /\ r \notin faulty_runners =>
       /\ \A s \in ToFetch(r) : Kept(s)
       /\ failed[r] = "not_global" =>
            head[r].at = "fetch" /\ head[r].state.t < WorkCycle - 1

Durable == ParentsKept /\ \A r \in Runners : RunnerKeeps(r)

(* A step that removes only what nobody can start from. *)
Lasts == WorkCycle <= WorkCycle' /\ \A s \in l2 \ l2' : s.t < WorkCycle' - 1

(* The cycle that runs. *)
LEMMA WorkCycleIs ==
  ASSUME Invariants
  PROVE  /\ assimilation_cycle \in Nat \ {0} /\ WorkCycle \in Nat \ {0}
         /\ WorkCycle <= assimilation_cycle /\ (Over => assimilation_cycle > 1)
BY CyclesAssumption DEF Invariants, TypeOK, ServerTypeOK, Course, CyclesInOrder, FinalCycle, WorkCycle

(* And the one that runs after a step. *)
LEMMA NextWorkCycleIs ==
  ASSUME Invariants'
  PROVE  /\ assimilation_cycle' \in Nat \ {0} /\ WorkCycle' \in Nat \ {0}
         /\ WorkCycle' <= assimilation_cycle'
<1>1. (/\ assimilation_cycle \in Nat \ {0} /\ WorkCycle \in Nat \ {0}
       /\ WorkCycle <= assimilation_cycle /\ (Over => assimilation_cycle > 1))'
  BY WorkCycleIs, PTL
<1> QED
  BY <1>1

(* Such a step keeps what is kept. *)
LEMMA KeptLasts ==
  ASSUME Invariants, Invariants', Lasts, NEW s \in State
  PROVE  /\ Kept(s) => Kept(s)'
         /\ s \in l2 /\ s.t >= WorkCycle' - 1 => s \in l2'
<1>1. s.t \in Nat /\ WorkCycle \in Nat /\ WorkCycle' \in Nat
  BY WorkCycleIs, NextWorkCycleIs DEF State
<1> HIDE DEF WorkCycle
<1>2. WorkCycle <= WorkCycle'
  BY DEF Lasts
<1>3. s \in l2 /\ s \notin l2' => s.t < WorkCycle' - 1
  BY DEF Lasts
<1>4. Kept(s) => Kept(s)'
  BY <1>1, <1>2, <1>3 DEF Kept
<1> QED
  BY <1>1, <1>3, <1>4

(* Parents are not too old. *)
LEMMA NeededAreRecent ==
  ASSUME Invariants, ParentsPast
  PROVE  /\ Needed \subseteq State
         /\ assimilation_cycle > 1 => \A s \in Needed : s.t = assimilation_cycle - 1
         /\ \A n \in DOMAIN checkpoint : \A s \in DOMAIN checkpoint[n] : s \in State /\ n \in Nat /\ s.t = n - 1
<1>1. /\ DOMAIN alpha \subseteq State /\ due_dates \subseteq DueDate
      /\ DOMAIN checkpoint \subseteq Nat
  BY DEF Invariants, TypeOK, ServerTypeOK, IsParticleBag
<1>2. Needed \subseteq State
  BY <1>1 DEF Needed, DueDate
<1>3. ASSUME assimilation_cycle > 1, NEW s \in Needed PROVE s.t = assimilation_cycle - 1
  <2>1. CASE s \in DOMAIN alpha
    BY <1>3, <2>1 DEF ParentsPast
  <2>2. ASSUME NEW d \in due_dates, s = d.parent PROVE s.t = assimilation_cycle - 1
    BY <1>3, <2>2 DEF ParentsPast, GoodParent
  <2> QED
    BY <2>1, <2>2 DEF Needed
<1>4. \A n \in DOMAIN checkpoint : \A s \in DOMAIN checkpoint[n] : s \in State /\ n \in Nat /\ s.t = n - 1
  BY <1>1, JobsAreStates DEF ParentsPast
<1> QED
  BY <1>2, <1>3, <1>4

(* A step within a cycle that leaves the server alone. *)
LEMMA ParentsStayKept ==
  ASSUME Invariants, Invariants', ParentsPast, ParentsKept, Lasts,
         UNCHANGED <<assimilation_cycle, next_job_id, checkpoint, state_weights>>, UNCHANGED Over,
         assimilation_cycle > 1 => Needed' \subseteq Needed
  PROVE  ParentsKept'
<1>1. WorkCycle' = WorkCycle /\ WorkCycle \in Nat /\ assimilation_cycle \in Nat
      /\ WorkCycle <= assimilation_cycle
  BY WorkCycleIs DEF WorkCycle
<1> HIDE DEF WorkCycle
<1>2. ASSUME assimilation_cycle > 1 PROVE Needed' \subseteq l2'
  <2> SUFFICES ASSUME NEW s \in Needed PROVE s \in l2'
    BY <1>2
  <2>1. s \in State /\ s.t = assimilation_cycle - 1 /\ s \in l2
    BY <1>2, NeededAreRecent DEF ParentsKept
  <2> QED
    BY <1>1, <2>1, KeptLasts
<1>3. ASSUME NEW n \in DOMAIN checkpoint, n >= WorkCycle PROVE DOMAIN checkpoint[n] \subseteq l2'
  <2> SUFFICES ASSUME NEW s \in DOMAIN checkpoint[n] PROVE s \in l2'
    OBVIOUS
  <2>1. s \in State /\ n \in Nat /\ s.t = n - 1 /\ s \in l2
    BY <1>3, NeededAreRecent DEF ParentsKept
  <2> QED
    BY <1>1, <1>3, <2>1, KeptLasts
<1>4. ASSUME NEW w \in state_weights PROVE Kept(w.job)'
  <2>1. w.job \in State
    BY JobsAreStates DEF Invariants, TypeOK, ServerTypeOK, OrderType
  <2> QED
    BY <2>1, KeptLasts DEF ParentsKept
<1> QED
  BY <1>1, <1>2, <1>3, <1>4 DEF ParentsKept

(* A runner that hears nothing new. *)
LEMMA RunnerStillKeeps ==
  ASSUME Invariants, Invariants', StorageTypeOK, NEW r \in Runners, RunnerKeeps(r), Lasts,
         r \in faulty_runners => r \in faulty_runners',
         Sent(r)' \subseteq Sent(r) \cup ({staged[r]} \ {None}),
         staged'[r] \in {staged[r], None},
         own_cycle'[r] = own_cycle[r],
         r \notin faulty_runners' => ToFetch(r)' \subseteq ToFetch(r),
         failed'[r] = "not_global" => failed'[r] = failed[r] /\ head'[r] = head[r]
  PROVE  RunnerKeeps(r)'
<1>0. TypeOK /\ WorkCycle \in Nat /\ WorkCycle' \in Nat /\ own_cycle[r] \in Nat
  BY WorkCycleIs, NextWorkCycleIs DEF Invariants, StorageTypeOK
<1> HIDE DEF WorkCycle
<1>1. ASSUME NEW s \in Sent(r)' \cup ({staged'[r]} \ {None}) PROVE Kept(s)'
  <2>1. s \in Sent(r) \cup ({staged[r]} \ {None})
    OBVIOUS
  <2>2. s \in State
    BY <1>0, <2>1, AllAreStates DEF Unpooled, StorageTypeOK
  <2> QED
    BY <2>1, <2>2, KeptLasts DEF RunnerKeeps
<1>2. ASSUME NEW s \in ToFetch(r)', r \notin faulty_runners' PROVE Kept(s)'
  <2>1. s \in ToFetch(r) /\ r \notin faulty_runners
    BY <1>2
  <2>2. s \in State
    BY <1>0, <2>1, AllAreStates DEF Pooled, ToFetch
  <2> QED
    BY <2>1, <2>2, KeptLasts DEF RunnerKeeps
<1>3. own_cycle'[r] <= WorkCycle'
  BY <1>0 DEF RunnerKeeps, Lasts
<1>4. ASSUME failed'[r] = "not_global", r \notin faulty_runners'
      PROVE  head'[r].at = "fetch" /\ head'[r].state.t < WorkCycle' - 1
  <2>1. head[r].at = "fetch" /\ head[r].state.t < WorkCycle - 1 /\ head'[r] = head[r]
    BY <1>4 DEF RunnerKeeps
  <2>2. head[r].state \in Pooled(r)
    BY <2>1 DEF Pooled, InFetch
  <2>3. head[r].state.t \in Nat
    BY <1>0, <2>2, AllAreStates DEF State
  <2> QED
    BY <1>0, <2>1, <2>3 DEF Lasts
<1> QED
  BY <1>1, <1>2, <1>3, <1>4 DEF RunnerKeeps

LEMMA LessOne == \A m, n \in Nat : m <= n + 1 => m - 1 <= n
OBVIOUS

(* The server draws parents from what was stored. *)
LEMMA ServerKeepsDurable ==
  ASSUME StudyInvariant, StudyInvariant', Durable, ServerMoves
  PROVE  Durable'
<1>0. /\ Invariants /\ Invariants' /\ TypeOK /\ TypeOK' /\ Ledger /\ Ledger' /\ Dues
      /\ ParentsPast /\ ParentsPast' /\ ServerStep /\ StorageTypeOK
      /\ UNCHANGED <<runner, storage>>
  BY DEF StudyInvariant, Everything, Invariants, ServerMoves, ServerStep
<1>1. /\ CycleGoesOn \/ CycleEnds
      /\ WeightsCome /\ faulty_runners \subseteq faulty_runners'
  BY <1>0, ServerCourse
<1>2. l2' = l2
  BY <1>0 DEF storage
<1>3. /\ assimilation_cycle \in Nat \ {0} /\ WorkCycle \in Nat \ {0}
      /\ WorkCycle' \in Nat \ {0} /\ WorkCycle <= assimilation_cycle
      /\ WorkCycle' <= assimilation_cycle'
  BY <1>0, WorkCycleIs, NextWorkCycleIs
<1>4. Lasts
  BY <1>1, <1>2, <1>3 DEF Lasts, CycleGoesOn, CycleEnds, WorkCycle
<1>5. ASSUME NEW w \in state_weights' PROVE Kept(w.job)'
  <2>1. CASE w \in state_weights
    <3>1. w.job \in State
      BY <1>0, <2>1, JobsAreStates DEF TypeOK, ServerTypeOK, OrderType
    <3> QED
      BY <1>0, <1>4, <2>1, <3>1, KeptLasts DEF Durable, ParentsKept
  <2>2. ASSUME NEW r \in Runners, gp[r].type = "weight", w.job = gp[r].state
        PROVE  Kept(w.job)'
    <3>1. w.job \in Sent(r)
      BY <2>2 DEF Sent
    <3>2. w.job \in State
      BY <1>0, <3>1, AllAreStates DEF Unpooled
    <3> QED
      BY <1>0, <1>4, <3>1, <3>2, KeptLasts DEF Durable, RunnerKeeps
  <2> QED
    BY <1>1, <2>1, <2>2 DEF WeightsCome
<1>6. ParentsKept'
  <2>1. CASE CycleGoesOn
    <3>1. Over => next_job_id' = 0
      BY <2>1 DEF CycleGoesOn, Durable, ParentsKept
    <3>2. WorkCycle' = WorkCycle
      BY <2>1 DEF CycleGoesOn, WorkCycle
    <3>3. ASSUME assimilation_cycle > 1, NEW s \in Needed' PROVE s \in l2'
      BY <1>2, <2>1, <3>3 DEF CycleGoesOn, Durable, ParentsKept
    <3> QED
      BY <1>2, <1>5, <2>1, <3>1, <3>2, <3>3 DEF CycleGoesOn, Durable, ParentsKept
  <2>2. CASE CycleEnds
    <3>1. ASSUME NEW s \in Needed' PROVE s \in l2'
      <4>1. PICK w \in state_weights' : s = w.job /\ w.job.t = assimilation_cycle
        BY <2>2, <3>1 DEF CycleEnds
      <4>2. Kept(w.job)'
        BY <1>5
      <4>3. WorkCycle' - 1 <= s.t
        <5>1. assimilation_cycle' = assimilation_cycle + 1 /\ s.t = assimilation_cycle
          BY <2>2, <4>1 DEF CycleEnds
        <5>2. assimilation_cycle \in Nat /\ WorkCycle' \in Nat /\ WorkCycle' <= assimilation_cycle + 1
          BY <1>3, <5>1
        <5>3. WorkCycle' - 1 <= assimilation_cycle
          BY <5>2, LessOne
        <5> QED
          BY <5>1, <5>3
      <4>4. s.t \in Nat /\ WorkCycle' \in Nat
        BY <1>3, <4>1
      <4> QED
        BY <4>1, <4>2, <4>3, <4>4 DEF Kept
    <3>2. ASSUME NEW n \in DOMAIN checkpoint', n >= WorkCycle' PROVE DOMAIN checkpoint'[n] \subseteq l2'
      <4>1. CASE n = assimilation_cycle + 1
        <5>1. checkpoint'[n] = alpha'
          BY <2>2, <4>1 DEF CycleEnds, Put
        <5> QED
          BY <3>1, <5>1 DEF Needed
      <4>2. CASE n # assimilation_cycle + 1
        <5>1. n \in DOMAIN checkpoint /\ checkpoint'[n] = checkpoint[n] /\ n \in Nat
          BY <1>0, <2>2, <3>2, <4>2 DEF CycleEnds, Put, TypeOK, ServerTypeOK
        <5>2. n >= WorkCycle
          BY <1>3, <1>4, <3>2, <5>1 DEF Lasts
        <5> QED
          BY <1>2, <5>1, <5>2 DEF Durable, ParentsKept
      <4> QED
        BY <4>1, <4>2
    <3> QED
      BY <1>5, <2>2, <3>1, <3>2 DEF ParentsKept, CycleEnds
  <2> QED
    BY <1>1, <2>1, <2>2
<1>7. ASSUME NEW r \in Runners PROVE RunnerKeeps(r)'
  <2>0. UNCHANGED <<head, pulls, own_cycle, staged, failed>> /\ InFetch(r)' = InFetch(r)
    BY <1>0 DEF runner, storage, InFetch
  <2>1. RunnerKeeps(r) /\ Answered(r)
    BY <1>0, ServerAnswers DEF Durable
  <2>2. CASE gp'[r] = gp[r]
    <3>1. Sent(r)' = Sent(r) /\ ToFetch(r)' = ToFetch(r)
      BY <2>0, <2>2 DEF Sent, ToFetch
    <3> QED
      BY <1>0, <1>1, <1>4, <2>0, <2>1, <3>1, RunnerStillKeeps
  <2>3. CASE GpAnswered(r) /\ gp'[r].type # "pull"
    <3>1. Sent(r)' \subseteq Sent(r)
      <4>1. CASE gp[r].type = "weight" /\ gp'[r] = Ack(gp[r].state)
        BY <4>1 DEF Sent, Ack
      <4>2. ASSUME NEW s, gp'[r] \in {Empty, DeleteReply(s)} PROVE Sent(r)' = {}
        BY <4>2 DEF Sent, Empty, DeleteReply
      <4>3. ASSUME NEW S, gp'[r] = PullReply(S) PROVE FALSE
        BY <2>3, <4>3 DEF PullReply
      <4> QED
        BY <2>3, <4>1, <4>2, <4>3 DEF GpAnswered
    <3>2. ToFetch(r)' \subseteq ToFetch(r)
      BY <2>0, <2>3 DEF ToFetch
    <3> QED
      BY <1>0, <1>1, <1>4, <2>0, <2>1, <3>1, <3>2, RunnerStillKeeps
  <2>4. CASE GpAnswered(r) /\ gp'[r].type = "pull"
    <3>1. \A s \in gp'[r].states : Awaited(s)'
      <4>1. \/ gp'[r] \in {Ack(gp[r].state), Empty}
            \/ \E s : gp'[r] = DeleteReply(s)
            \/ \E S : gp'[r] = PullReply(S) /\ \A s \in S : Awaited(s)'
        BY <2>4 DEF GpAnswered
      <4>2. gp'[r] \notin {Ack(gp[r].state), Empty}
        BY <2>4 DEF Ack, Empty
      <4>3. ASSUME NEW s, gp'[r] = DeleteReply(s) PROVE FALSE
        BY <2>4, <4>3 DEF DeleteReply
      <4>4. PICK S : gp'[r] = PullReply(S) /\ \A s \in S : Awaited(s)'
        BY <4>1, <4>2, <4>3
      <4>5. gp'[r].states = S
        BY <4>4 DEF PullReply
      <4> QED
        BY <4>4, <4>5
    <3>2. \A s \in gp'[r].states : s \in l2'
      BY <1>6, <3>1 DEF Awaited, ParentsKept, Needed
    <3>3. Sent(r)' = {} /\ \A s \in ToFetch(r)' : s \in ToFetch(r) \/ s \in gp'[r].states
      BY <2>0, <2>4 DEF Sent, ToFetch
    <3>4. ASSUME r \notin faulty_runners', NEW s \in ToFetch(r)' PROVE Kept(s)'
      <4>1. CASE s \in gp'[r].states
        BY <3>2, <4>1 DEF Kept
      <4>2. CASE s \in ToFetch(r)
        <5>1. s \in State
          BY <1>0, <4>2, AllAreStates DEF ToFetch, Pooled
        <5>2. Kept(s)
          BY <1>1, <2>1, <3>4, <4>2 DEF RunnerKeeps
        <5> QED
          BY <1>0, <1>4, <5>1, <5>2, KeptLasts
      <4> QED
        BY <3>3, <4>1, <4>2
    <3>5. ASSUME NEW s, s \in {staged[r]} \ {None} PROVE Kept(s)'
      <4>1. s \in State /\ Kept(s)
        BY <1>0, <2>1, <3>5 DEF StorageTypeOK, RunnerKeeps
      <4> QED
        BY <1>0, <1>4, <4>1, KeptLasts
    <3>6. own_cycle[r] <= WorkCycle' /\ own_cycle[r] \in Nat
      BY <1>0, <1>3, <1>4, <2>1 DEF RunnerKeeps, Lasts, StorageTypeOK
    <3>7. ASSUME r \notin faulty_runners', failed[r] = "not_global"
          PROVE  head[r].at = "fetch" /\ head[r].state.t < WorkCycle' - 1
      <4>1. head[r].at = "fetch" /\ head[r].state.t < WorkCycle - 1
        BY <1>1, <2>1, <3>7 DEF RunnerKeeps
      <4>2. head[r].state \in State
        BY <1>0, <4>1, AllAreStates DEF Pooled, InFetch
      <4> QED
        BY <1>3, <1>4, <4>1, <4>2 DEF Lasts, State
    <3> QED
      BY <2>0, <3>3, <3>4, <3>5, <3>6, <3>7 DEF RunnerKeeps
  <2> QED
    BY <2>1, <2>2, <2>3, <2>4 DEF Answered
<1> QED
  BY <1>6, <1>7 DEF Durable

(* The parent of a job of the first cycle is the runner's base state, which*)
(* stays in its local storage; later ones are on level 2.                  *)
LEMMA LoadIsKept ==
  ASSUME StudyInvariant, Caches, JobsAreDue, Durable, CheckpointExists, NEW r \in Runners, TakeLoad(r),
         r \notin faulty_runners, app[r].parent \notin l1[r]
  PROVE  app[r].parent \in l2
<1>0. /\ InPool(r) /\ Cached(r) /\ JobIsDue(r) /\ ParentsPast /\ load[r] \in Asking
      /\ assimilation_cycle \in Nat \ {0}
  BY WorkCycleIs DEF StudyInvariant, Caches, JobsAreDue, TakeLoad, Everything
<1>1. app[r].parent # None
  BY <1>0 DEF InPool, LoadsParent, Asking
<1>2. Due(r, app[r].job, app[r].parent) \in due_dates
  BY <1>0, <1>1 DEF JobIsDue
<1>3. CASE assimilation_cycle > 1
  BY <1>2, <1>3 DEF Durable, ParentsKept, Needed, Due
<1>4. CASE assimilation_cycle = 1
  <2>1. app[r].parent = BaseState(r)
    BY <1>0, <1>2, <1>4 DEF ParentsPast, GoodParent, Due
  <2>2. BaseKept(r)
    BY <1>0, <1>4 DEF Cached
  <2>3. Unreported(r) => BaseState(r) \in posted[r] \/ gp[r] = WeightMsg(BaseState(r))
    BY <1>1 DEF Unreported, Order
  <2>4. BaseState(r) \in Local(r)
    BY <2>2, <2>3 DEF BaseKept, Local, Acked, WeightMsg
  <2> QED
    BY <1>0, <2>1, <2>4 DEF InPool, Stored
<1> QED
  BY <1>0, <1>3, <1>4

(* A state is not from the future. *)
LEMMA IssuedInWorkCycle ==
  ASSUME Invariants, ParentsKept, NEW s \in State, Issued(s)
  PROVE  s.t <= WorkCycle
<1>0. s.t \in Nat /\ assimilation_cycle \in Nat /\ next_job_id \in Nat
  BY DEF State, Invariants, TypeOK, ServerTypeOK
<1>1. CASE Over
  <2>1. s.t < assimilation_cycle
    BY <1>0, <1>1 DEF ParentsKept, Issued
  <2> QED
    BY <1>0, <1>1, <2>1 DEF WorkCycle
<1>2. CASE ~ Over
  <2>1. s.t <= assimilation_cycle
    BY <1>0 DEF Issued
  <2> QED
    BY <1>2, <2>1 DEF WorkCycle
<1> QED
  BY <1>1, <1>2

(* Level 2 after a move of a runner. *)
LEMMA MoveLasts ==
  ASSUME StudyInvariant, StudyInvariant', Durable, NEW r \in Runners, Moves(r)
  PROVE  /\ Lasts /\ ParentsKept'
         /\ \A s \in l2' \ l2 : staged[r] = None /\ s \in First(posted[r]) /\ staged'[r] = s
<1>0. /\ Invariants /\ Invariants' /\ TypeOK /\ StorageTypeOK
      /\ RunnerKeeps(r) /\ ParentsKept /\ ParentsPast
  BY DEF StudyInvariant, Everything, Invariants, Durable
<1>1. UNCHANGED server
  BY <1>0, MovesAreLocal DEF Moves
<1>2. WorkCycle' = WorkCycle /\ WorkCycle \in Nat \ {0}
  BY <1>0, <1>1, WorkCycleIs DEF WorkCycle, Over, server
<1>3. \/ UNCHANGED l2
      \/ StageToGlobal(r) /\ \E s \in First(posted[r]) : l2' = l2 \cup {s} /\ staged' = [staged EXCEPT ![r] = s]
      \/ RemoveOldest(r)
  <2>1. CASE StageToGlobal(r)
    BY <2>1 DEF StageToGlobal, Oldest
  <2>2. CASE AppMoves(r) \/ Begins(r) \/ Dies(r)
    BY <2>2 DEF AppMoves, StoreState, PostState, ReceiveJob, LookUp, CheckAnswer, ReadState, Begins,
       Dies, storage
  <2>3. CASE HeadMoves(r)
    BY <2>1, <2>3 DEF HeadMoves, ReportWeight, ReadAck, delete_request, prefetch_request, ReadDelete,
       ReadOther, TakeLoad, TakePull, FetchState, storage
  <2> QED
    BY <2>2, <2>3 DEF Moves
<1>4. /\ \A s \in l2 \ l2' : s.t < WorkCycle - 1
      /\ \A s \in l2' \ l2 : staged[r] = None /\ s \in First(posted[r]) /\ staged'[r] = s
  <2>1. CASE UNCHANGED l2
    BY <2>1
  <2>2. CASE StageToGlobal(r) /\ \E s \in First(posted[r]) : l2' = l2 \cup {s} /\ staged' = [staged EXCEPT ![r] = s]
    BY <1>0, <2>2 DEF StageToGlobal, HeadIdle, StorageTypeOK
  <2>3. CASE RemoveOldest(r)
    <3> DEFINE s == Head(del_q[r])
    <3>1. l2' = l2 \ {s} /\ s.t < own_cycle[r] - 1
      BY <2>3 DEF RemoveOldest, TooOld
    <3>2. s \in State
      BY <1>0, <2>3 DEF RemoveOldest, StorageTypeOK
    <3>3. s.t \in Nat /\ own_cycle[r] \in Nat /\ own_cycle[r] <= WorkCycle
      BY <1>0, <3>2 DEF State, StorageTypeOK, RunnerKeeps
    <3> HIDE DEF s, WorkCycle
    <3>4. s.t < WorkCycle - 1
      BY <1>2, <3>1, <3>3
    <3> QED
      BY <3>1, <3>4
  <2> QED
    BY <1>3, <2>1, <2>2, <2>3
<1>5. Lasts
  BY <1>2, <1>4 DEF Lasts
<1>6. UNCHANGED Over /\ Needed' = Needed
  BY <1>1 DEF Over, Needed, server
<1> QED
  BY <1>0, <1>1, <1>4, <1>5, <1>6, ParentsStayKept DEF server

(* A runner's own move. *)
LEMMA MoveKeepsRunner ==
  ASSUME StudyInvariant, StudyInvariant', Caches, JobsAreDue, Durable, NEW r \in Runners, Moves(r)
  PROVE  RunnerKeeps(r)'
<1>0. /\ Invariants /\ Invariants' /\ TypeOK /\ RunnerTypeOK /\ StorageTypeOK /\ RunnerKeeps(r)
      /\ ParentsKept /\ Lasts
  BY MoveLasts DEF StudyInvariant, Everything, Invariants, Durable, TypeOK
<1>1. UNCHANGED server /\ CheckpointExists
  BY <1>0, MovesAreLocal DEF Moves, Goes, Serving, CheckpointExists
<1>2. WorkCycle' = WorkCycle /\ WorkCycle \in Nat \ {0} /\ faulty_runners' = faulty_runners
  BY <1>0, <1>1, WorkCycleIs DEF WorkCycle, Over, server
<1>3. InPool(r)
  BY <1>1 DEF StudyInvariant
<1>4. ASSUME Sent(r)' \subseteq Sent(r) \cup ({staged[r]} \ {None}),
             staged'[r] \in {staged[r], None},
             own_cycle'[r] = own_cycle[r],
             ToFetch(r)' \subseteq ToFetch(r),
             failed'[r] = "not_global" => failed'[r] = failed[r] /\ head'[r] = head[r]
      PROVE  RunnerKeeps(r)'
  BY <1>0, <1>2, <1>4, RunnerStillKeeps
<1>5. ASSUME UNCHANGED <<gp, head, pulls, own_cycle, staged>>,
             failed'[r] \in {failed[r], "not_local"}
      PROVE  RunnerKeeps(r)'
  <2>1. Sent(r)' = Sent(r) /\ ToFetch(r)' = ToFetch(r)
    BY <1>5 DEF Sent, ToFetch, InFetch
  <2> QED
    BY <1>4, <1>5, <2>1
<1>6. CASE Begins(r) \/ Dies(r) \/ AppMoves(r)
  <2>1. CASE CheckAnswer(r)
    BY <1>0, <1>5, <2>1 DEF CheckAnswer, Aborts, vars, channels, runner, StorageTypeOK
  <2>2. CASE StoreState(r) \/ PostState(r) \/ ReceiveJob(r) \/ LookUp(r) \/ ReadState(r)
    BY <1>5, <2>2 DEF StoreState, PostState, ReceiveJob, ReadJob, LookUp, ReadState, vars, channels,
       runner, storage
  <2>3. CASE Begins(r) \/ Dies(r)
    BY <1>5, <2>3 DEF Begins, Dies, StartRunner, RunnerDies, channels, storage
  <2> QED
    BY <1>6, <2>1, <2>2, <2>3 DEF AppMoves
<1>7. ASSUME NEW s, s \in {staged'[r]} \ {None}, Kept(s)',
             Sent(r)' = Sent(r), own_cycle' = own_cycle, ToFetch(r)' = ToFetch(r),
             failed'[r] # "not_global"
      PROVE  RunnerKeeps(r)'
  <2>1. \A u \in Sent(r) : Kept(u)'
    BY <1>0, AllAreStates, KeptLasts DEF RunnerKeeps, Unpooled
  <2>2. \A u \in ToFetch(r) : r \notin faulty_runners => Kept(u)'
    <3>1. ToFetch(r) \subseteq State
      BY <1>0, AllAreStates DEF Pooled, ToFetch
    <3> QED
      BY <1>0, <3>1, KeptLasts DEF RunnerKeeps
  <2> QED
    BY <1>0, <1>2, <1>7, <2>1, <2>2 DEF RunnerKeeps
<1>8. CASE StageToGlobal(r)
  <2>1. UNCHANGED vars /\ own_cycle' = own_cycle
    BY <1>8 DEF StageToGlobal
  <2>2. Sent(r)' = Sent(r) /\ ToFetch(r)' = ToFetch(r)
    BY <2>1 DEF Sent, ToFetch, InFetch, vars, channels, runner
  <2>3. PICK s \in First(posted[r]) :
               \/ Aborts(r, "global_exists") /\ UNCHANGED staged
               \/ s \in l2' /\ staged' = [staged EXCEPT ![r] = s] /\ failed' = failed
    BY <1>8 DEF StageToGlobal, Oldest
  <2>4. CASE Aborts(r, "global_exists") /\ UNCHANGED staged
    BY <1>0, <1>4, <2>1, <2>2, <2>4 DEF Aborts, StorageTypeOK
  <2>5. CASE s \in l2' /\ staged' = [staged EXCEPT ![r] = s] /\ failed' = failed
    <3>1. s \in State
      BY <1>0 DEF First, RunnerTypeOK
    <3>2. s # None /\ staged'[r] = s
      BY <1>0, <2>5, <3>1, NoneAssumption DEF StorageTypeOK
    <3>3. Kept(s)'
      BY <2>5 DEF Kept
    <3>4. failed'[r] # "not_global"
      <4>1. failed[r] = None
        BY <1>8 DEF StageToGlobal, HeadIdle, Runs
      <4> QED
        BY <2>5, <4>1, StorageAssumption DEF Failures
    <3> QED
      BY <1>7, <2>1, <2>2, <3>2, <3>3, <3>4
  <2> QED
    BY <2>3, <2>4, <2>5
<1>9. CASE ReportWeight(r)
  <2>1. /\ staged[r] # None /\ gp'[r] = WeightMsg(staged[r]) /\ staged'[r] = None
        /\ head'[r] = AfterWeight /\ UNCHANGED <<pulls, own_cycle, failed>>
    BY <1>0, <1>9 DEF ReportWeight, RunnerTypeOK, StorageTypeOK
  <2>2. Sent(r)' = {staged[r]}
    BY <2>1 DEF Sent, WeightMsg
  <2>3. ToFetch(r)' \subseteq ToFetch(r)
    BY <2>1 DEF ToFetch, InFetch, WeightMsg, AfterWeight
  <2>4. failed'[r] # "not_global"
    BY <1>9, <2>1, StorageAssumption DEF ReportWeight, Runs, Failures
  <2> QED
    BY <1>4, <2>1, <2>2, <2>3, <2>4
<1>10. CASE ReadAck(r)
  <2> DEFINE s == gp[r].state
  <2>1. /\ gp[r].type = "ack" /\ gp'[r] = Idle /\ UNCHANGED <<head, pulls, staged>>
        /\ own_cycle'[r] = IF s.t > own_cycle[r] THEN s.t ELSE own_cycle[r]
        /\ failed'[r] \in {failed[r], "overflow"} /\ failed[r] = None
    BY <1>0, <1>10 DEF ReadAck, Latest, EnterPool, Aborts, Runs, RunnerTypeOK, StorageTypeOK
  <2>2. Sent(r)' = {} /\ ToFetch(r)' = ToFetch(r)
    BY <2>1 DEF Sent, ToFetch, InFetch, Idle
  <2>3. s \in Sent(r)
    BY <2>1 DEF Sent
  <2>4. s \in State /\ Issued(s)
    BY <1>0, <1>3, <2>3, AllAreStates DEF InPool, Apart, Unpooled
  <2>5. s.t <= WorkCycle
    BY <1>0, <2>4, IssuedInWorkCycle
  <2>6. own_cycle'[r] <= WorkCycle'
    <3>1. own_cycle[r] <= WorkCycle
      BY <1>0 DEF RunnerKeeps
    <3> QED
      BY <1>2, <2>1, <2>5, <3>1
  <2>7. \A u \in ToFetch(r) : r \notin faulty_runners => Kept(u)'
    <3>1. ToFetch(r) \subseteq State
      BY <1>0, AllAreStates DEF Pooled, ToFetch
    <3> QED
      BY <1>0, <3>1, KeptLasts DEF RunnerKeeps
  <2>8. staged[r] = None
    BY <1>3, <2>1 DEF InPool, Talks, Idle
  <2>9. failed'[r] # "not_global"
    BY <2>1, StorageAssumption DEF Failures
  <2> QED
    BY <1>2, <2>1, <2>2, <2>6, <2>7, <2>8, <2>9 DEF RunnerKeeps
<1>11. CASE delete_request(r) \/ prefetch_request(r)
  <2>1. /\ gp'[r] \in {DeleteMsg(held[r]), PrefetchMsg(held[r])}
        /\ UNCHANGED <<head, pulls, own_cycle, staged, failed>>
    BY <1>0, <1>11 DEF delete_request, prefetch_request, runner, storage, RunnerTypeOK
  <2>2. gp'[r].type \in {"delete", "prefetch"}
    BY <2>1 DEF DeleteMsg, PrefetchMsg
  <2>3. Sent(r)' = {} /\ ToFetch(r)' \subseteq ToFetch(r)
    BY <2>1, <2>2 DEF Sent, ToFetch, InFetch
  <2> QED
    BY <1>4, <2>1, <2>3
<1>12. CASE ReadDelete(r)
  <2>1. /\ gp'[r] = Idle /\ UNCHANGED <<head, pulls, own_cycle, staged>>
        /\ failed'[r] \in {failed[r], "not_removed"} /\ failed[r] = None
    BY <1>0, <1>12 DEF ReadDelete, Aborts, Runs, RunnerTypeOK, StorageTypeOK
  <2>2. Sent(r)' = {} /\ ToFetch(r)' \subseteq ToFetch(r)
    BY <2>1 DEF Sent, ToFetch, InFetch, Idle
  <2>3. failed'[r] # "not_global"
    BY <2>1, StorageAssumption DEF Failures
  <2> QED
    BY <1>4, <2>1, <2>2, <2>3
<1>13. CASE ReadOther(r)
  <2>1. /\ gp'[r] = Idle /\ UNCHANGED <<own_cycle, staged, failed>> /\ failed[r] = None
        /\ pulls'[r] \subseteq pulls[r] \cup (IF gp[r].type = "pull" THEN gp[r].states ELSE {})
        /\ head'[r] \in {head[r], AtRest}
    BY <1>0, <1>13 DEF ReadOther, ReadReply, Runs, storage, RunnerTypeOK
  <2>2. Sent(r)' = {} /\ ToFetch(r)' \subseteq ToFetch(r)
    BY <2>1 DEF Sent, ToFetch, InFetch, Idle, AtRest
  <2>3. failed'[r] # "not_global"
    BY <2>1, StorageAssumption DEF Failures
  <2> QED
    BY <1>4, <2>1, <2>2, <2>3
<1>14. CASE TakeLoad(r)
  <2>1. /\ UNCHANGED <<gp, pulls, own_cycle, staged, failed>> /\ failed[r] = None
        /\ Sent(r)' = Sent(r) /\ head[r] = AtRest /\ staged[r] = None
    BY <1>14 DEF TakeLoad, HeadIdle, Runs, Sent, channels
  <2>2. CASE app[r].parent \in l1[r]
    BY <1>5, <1>14, <2>1, <2>2 DEF TakeLoad
  <2>3. CASE app[r].parent \notin l1[r]
    <3>1. head'[r] = Fetching(app[r].parent) /\ l2' = l2
      BY <1>0, <1>14, <2>3 DEF TakeLoad, RunnerTypeOK
    <3>2. InFetch(r)' = {app[r].parent}
      BY <3>1 DEF InFetch, Fetching
    <3>3. \A u \in ToFetch(r)' : u \in ToFetch(r) \/ u = app[r].parent
      BY <2>1, <3>2 DEF ToFetch
    <3>4. r \notin faulty_runners => app[r].parent \in l2'
      BY <1>1, <1>14, <2>3, <3>1, LoadIsKept
    <3>5. \A u \in ToFetch(r)' : r \notin faulty_runners => Kept(u)'
      BY <1>0, <1>2, <3>1, <3>3, <3>4 DEF Kept, RunnerKeeps
    <3>6. \A u \in Sent(r) : Kept(u)'
      BY <1>0, <1>2, <3>1 DEF Kept, RunnerKeeps
    <3>7. failed'[r] # "not_global"
      BY <2>1, StorageAssumption DEF Failures
    <3>8. own_cycle'[r] <= WorkCycle'
      BY <1>0, <1>2, <2>1 DEF RunnerKeeps
    <3> QED
      BY <1>2, <2>1, <3>5, <3>6, <3>7, <3>8 DEF RunnerKeeps
  <2> QED
    BY <2>2, <2>3
<1>15. CASE TakePull(r)
  <2>1. /\ UNCHANGED <<gp, own_cycle, staged, failed>> /\ failed[r] = None
    BY <1>15 DEF TakePull, HeadIdle, Runs, channels, storage
  <2>2. PICK s \in pulls[r] :
          /\ pulls' = [pulls EXCEPT ![r] = @ \ {s}]
          /\ head' = IF s \in l1[r] THEN head ELSE [head EXCEPT ![r] = Fetching(s)]
    BY <1>15 DEF TakePull
  <2>3. pulls'[r] \subseteq pulls[r] /\ head'[r] \in {head[r], Fetching(s)}
    BY <1>0, <2>2 DEF RunnerTypeOK
  <2>4. Sent(r)' = Sent(r) /\ ToFetch(r)' \subseteq ToFetch(r)
    BY <2>1, <2>3 DEF Sent, ToFetch, InFetch, Fetching
  <2>5. failed'[r] # "not_global"
    BY <2>1, StorageAssumption DEF Failures
  <2> QED
    BY <1>4, <2>1, <2>4, <2>5
<1>16. CASE FetchState(r)
  <2> DEFINE s == head[r].state
  <2>1. /\ UNCHANGED <<gp, pulls, own_cycle, staged, l2>> /\ failed[r] = None
        /\ head[r].at = "fetch"
    BY <1>16 DEF FetchState, Runs, channels
  <2>2. CASE s \in l2
    <3>1. head'[r] = AtRest /\ failed'[r] \in {failed[r], "overflow"}
      BY <1>0, <1>16, <2>2 DEF FetchState, EnterPool, Aborts, RunnerTypeOK, StorageTypeOK
    <3>2. Sent(r)' = Sent(r) /\ ToFetch(r)' \subseteq ToFetch(r)
      BY <2>1, <3>1 DEF Sent, ToFetch, InFetch, AtRest
    <3>3. failed'[r] # "not_global"
      BY <2>1, <3>1, StorageAssumption DEF Failures
    <3> QED
      BY <1>4, <2>1, <3>2, <3>3
  <2>3. CASE s \notin l2
    <3>1. head' = head
      BY <1>16, <2>3 DEF FetchState
    <3>2. Sent(r)' = Sent(r) /\ ToFetch(r)' = ToFetch(r)
      BY <2>1, <3>1 DEF Sent, ToFetch, InFetch
    <3>3. s \in ToFetch(r)
      BY <2>1 DEF ToFetch, InFetch
    <3>4. r \notin faulty_runners => s.t < WorkCycle - 1
      BY <1>0, <2>3, <3>3 DEF RunnerKeeps, Kept
    <3>5. \A u : Kept(u)' <=> Kept(u)
      BY <1>2, <2>1 DEF Kept
    <3> QED
      BY <1>0, <1>2, <2>1, <3>1, <3>2, <3>4, <3>5 DEF RunnerKeeps
  <2> QED
    BY <2>2, <2>3
<1>17. CASE RemoveOldest(r)
  BY <1>5, <1>17 DEF RemoveOldest, vars, channels, runner
<1> QED
  BY <1>6, <1>8, <1>9, <1>10, <1>11, <1>12, <1>13, <1>14, <1>15, <1>16, <1>17 DEF Moves, HeadMoves

(* A new server goes on with parents that are stored. *)
LEMMA RestartKeepsDurable ==
  ASSUME StudyInvariant, StudyInvariant', Durable, StudyRestart
  PROVE  Durable'
<1>0. /\ Invariants /\ Invariants' /\ TypeOK /\ StorageTypeOK /\ ParentsPast /\ ParentsKept
      /\ restart /\ l2' = l2
  BY DEF StudyInvariant, Everything, Invariants, Durable, StudyRestart
<1>1. /\ WorkCycle \in Nat \ {0} /\ WorkCycle' \in Nat \ {0}
  BY <1>0, WorkCycleIs, NextWorkCycleIs
<1>2. \A r \in Runners : /\ own_cycle'[r] = 1 /\ staged'[r] = None /\ failed'[r] = None
                         /\ pulls'[r] = {} /\ head'[r] = AtRest
  BY <1>0 DEF StudyRestart, restart, FirstCycle, NoneYet, Nothing, HeadsAtRest
<1>3. \A r \in Runners : InFetch(r)' = {} /\ failed'[r] # "not_global"
  BY <1>2, StorageAssumption DEF InFetch, AtRest, Failures
<1>4. ASSUME NEW n, NEW a, StartsWith(n, a), n = WorkCycle, n > 1 => DOMAIN a \subseteq l2
      PROVE  Durable'
  <2>1. /\ assimilation_cycle' = n /\ alpha' = a /\ due_dates' = {} /\ state_weights' = {}
        /\ checkpoint' = checkpoint /\ ~ Over' /\ gp' = Silent
    BY <1>4 DEF StartsWith, Over
  <2>2. WorkCycle' = WorkCycle /\ Needed' = DOMAIN a
    BY <1>4, <2>1 DEF WorkCycle, Needed
  <2>3. ParentsKept'
    BY <1>0, <1>4, <2>1, <2>2 DEF ParentsKept
  <2>4. ASSUME NEW r \in Runners PROVE RunnerKeeps(r)'
    <3>1. Sent(r)' = {} /\ ToFetch(r)' = {}
      BY <1>2, <1>3, <2>1 DEF Sent, ToFetch, Silent, Idle
    <3>2. own_cycle'[r] <= WorkCycle'
      BY <1>1, <1>2
    <3> QED
      BY <1>2, <1>3, <3>1, <3>2 DEF RunnerKeeps
  <2> QED
    BY <2>3, <2>4 DEF Durable
<1>5. CASE ~ is_restart
  <2>1. StartsWith(1, EmptyBag) /\ WorkCycle = 1
    BY <1>0, <1>5, LastCycleIs DEF restart, WorkCycle
  <2> QED
    BY <1>4, <2>1
<1>6. CASE is_restart /\ last_assimilation_cycle \in DOMAIN checkpoint
  <2> DEFINE n == last_assimilation_cycle
  <2>1. StartsWith(n, checkpoint[n]) /\ n = WorkCycle
    BY <1>0, <1>6, LastCycleIs DEF restart, WorkCycle
  <2>2. DOMAIN checkpoint[n] \subseteq l2
    BY <1>0, <1>1, <1>6, <2>1 DEF ParentsKept
  <2> HIDE DEF n
  <2> QED
    BY <1>4, <2>1, <2>2
<1>7. CASE is_restart /\ last_assimilation_cycle \notin DOMAIN checkpoint
  <2>1. Over /\ Fault("no_checkpoint")
    BY <1>0, <1>7, LastCycleIs DEF restart
  <2>2. /\ UNCHANGED <<assimilation_cycle, next_job_id, alpha, due_dates, checkpoint, state_weights,
                       faulty_runners, gp>>
        /\ Over'
    BY <2>1 DEF Fault, Over, channels
  <2>3. UNCHANGED <<Over, Needed, WorkCycle>>
    BY <2>1, <2>2 DEF Needed, WorkCycle
  <2>4. Lasts
    BY <1>0, <1>1, <2>3 DEF Lasts
  <2>5. ParentsKept'
    BY <1>0, <2>2, <2>3, <2>4, ParentsStayKept
  <2>6. ASSUME NEW r \in Runners PROVE RunnerKeeps(r)'
    <3>1. Sent(r)' = Sent(r) /\ ToFetch(r)' \subseteq ToFetch(r)
      BY <1>2, <1>3, <2>2 DEF Sent, ToFetch
    <3>2. RunnerKeeps(r) /\ \A s : Kept(s)' <=> Kept(s)
      BY <1>0, <2>3 DEF Durable, Kept
    <3>3. own_cycle'[r] <= WorkCycle'
      BY <1>1, <1>2
    <3> QED
      BY <1>2, <1>3, <2>2, <3>1, <3>2, <3>3 DEF RunnerKeeps
  <2> QED
    BY <2>5, <2>6 DEF Durable
<1> QED
  BY <1>5, <1>6, <1>7

(* Every step. *)
LEMMA StepKeepsDurable ==
  ASSUME StudyInvariant, StudyInvariant', Caches, JobsAreDue, Durable, [StudyNext]_study
  PROVE  Durable'
<1>0. /\ Invariants /\ Invariants' /\ TypeOK /\ StorageTypeOK
  BY DEF StudyInvariant, Everything, Invariants
<1>1. CASE ServerMoves
  BY <1>1, ServerKeepsDurable
<1>2. ASSUME NEW r \in Runners, Moves(r) PROVE Durable'
  <2>1. Lasts /\ ParentsKept'
    BY <1>2, MoveLasts
  <2>2. RunnerKeeps(r)'
    BY <1>2, MoveKeepsRunner
  <2>3. ASSUME NEW q \in Runners \ {r} PROVE RunnerKeeps(q)'
    <3>1. UNCHANGED server
      BY <1>0, <1>2, MovesAreLocal DEF Moves
    <3>2. /\ gp'[q] = gp[q] /\ head'[q] = head[q] /\ pulls'[q] = pulls[q] /\ staged'[q] = staged[q]
          /\ own_cycle'[q] = own_cycle[q] /\ failed'[q] = failed[q]
      BY <1>0, <1>2, <2>3, MovesAreLocal DEF Moves
    <3>3. Sent(q)' = Sent(q) /\ ToFetch(q)' = ToFetch(q)
      BY <3>2 DEF Sent, ToFetch, InFetch
    <3>4. RunnerKeeps(q) /\ faulty_runners' = faulty_runners
      BY <3>1 DEF Durable, server
    <3> QED
      BY <1>0, <2>1, <3>2, <3>3, <3>4, RunnerStillKeeps
  <2> QED
    BY <2>1, <2>2, <2>3 DEF Durable
<1>3. CASE StudyRestart
  BY <1>3, RestartKeepsDurable
<1>4. CASE UNCHANGED study
  <2>1. UNCHANGED <<assimilation_cycle, next_job_id, alpha, due_dates, checkpoint, state_weights,
                    faulty_runners, status, gp, head, pulls, l2, own_cycle, staged, failed>>
    BY <1>4 DEF study, vars, server, channels, runner, storage
  <2>2. UNCHANGED <<Over, Needed, WorkCycle>>
    BY <2>1 DEF Over, Needed, WorkCycle
  <2>3. \A s : Kept(s)' <=> Kept(s)
    BY <2>1, <2>2 DEF Kept
  <2>4. ParentsKept'
    BY <2>1, <2>2, <2>3 DEF ParentsKept, Durable
  <2>5. ASSUME NEW r \in Runners PROVE RunnerKeeps(r)'
    <3>1. Sent(r)' = Sent(r) /\ ToFetch(r)' = ToFetch(r) /\ RunnerKeeps(r)
      BY <2>1 DEF Sent, ToFetch, InFetch, Durable
    <3> QED
      BY <2>1, <2>2, <2>3, <3>1 DEF RunnerKeeps
  <2> QED
    BY <2>4, <2>5 DEF Durable
<1> QED
  BY <1>1, <1>2, <1>3, <1>4 DEF StudyNext, Moves

(* What is needed is always stored. *)
LEMMA AlwaysDurable == StudySpec => []Durable
<1>1. StudyInit => Durable
  <2> SUFFICES ASSUME StudyInit PROVE Durable
    OBVIOUS
  <2>1. /\ assimilation_cycle = 1 /\ checkpoint = << >> /\ state_weights = {} /\ ~ Over
        /\ l2 = {} /\ gp = Silent /\ head = HeadsAtRest /\ pulls = Nothing
        /\ own_cycle = FirstCycle /\ staged = NoneYet /\ failed = NoneYet
    BY DEF StudyInit, Init, Over
  <2>2. ParentsKept
    BY <2>1 DEF ParentsKept
  <2>3. ASSUME NEW r \in Runners PROVE RunnerKeeps(r)
    <3>1. Sent(r) = {} /\ ToFetch(r) = {} /\ staged[r] = None /\ failed[r] = None
      BY <2>1 DEF Sent, ToFetch, InFetch, Silent, Idle, HeadsAtRest, AtRest, Nothing, NoneYet
    <3>2. own_cycle[r] <= WorkCycle
      BY <2>1 DEF FirstCycle, WorkCycle
    <3> QED
      BY <3>1, <3>2, StorageAssumption DEF RunnerKeeps, Failures
  <2> QED
    BY <2>2, <2>3 DEF Durable
<1>2. StudySpec => Spec
  BY StudyImplementsWeightServer DEF ImplementsWeightServer
<1> QED
  BY <1>1, <1>2, StepKeepsDurable, StudyInvariantHolds, CachesHold, JobsAlwaysDue, PTL DEF StudySpec

(***************************************************************************)
(* A parent that is drawn, reserved or handed out is on level 2, whatever  *)
(* the runner that wrote it removed since, and whoever died: for all       *)
(* runners, pool sizes, timeouts, deaths and restarts.                     *)
(***************************************************************************)
THEOREM ParentsAlwaysStored == StudySpec => []ParentsStored
<1>1. StudyInvariant /\ Durable => ParentsStored
  <2> SUFFICES ASSUME StudyInvariant, Durable PROVE ParentsStored
    OBVIOUS
  <2>1. assimilation_cycle > 1 => Needed \subseteq l2
    BY DEF Durable, ParentsKept
  <2>2. assimilation_cycle \in Nat \ {0}
    BY WorkCycleIs DEF StudyInvariant, Everything
  <2>3. ASSUME NEW d \in due_dates, d.parent.t > 0 PROVE d.parent \in l2
    <3>1. ASSUME assimilation_cycle = 1 PROVE FALSE
      <4>1. d.parent = BaseState(d.runner)
        BY <3>1 DEF StudyInvariant, ParentsPast, GoodParent
      <4>2. d.parent.t = 0
        BY <4>1 DEF BaseState
      <4> QED
        BY <2>3, <4>2
    <3> QED
      BY <2>1, <2>2, <3>1 DEF Needed
  <2> QED
    BY <2>1, <2>3 DEF ParentsStored, Needed
<1> QED
  BY <1>1, StudyInvariantHolds, AlwaysDurable, PTL

-----------------------------------------------------------------------------
(***************************************************************************)
(* A state is stored on level 2 once.                                      *)
(***************************************************************************)
(* What a runner has not yet stored on level 2. *)
Unstaged(r) == (posted[r] \ {staged[r]}) \cup Newest(r)

(* Until a restart uses job ids again. *)
StoredOnce ==
  restarts = 0 =>
    /\ \A s \in l2 : Issued(s)
    /\ \A r \in Runners : failed[r] # "global_exists" /\ Unstaged(r) \cap l2 = {}
    /\ \A r, q \in Runners : r # q => Unstaged(r) \cap Unstaged(q) = {}

(* All of it was given out. *)
LEMMA UnstagedIsIssued ==
  ASSUME TypeOK, Ledger, NEW r \in Runners
  PROVE  Unstaged(r) \subseteq State /\ \A s \in Unstaged(r) : Issued(s)
<1>1. Unstaged(r) \subseteq Unpooled(r) /\ Unstaged(r) \subseteq JobsHeld(r)
  BY DEF Unstaged, Unpooled, Newest, JobsHeld
<1> QED
  BY <1>1, AllAreStates, HeldIsIssued

(* A move of a runner makes nothing new. *)
LEMMA MoveStages ==
  ASSUME StudyInvariant, NEW r \in Runners, Moves(r)
  PROVE  /\ Unstaged(r)' \subseteq Unstaged(r)
         /\ failed'[r] = "global_exists" => failed[r] = "global_exists" \/ Unstaged(r) \cap l2 # {}
<1>0. /\ TypeOK /\ RunnerTypeOK /\ StorageTypeOK /\ InPool(r)
  BY DEF StudyInvariant, Everything, Invariants, TypeOK, Moves, Goes, Serving, CheckpointExists
<1>1. ASSUME UNCHANGED <<posted, staged, jobs>>, app'[r].job = app[r].job
      PROVE  Unstaged(r)' = Unstaged(r)
  BY <1>1 DEF Unstaged, Newest
<1>2. CASE Begins(r) \/ Dies(r) \/ StoreState(r) \/ LookUp(r) \/ CheckAnswer(r)
  BY <1>0, <1>1, <1>2 DEF Begins, Dies, StartRunner, RunnerDies, StoreState, LookUp, CheckAnswer,
     Aborts, vars, channels, runner, storage, StorageTypeOK
<1>3. CASE PostState(r)
  <2>1. /\ jobs[r] = Idle /\ jobs'[r] = JobRequest /\ UNCHANGED <<app, staged, failed>>
        /\ posted'[r] = posted[r] \cup {app[r].job}
    BY <1>0, <1>3 DEF PostState, Computing, NextState, storage, RunnerTypeOK
  <2>2. Newest(r)' = {} /\ app[r].job \in Newest(r)
    BY <2>1 DEF Newest, Idle, JobRequest
  <2> QED
    BY <2>1, <2>2 DEF Unstaged
<1>4. CASE ReceiveJob(r)
  <2>1. /\ UNCHANGED <<posted, staged, failed>>
        /\ \/ jobs'[r] = JobRequest
           \/ jobs[r].type = "job" /\ jobs'[r] = Idle /\ app'[r].job = jobs[r].job
    BY <1>0, <1>4 DEF ReceiveJob, ReadJob, storage, Order, RunnerTypeOK
  <2>2. Newest(r)' \subseteq Newest(r)
    BY <2>1 DEF Newest, Idle, JobRequest
  <2> QED
    BY <2>1, <2>2 DEF Unstaged
<1>5. CASE ReadState(r)
  <2>1. UNCHANGED <<posted, staged, jobs, failed>> /\ app'[r].job = app[r].job
    BY <1>0, <1>5 DEF ReadState, channels, RunnerTypeOK
  <2> QED
    BY <1>1, <2>1
<1>6. CASE StageToGlobal(r)
  <2>1. staged[r] = None /\ failed[r] = None /\ UNCHANGED <<posted, jobs, app>>
    BY <1>6 DEF StageToGlobal, HeadIdle, Runs, vars, channels, runner
  <2>2. posted[r] \subseteq State
    BY <1>0 DEF RunnerTypeOK
  <2>3. First(posted[r]) \subseteq Unstaged(r)
    BY <2>1, <2>2, NoneAssumption DEF First, Unstaged
  <2>4. Unstaged(r)' \subseteq Unstaged(r)
    <3>1. Unstaged(r) = posted[r] \cup Newest(r)
      BY <2>1, <2>2, NoneAssumption DEF Unstaged
    <3>2. Newest(r)' = Newest(r)
      BY <2>1 DEF Newest
    <3> QED
      BY <2>1, <3>1, <3>2 DEF Unstaged
  <2>5. failed'[r] = "global_exists" => Unstaged(r) \cap l2 # {}
    <3>1. PICK s \in First(posted[r]) : s \in l2 \/ failed' = failed
      BY <1>6 DEF StageToGlobal, Oldest
    <3> QED
      BY <2>1, <2>3, <3>1, StorageAssumption DEF Failures
  <2> QED
    BY <2>4, <2>5
<1>7. CASE ReportWeight(r)
  <2>1. /\ posted'[r] = posted[r] \ {staged[r]} /\ UNCHANGED <<jobs, app, failed>>
    BY <1>0, <1>7 DEF ReportWeight, RunnerTypeOK
  <2> QED
    BY <2>1 DEF Unstaged, Newest
<1>8. CASE ReadAck(r) \/ FetchState(r) \/ ReadDelete(r)
  BY <1>0, <1>1, <1>8, StorageAssumption DEF ReadAck, FetchState, ReadDelete, EnterPool, Aborts, channels,
     StorageTypeOK
<1>9. CASE delete_request(r) \/ prefetch_request(r) \/ TakeLoad(r) \/ TakePull(r)
  BY <1>1, <1>9 DEF delete_request, prefetch_request, TakeLoad, TakePull, channels, runner, storage
<1>10. CASE ReadOther(r) \/ RemoveOldest(r)
  BY <1>1, <1>10 DEF ReadOther, ReadReply, RemoveOldest, vars, channels, runner, storage
<1> QED
  BY <1>2, <1>3, <1>4, <1>5, <1>6, <1>7, <1>8, <1>9, <1>10 DEF Moves, AppMoves, HeadMoves

(* The server only adds a job that nobody has. *)
LEMMA ServerKeepsStoredOnce ==
  ASSUME StudyInvariant, StudyInvariant', StoredOnce, ServerMoves
  PROVE  StoredOnce'
<1>0. /\ TypeOK /\ TypeOK' /\ Ledger /\ Ledger' /\ Dues /\ ParentsPast' /\ ServerStep /\ StorageTypeOK
      /\ UNCHANGED <<posted, app, staged, failed, l2, restarts>>
  BY DEF StudyInvariant, Everything, Invariants, ServerMoves, ServerStep, runner, storage
<1> SUFFICES ASSUME restarts = 0
             PROVE  /\ \A s \in l2 : Issued(s)'
                    /\ \A r \in Runners : failed[r] # "global_exists" /\ Unstaged(r)' \cap l2 = {}
                    /\ \A r, q \in Runners : r # q => Unstaged(r)' \cap Unstaged(q)' = {}
  BY <1>0 DEF StoredOnce
<1>1. \A s \in l2 : Issued(s) /\ Issued(s)' /\ s # generate_job_id
  BY <1>0, IssuedStays, NewJobIsLast DEF StoredOnce, StorageTypeOK
<1>2. \A r \in Runners : generate_job_id \notin Unstaged(r)
  BY <1>0, UnstagedIsIssued, NewJobIsLast
<1>3. ASSUME NEW r \in Runners
      PROVE  \/ Unstaged(r)' \subseteq Unstaged(r)
             \/ /\ Unstaged(r)' \subseteq Unstaged(r) \cup {generate_job_id}
                /\ \E d \in due_dates' : d.runner = r /\ d.job = generate_job_id
  <2> DEFINE g == generate_job_id
  <2>1. CASE jobs'[r] = jobs[r]
    BY <1>0, <2>1 DEF Unstaged, Newest
  <2>2. CASE jobs'[r] = NoJob
    <3>1. Newest(r)' = {}
      BY <2>2 DEF Newest, NoJob, Idle
    <3> QED
      BY <1>0, <3>1 DEF Unstaged
  <2>3. ASSUME NEW p, NEW n, jobs[r].type = "request", jobs'[r] = JobReply(g, p, n)
        PROVE  /\ Unstaged(r)' \subseteq Unstaged(r) \cup {g}
               /\ \E d \in due_dates' : d.runner = r /\ d.job = g
    <3>1. jobs'[r].type = "job" /\ jobs'[r].job = g /\ jobs'[r] # jobs[r] /\ jobs'[r] # Idle
      BY <2>3 DEF JobReply, Idle
    <3>2. Newest(r)' = {g}
      BY <3>1 DEF Newest
    <3>3. Due(r, g, jobs'[r].parent) \in due_dates'
      BY <1>0, <3>1, ServerCourse
    <3> HIDE DEF g
    <3>4. Due(r, g, jobs'[r].parent).runner = r /\ Due(r, g, jobs'[r].parent).job = g
      BY DEF Due
    <3> QED
      BY <1>0, <3>2, <3>3, <3>4 DEF Unstaged
  <2>4. Answered(r)
    BY <1>0, ServerAnswers
  <2> QED
    BY <2>1, <2>2, <2>3, <2>4 DEF Answered, JobAnswered
<1>4. ASSUME NEW r \in Runners PROVE Unstaged(r)' \cap l2 = {}
  BY <1>1, <1>3 DEF StoredOnce
<1>5. ASSUME NEW r \in Runners, NEW q \in Runners, r # q, NEW s \in Unstaged(r)', s \in Unstaged(q)'
      PROVE  FALSE
  <2>1. Unstaged(r) \cap Unstaged(q) = {}
    BY <1>5 DEF StoredOnce
  <2>2. CASE s # generate_job_id
    BY <1>3, <1>5, <2>1, <2>2
  <2>3. CASE s = generate_job_id
    <3>1. PICK d \in due_dates' : d.runner = r /\ d.job = generate_job_id
      BY <1>2, <1>3, <1>5, <2>3
    <3>2. PICK e \in due_dates' : e.runner = q /\ e.job = generate_job_id
      BY <1>2, <1>3, <1>5, <2>3
    <3>3. d = e
      BY <1>0, <3>1, <3>2 DEF Ledger, DueJobsDistinct
    <3> QED
      BY <1>5, <3>1, <3>2, <3>3
  <2> QED
    BY <2>2, <2>3
<1> QED
  BY <1>1, <1>4, <1>5 DEF StoredOnce

(* Every step. *)
LEMMA StepKeepsStoredOnce ==
  ASSUME StudyInvariant, StudyInvariant', Durable, StoredOnce, [StudyNext]_study
  PROVE  StoredOnce'
<1>0. /\ TypeOK /\ Ledger /\ StorageTypeOK /\ RunnerTypeOK
  BY DEF StudyInvariant, Everything, Invariants, TypeOK
<1>1. CASE ServerMoves
  BY <1>1, ServerKeepsStoredOnce
<1>2. ASSUME NEW r \in Runners, Moves(r) PROVE StoredOnce'
  <2>1. UNCHANGED server /\ restarts' = restarts /\ InPool(r)
    BY <1>0, <1>2, MovesAreLocal DEF Moves, Goes, Serving, StudyInvariant, CheckpointExists
  <2>2. ASSUME NEW q \in Runners, q # r PROVE Unstaged(q)' = Unstaged(q) /\ failed'[q] = failed[q]
    BY <1>0, <1>2, <2>2, MovesAreLocal DEF Moves, Unstaged, Newest
  <2>3. /\ Unstaged(r)' \subseteq Unstaged(r)
        /\ failed'[r] = "global_exists" => failed[r] = "global_exists" \/ Unstaged(r) \cap l2 # {}
    BY <1>2, MoveStages
  <2>4. \A s \in l2' \ l2 : staged[r] = None /\ s \in First(posted[r]) /\ staged'[r] = s
    BY <1>2, MoveLasts
  <2>5. ASSUME NEW s \in l2' \ l2 PROVE s \in Unstaged(r) /\ s \notin Unstaged(r)'
    <3>1. s \in posted[r] /\ s \in State /\ staged[r] = None /\ staged'[r] = s
      BY <1>0, <2>4 DEF First, RunnerTypeOK
    <3>2. s \in Unstaged(r)
      BY <3>1, NoneAssumption DEF Unstaged
    <3>3. UNCHANGED <<jobs, app>>
      <4>1. CASE StageToGlobal(r)
        BY <4>1 DEF StageToGlobal, vars, channels, runner
      <4>2. CASE ~ StageToGlobal(r)
        <5>1. staged' = staged
          BY <1>0, <1>2, <2>5, <3>1, <4>2, NoneAssumption DEF Moves, Begins, Dies, AppMoves, HeadMoves,
             StoreState, PostState, ReceiveJob, LookUp, CheckAnswer, ReadState, ReportWeight, ReadAck,
             delete_request, prefetch_request, ReadDelete, ReadOther, TakeLoad, TakePull, FetchState,
             RemoveOldest, storage
        <5> QED
          BY <3>1, <5>1, NoneAssumption
      <4> QED
        BY <4>1, <4>2
    <3>4. s \notin Newest(r)'
      <4>1. Newest(r)' = Newest(r)
        BY <3>3 DEF Newest
      <4>2. ASSUME s \in Newest(r) PROVE FALSE
        <5>1. Earlier(s, s)
          BY <2>1, <3>1, <4>2 DEF InPool, InOrder
        <5> QED
          BY <3>1, <5>1, EarlierIsOrder
      <4> QED
        BY <4>1, <4>2
    <3> QED
      BY <3>1, <3>2, <3>4 DEF Unstaged
  <2>6. \A s \in Unstaged(r) : Issued(s)
    BY <1>0, UnstagedIsIssued
  <2>7. ASSUME restarts = 0
        PROVE  /\ \A s \in l2' : Issued(s)'
               /\ \A q \in Runners : failed'[q] # "global_exists" /\ Unstaged(q)' \cap l2' = {}
               /\ \A q, p \in Runners : q # p => Unstaged(q)' \cap Unstaged(p)' = {}
    <3>1. /\ \A s \in l2 : Issued(s)
          /\ \A q \in Runners : failed[q] # "global_exists" /\ Unstaged(q) \cap l2 = {}
          /\ \A q, p \in Runners : q # p => Unstaged(q) \cap Unstaged(p) = {}
      BY <2>7 DEF StoredOnce
    <3>2. \A s \in l2' : Issued(s)
      BY <2>5, <2>6, <3>1
    <3>3. \A s : Issued(s)' <=> Issued(s)
      BY <2>1 DEF Issued, server
    <3>4. ASSUME NEW q \in Runners, NEW s \in Unstaged(q)', s \in l2' PROVE FALSE
      <4>1. CASE s \in l2
        BY <2>2, <2>3, <3>1, <3>4, <4>1
      <4>2. CASE s \notin l2
        <5>1. s \in Unstaged(r) /\ s \notin Unstaged(r)'
          BY <2>5, <3>4, <4>2
        <5>2. q # r
          BY <3>4, <5>1
        <5>3. s \in Unstaged(q)
          BY <2>2, <3>4, <5>2
        <5> QED
          BY <3>1, <5>1, <5>2, <5>3
      <4> QED
        BY <4>1, <4>2
    <3>5. \A q \in Runners : failed'[q] # "global_exists"
      BY <2>2, <2>3, <3>1
    <3>6. \A q, p \in Runners : q # p => Unstaged(q)' \cap Unstaged(p)' = {}
      BY <2>2, <2>3, <3>1
    <3> QED
      BY <3>2, <3>3, <3>4, <3>5, <3>6
  <2> QED
    BY <2>1, <2>7 DEF StoredOnce
<1>3. CASE StudyRestart
  <2>1. restarts' = restarts + 1 /\ restarts \in Nat
    BY <1>3 DEF StudyRestart, restart, StudyInvariant, Everything, Invariants, TypeOK, ServerTypeOK,
       RunnerTypeOK
  <2>2. restarts' # 0
    BY <2>1
  <2> QED
    BY <2>2 DEF StoredOnce
<1>4. CASE UNCHANGED study
  <2>1. UNCHANGED <<assimilation_cycle, next_job_id, restarts, jobs, app, posted, l2, staged, failed>>
    BY <1>4 DEF study, vars, server, channels, runner, storage
  <2>2. \A r \in Runners : Unstaged(r)' = Unstaged(r)
    BY <2>1 DEF Unstaged, Newest
  <2>3. \A s : Issued(s)' <=> Issued(s)
    BY <2>1 DEF Issued
  <2> QED
    BY <2>1, <2>2, <2>3 DEF StoredOnce
<1> QED
  BY <1>1, <1>2, <1>3, <1>4 DEF StudyNext, Moves

(* Until a restart every state is stored once. *)
LEMMA AlwaysStoredOnce == StudySpec => []StoredOnce
<1>1. StudyInit => StoredOnce
  <2> SUFFICES ASSUME StudyInit PROVE StoredOnce
    OBVIOUS
  <2>1. l2 = {} /\ posted = Nothing /\ jobs = Silent /\ app = BaseJobs /\ failed = NoneYet
    BY DEF StudyInit, Init
  <2>2. \A r \in Runners : Unstaged(r) = {BaseState(r)} /\ failed[r] # "global_exists"
    BY <2>1, StorageAssumption DEF Unstaged, Newest, Nothing, Silent, Idle, BaseJobs, Order, NoneYet,
       Failures
  <2>3. \A r, q \in Runners : BaseState(r) = BaseState(q) => r = q
    <3> SUFFICES ASSUME NEW r \in Runners, NEW q \in Runners, BaseState(r) = BaseState(q) PROVE r = q
      OBVIOUS
    <3>1. BaseState(r).id = r /\ BaseState(q).id = q
      BY DEF BaseState
    <3> QED
      BY <3>1
  <2> QED
    BY <2>1, <2>2, <2>3 DEF StoredOnce
<1> QED
  BY <1>1, StepKeepsStoredOnce, StudyInvariantHolds, AlwaysDurable, PTL DEF StudySpec

(***************************************************************************)
(* Of all that makes a runner abort only two things happen: it fetches a   *)
(* state too late, when nobody waits for it any more, or a restart used a  *)
(* job id again.  For all runners, backlogs, timeouts, deaths and restarts,*)
(* and all pools that have a slot.                                         *)
(***************************************************************************)
THEOREM OnlyKnownAbortsHappen ==
  ASSUME CacheSlots > 0
  PROVE  StudySpec => []OnlyKnownAborts
<1>1. StudyInvariant /\ AllLoadWell /\ Durable /\ StoredOnce => OnlyKnownAborts
  <2> SUFFICES ASSUME StudyInvariant, AllLoadWell, Durable, StoredOnce,
                      NEW r \in Runners, failed[r] # None
               PROVE  LateFetch(r) \/ StoredAgain(r)
    BY DEF OnlyKnownAborts
  <2>0. /\ Invariants /\ ParentsPast /\ StorageTypeOK /\ restarts \in Nat /\ due_dates \subseteq DueDate
        /\ assimilation_cycle \in Nat \ {0} /\ WorkCycle \in Nat \ {0} /\ WorkCycle <= assimilation_cycle
    BY WorkCycleIs DEF StudyInvariant, Everything, Invariants, TypeOK, RunnerTypeOK, ServerTypeOK
  <2>1. failed[r] \in {"global_exists", "not_global"}
    BY <2>0 DEF StorageTypeOK, Failures, AllLoadWell, LoadWell, LoadsWell, Room
  <2>2. CASE failed[r] = "global_exists"
    BY <2>0, <2>2 DEF StoredOnce, StoredAgain
  <2>3. CASE failed[r] = "not_global"
    <3> SUFFICES ASSUME r \notin faulty_runners, NEW d \in DueDatesOf(r), d.parent = head[r].state
                 PROVE  FALSE
      BY <2>3 DEF LateFetch
    <3>1. head[r].state.t < WorkCycle - 1
      BY <2>3 DEF Durable, RunnerKeeps
    <3>2. GoodParent(d.parent, r) /\ d.parent \in State
      BY <2>0 DEF ParentsPast, DueDatesOf, DueDate
    <3>3. d.parent.t \in Nat
      BY <3>2 DEF State
    <3>4. d.parent.t = assimilation_cycle - 1
      <4>1. CASE assimilation_cycle = 1
        BY <3>2, <4>1 DEF GoodParent, BaseState
      <4>2. CASE assimilation_cycle # 1
        BY <3>2, <4>2 DEF GoodParent
      <4> QED
        BY <4>1, <4>2
    <3> QED
      BY <2>0, <3>1, <3>3, <3>4
  <2> QED
    BY <2>1, <2>2, <2>3
<1> QED
  BY <1>1, StudyInvariantHolds, AlwaysLoadWell, AlwaysDurable, AlwaysStoredOnce, PTL

=============================================================================
