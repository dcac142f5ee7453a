--------------------------- MODULE DueDatesProof ---------------------------
(***************************************************************************)
(* Server and runners agree on who works on what, for all runners,         *)
(* particles, cycles, timeouts and restarts: the due dates of a runner are *)
(* the jobs in its hands, so that DueDates.remove never misses one.        *)
(* And on what each runner caches: the server's books list no state that   *)
(* the runner does not hold, and a parent it reserved stays there.  Then,  *)
(* while nothing times out there is a parent for whoever asks; parents are *)
(* of the cycle before that of the jobs that start from them; and in a     *)
(* cache that is large enough the server finds a state to delete.          *)
(***************************************************************************)
EXTENDS WeightServerProof

-----------------------------------------------------------------------------
(***************************************************************************)
(* The invariant of one runner.  That a weight takes a job out of the      *)
(* runner's hands needs every job to be in one place only.                 *)
(***************************************************************************)
(* The jobs of the due dates of a runner. *)
JobsDue(r) == {d.job : d \in DueDatesOf(r)}

Agrees(r) ==
  r \notin faulty_runners =>
    JobsDue(r) = {j \in InHand(r) : j.t > 0} \cup ReservedFor(r)

InOnePlace(r) ==
  /\ gp[r].type = "weight" => gp[r].state \notin posted[r]
  /\ jobs[r] = Idle =>
       /\ app[r].job \notin posted[r]
       /\ gp[r].type = "weight" => gp[r].state # app[r].job
  /\ jobs[r].type = "job" =>
       /\ jobs[r].job \notin posted[r]
       /\ gp[r].type = "weight" => gp[r].state # jobs[r].job

Matched(r) == Agrees(r) /\ (Serving => InOnePlace(r))

(* After the last update nobody works. *)
NoneOutAtEnd == Over => due_dates = {} /\ DOMAIN scheduled_jobs = {}

Dues == \A r \in Runners : Matched(r)

(* What is said of all runners is the property of the runs. *)
LEMMA DuesMatch == Dues => DueDatesMatchRunners
BY DEF Dues, Matched, Agrees, JobsDue, DueDatesMatchRunners

-----------------------------------------------------------------------------
(* A runner that a step leaves alone. *)
LEMMA RunnerLeft ==
  ASSUME NEW r \in Runners, Matched(r), Serving' => Serving, faulty_runners \subseteq faulty_runners',
         posted'[r] = posted[r], app'[r] = app[r], jobs'[r] = jobs[r], gp'[r] = gp[r],
         r \notin faulty_runners' =>
           JobsDue(r)' = JobsDue(r) /\ ReservedFor(r)' = ReservedFor(r)
  PROVE  Matched(r)'
<1>1. InHand(r)' = InHand(r)
  BY DEF InHand
<1>2. Serving' => InOnePlace(r)'
  BY DEF Matched, InOnePlace
<1>3. Agrees(r)'
  BY <1>1 DEF Matched, Agrees
<1> QED
  BY <1>2, <1>3 DEF Matched

(* A step of the server that reads or answers a message without a weight or *)
(* a job.                                                                   *)
LEMMA OtherMessages ==
  ASSUME TypeOK, Dues, Serving' => Serving,
         UNCHANGED <<due_dates, scheduled_jobs, faulty_runners, posted, app>>,
         \A r \in Runners :
           \/ gp'[r] = gp[r]
           \/ gp[r].type # "weight" /\ gp'[r].type # "weight"
           \/ r \in faulty_runners /\ gp'[r].type # "weight",
         \A r \in Runners :
           \/ jobs'[r] = jobs[r]
           \/ /\ jobs[r] # Idle /\ jobs[r].type # "job"
              /\ jobs'[r] # Idle /\ jobs'[r].type # "job"
  PROVE  Dues'
<1> SUFFICES ASSUME NEW r \in Runners PROVE Matched(r)'
  BY DEF Dues
<1>1. Matched(r)
  BY DEF Dues
<1>2. Serving' => InOnePlace(r)'
  BY <1>1 DEF Matched, InOnePlace
<1>3. Agrees(r)'
  <2> SUFFICES ASSUME r \notin faulty_runners
               PROVE  InHand(r)' = InHand(r)
    BY <1>1 DEF Matched, Agrees, JobsDue, DueDatesOf, ReservedFor
  <2> QED
    BY DEF InHand
<1> QED
  BY <1>2, <1>3 DEF Matched

(* accept_weight takes the job out of the runner's hands and its due date. *)
LEMMA AcceptWeightMatched ==
  ASSUME TypeOK, Ledger, Dues, NEW r \in Runners, accept_weight(r),
         UNCHANGED <<restarts, runner>>
  PROVE  Dues'
<1> DEFINE s == gp[r].state
<1>1. /\ gp[r].type = "weight" /\ gp' = [gp EXCEPT ![r] = Ack(s)]
      /\ UNCHANGED <<scheduled_jobs, faulty_runners, jobs, posted, app>>
      /\ \/ s.t = 0 /\ due_dates' = due_dates
         \/ due_dates' = WithoutDueDate(r, s)
      /\ r \notin faulty_runners
  BY DEF accept_weight, runner, Heard
<1>0. Serving
  BY DEF accept_weight, Heard
<1>2. gp \in [Runners -> GpMessage]
  BY DEF TypeOK, RunnerTypeOK
<1>3. gp'[r].type = "ack" /\ \A q \in Runners \ {r} : gp'[q] = gp[q]
  BY <1>1, <1>2 DEF Ack
<1>4. ASSUME NEW q \in Runners \ {r} PROVE Matched(q)'
  <2>1. DueDatesOf(q)' = DueDatesOf(q)
    BY <1>1 DEF DueDatesOf, WithoutDueDate
  <2>2. JobsDue(q)' = JobsDue(q)
    BY <2>1 DEF JobsDue
  <2> QED
    BY <1>0, <1>1, <1>3, <2>2, RunnerLeft DEF Dues, ReservedFor
<1>5. Matched(r)'
  <2>0. Matched(r)
    BY DEF Dues
  <2>1. InOnePlace(r)'
    BY <1>0, <1>1, <1>3, <2>0 DEF Matched, InOnePlace
  <2>2. /\ InHand(r)' = InHand(r) \ {s}
        /\ s \in InHand(r) /\ s \in JobsHeld(r)
    BY <1>0, <1>1, <1>3, <2>0 DEF Matched, InOnePlace, InHand, JobsHeld
  <2>3. ReservedFor(r)' = ReservedFor(r) /\ s \notin ReservedFor(r)
    BY <1>1, <2>2 DEF ReservedFor, Ledger, ReservedNotHeld
  <2>4. JobsDue(r) = {j \in InHand(r) : j.t > 0} \cup ReservedFor(r)
    BY <1>1, <2>0 DEF Matched, Agrees
  <2>5. CASE s.t = 0 /\ due_dates' = due_dates
    <3>1. JobsDue(r)' = JobsDue(r)
      BY <2>5 DEF JobsDue, DueDatesOf
    <3> QED
      BY <2>1, <2>2, <2>3, <2>4, <2>5, <3>1 DEF Matched, Agrees
  <2>6. CASE due_dates' = WithoutDueDate(r, s)
    <3>1. JobsDue(r)' = JobsDue(r) \ {s}
      BY <2>6 DEF JobsDue, DueDatesOf, WithoutDueDate
    <3> QED
      BY <2>1, <2>2, <2>3, <2>4, <3>1 DEF Matched, Agrees
  <2> QED
    BY <1>1, <2>5, <2>6
<1> QED
  BY <1>4, <1>5 DEF Dues

(* accept_prefetch reserves a job that nobody has, or none. *)
LEMMA AcceptPrefetchMatched ==
  ASSUME TypeOK, Ledger, Dues, NEW r \in Runners, accept_prefetch(r),
         UNCHANGED <<restarts, runner>>
  PROVE  Dues'
<1>0. Serving
  BY DEF accept_prefetch, Heard
<1>1. /\ gp[r].type = "prefetch"
      /\ UNCHANGED <<faulty_runners, jobs, posted, app>>
      /\ \/ UNCHANGED <<scheduled_jobs, due_dates>>
         \/ \E p : /\ r \notin DOMAIN scheduled_jobs
                   /\ scheduled_jobs' = Put(scheduled_jobs, r, Order(generate_job_id, p))
                   /\ due_dates' = due_dates \cup {Due(r, generate_job_id, p)}
  BY DEF accept_prefetch, runner, Prefetches
<1>2. /\ gp'[r].type = "pull"
      /\ \A q \in Runners \ {r} : gp'[q] = gp[q]
  BY DEF accept_prefetch, PullReply, TypeOK, RunnerTypeOK
<1>3. CASE UNCHANGED <<scheduled_jobs, due_dates>>
  BY <1>0, <1>1, <1>2, <1>3, OtherMessages
<1>4. ASSUME NEW p, r \notin DOMAIN scheduled_jobs,
             scheduled_jobs' = Put(scheduled_jobs, r, Order(generate_job_id, p)),
             due_dates' = due_dates \cup {Due(r, generate_job_id, p)}
      PROVE  Dues'
  <2>1. ASSUME NEW q \in Runners \ {r} PROVE Matched(q)'
    <3>1. DueDatesOf(q)' = DueDatesOf(q)
      BY <1>4 DEF DueDatesOf, Due
    <3>2. JobsDue(q)' = JobsDue(q) /\ ReservedFor(q)' = ReservedFor(q)
      BY <1>4, <3>1 DEF JobsDue, ReservedFor, Put
    <3> QED
      BY <1>0, <1>1, <1>2, <3>2, RunnerLeft DEF Dues
  <2>2. Matched(r)'
    <3>0. Matched(r)
      BY DEF Dues
    <3>1. InOnePlace(r)'
      BY <1>0, <1>1, <1>2, <3>0 DEF Matched, InOnePlace
    <3>2. InHand(r)' = InHand(r)
      BY <1>1, <1>2 DEF InHand
    <3>3. ReservedFor(r) = {} /\ ReservedFor(r)' = {generate_job_id}
      BY <1>4 DEF ReservedFor, Put, Order
    <3>4. JobsDue(r)' = JobsDue(r) \cup {generate_job_id}
      <4>1. DueDatesOf(r)' = DueDatesOf(r) \cup {Due(r, generate_job_id, p)}
        BY <1>4 DEF DueDatesOf, Due
      <4>2. Due(r, generate_job_id, p).job = generate_job_id
        BY DEF Due
      <4> QED
        BY <4>1, <4>2 DEF JobsDue
    <3> QED
      BY <1>1, <3>0, <3>1, <3>2, <3>3, <3>4 DEF Matched, Agrees
  <2> QED
    BY <2>1, <2>2 DEF Dues
<1> QED
  BY <1>1, <1>3, <1>4

(* A job that is handed out is in the hands of the runner that asked, and  *)
(* the reserved one it may replace is no longer due.                       *)
LEMMA GiveJobMatched ==
  ASSUME TypeOK, Ledger, Dues, NEW r \in Runners, NEW p, NEW kept, NEW taken,
         Serving, jobs[r].type = "request", GiveJob(r, p, kept), r \notin faulty_runners,
         UNCHANGED <<restarts, runner>>,
         taken = ReservedFor(r),
         kept = {d \in due_dates : d.runner = r => d.job \notin taken},
         r \notin DOMAIN scheduled_jobs',
         \A q \in Runners \ {r} :
           /\ q \in DOMAIN scheduled_jobs' <=> q \in DOMAIN scheduled_jobs
           /\ q \in DOMAIN scheduled_jobs => scheduled_jobs'[q] = scheduled_jobs[q]
  PROVE  Dues'
<1> DEFINE new == Due(r, generate_job_id, p)
           reply == JobReply(generate_job_id, p, WarmupNSteps)
<1>0. Serving
  OBVIOUS
<1>1. /\ due_dates' = kept \cup {new}
      /\ jobs' = [jobs EXCEPT ![r] = reply]
      /\ UNCHANGED <<faulty_runners, gp, posted, app>>
  BY DEF GiveJob, runner
<1>2. /\ jobs'[r] = reply /\ \A q \in Runners \ {r} : jobs'[q] = jobs[q]
      /\ new.job = generate_job_id /\ new.runner = r
      /\ reply.type = "job" /\ reply.job = generate_job_id /\ reply # Idle
      /\ jobs[r] # Idle
  BY <1>1 DEF TypeOK, RunnerTypeOK, JobReply, Due, Idle
<1>3. ASSUME NEW q \in Runners \ {r} PROVE Matched(q)'
  <2>1. DueDatesOf(q)' = DueDatesOf(q)
    BY <1>1, <1>2 DEF DueDatesOf
  <2>2. JobsDue(q)' = JobsDue(q) /\ ReservedFor(q)' = ReservedFor(q)
    BY <2>1 DEF JobsDue, ReservedFor
  <2> QED
    BY <1>0, <1>1, <1>2, <2>2, RunnerLeft DEF Dues
<1>4. Matched(r)'
  <2>0. Matched(r)
    BY DEF Dues
  <2>1. generate_job_id \notin JobsHeld(r)
    BY FreshJob DEF Ledger
  <2>2. InOnePlace(r)'
    BY <1>0, <1>1, <1>2, <2>0, <2>1 DEF Matched, InOnePlace, JobsHeld
  <2>3. InHand(r)' = InHand(r) \cup {generate_job_id}
    BY <1>1, <1>2 DEF InHand
  <2>4. ReservedFor(r)' = {}
    BY DEF ReservedFor
  <2>5. JobsDue(r)' = (JobsDue(r) \ taken) \cup {generate_job_id}
    <3>1. DueDatesOf(r)' = {d \in DueDatesOf(r) : d.job \notin taken} \cup {new}
      BY <1>1, <1>2 DEF DueDatesOf
    <3> QED
      BY <1>2, <3>1 DEF JobsDue
  <2>6. InHand(r) \cap taken = {}
    <3>1. InHand(r) \subseteq JobsHeld(r)
      BY DEF InHand, JobsHeld
    <3> QED
      BY <3>1 DEF ReservedFor, Ledger, ReservedNotHeld
  <2>7. generate_job_id.t > 0
    BY DEF generate_job_id, TypeOK, ServerTypeOK
  <2>8. JobsDue(r) = {j \in InHand(r) : j.t > 0} \cup taken
    BY <2>0 DEF Matched, Agrees
  <2> QED
    BY <2>2, <2>3, <2>4, <2>5, <2>6, <2>7, <2>8 DEF Matched, Agrees
<1> QED
  BY <1>3, <1>4 DEF Dues

(* Handing out a reserved job or a new one. *)
LEMMA HandleJobRequestsMatched ==
  ASSUME TypeOK, Ledger, Dues, NEW r \in Runners, handle_job_requests(r),
         UNCHANGED <<restarts, runner>>
  PROVE  Dues'
<1>0. Serving
  BY DEF handle_job_requests, give_scheduled_job, give_new_job, give_no_job, AsksForJob, Heard
<1>1. CASE give_scheduled_job(r)
  <2>1. /\ jobs[r].type = "request" /\ r \notin faulty_runners
        /\ r \in DOMAIN scheduled_jobs /\ scheduled_jobs' = Del(scheduled_jobs, r)
        /\ GiveJob(r, scheduled_jobs[r].parent, WithoutDueDate(r, scheduled_jobs[r].job))
    BY <1>1 DEF give_scheduled_job, AsksForJob, Heard
  <2>2. WithoutDueDate(r, scheduled_jobs[r].job)
          = {d \in due_dates : d.runner = r => d.job \notin ReservedFor(r)}
    BY <2>1 DEF WithoutDueDate, DueDatesOf, ReservedFor
  <2>3. /\ r \notin DOMAIN scheduled_jobs'
        /\ \A q \in Runners \ {r} :
             /\ q \in DOMAIN scheduled_jobs' <=> q \in DOMAIN scheduled_jobs
             /\ q \in DOMAIN scheduled_jobs => scheduled_jobs'[q] = scheduled_jobs[q]
    BY <2>1 DEF Del
  <2> QED
    BY <1>0, <2>1, <2>2, <2>3, GiveJobMatched
<1>2. CASE give_new_job(r)
  <2>1. PICK p : GiveJob(r, p, due_dates)
    BY <1>2 DEF give_new_job
  <2>2. /\ jobs[r].type = "request" /\ r \notin faulty_runners
        /\ r \notin DOMAIN scheduled_jobs /\ scheduled_jobs' = scheduled_jobs
    BY <1>2 DEF give_new_job, AsksForJob, Heard
  <2>3. due_dates = {d \in due_dates : d.runner = r => d.job \notin ReservedFor(r)}
    BY <2>2 DEF ReservedFor
  <2> QED
    BY <1>0, <2>1, <2>2, <2>3, GiveJobMatched
<1>3. CASE give_no_job(r)
  <2>1. /\ jobs[r].type = "request" /\ jobs' = [jobs EXCEPT ![r] = NoJob]
        /\ UNCHANGED <<due_dates, scheduled_jobs, faulty_runners, posted, app, gp>>
    BY <1>3 DEF give_no_job, AsksForJob, runner
  <2>2. \A q \in Runners :
          \/ jobs'[q] = jobs[q]
          \/ /\ jobs[q] # Idle /\ jobs[q].type # "job"
             /\ jobs'[q] # Idle /\ jobs'[q].type # "job"
    BY <2>1 DEF TypeOK, RunnerTypeOK, NoJob, Idle
  <2> QED
    BY <1>0, <2>1, <2>2, OtherMessages
<1> QED
  BY <1>1, <1>2, <1>3 DEF handle_job_requests

(* accept_delete changes no job. *)
LEMMA AcceptDeleteMatched ==
  ASSUME TypeOK, Dues, NEW r \in Runners, accept_delete(r), UNCHANGED <<restarts, runner>>
  PROVE  Dues'
<1>0. Serving
  BY DEF accept_delete, Heard
<1>1. /\ gp[r].type = "delete"
      /\ UNCHANGED <<due_dates, scheduled_jobs, faulty_runners, posted, app, jobs>>
  BY DEF accept_delete, runner
<1>2. gp'[r].type = "deleted" /\ \A q \in Runners \ {r} : gp'[q] = gp[q]
  BY DEF accept_delete, DeleteReply, TypeOK, RunnerTypeOK
<1> QED
  BY <1>0, <1>1, <1>2, OtherMessages

(* What a faulty runner says does not count. *)
LEMMA IgnoreFaultyMatched ==
  ASSUME TypeOK, Dues, NEW r \in Runners, ignore_faulty(r), UNCHANGED <<restarts, runner>>
  PROVE  Dues'
<1>0. Serving
  BY DEF ignore_faulty
<1>1. /\ UNCHANGED <<due_dates, scheduled_jobs, faulty_runners, posted, app>>
      /\ r \in faulty_runners
  BY DEF ignore_faulty, runner, server
<1>2. CASE /\ gp[r].type \in {"weight", "delete", "prefetch"}
           /\ gp' = [gp EXCEPT ![r] = EmptyReply(gp[r])]
           /\ UNCHANGED jobs
  <2>1. EmptyReply(gp[r]).type # "weight"
    BY <1>2 DEF EmptyReply, Ack, Empty, PullReply
  <2>2. gp'[r].type # "weight" /\ \A q \in Runners \ {r} : gp'[q] = gp[q]
    BY <1>2, <2>1 DEF TypeOK, RunnerTypeOK
  <2> QED
    BY <1>0, <1>1, <1>2, <2>2, OtherMessages
<1>3. CASE /\ jobs[r].type = "request"
           /\ jobs' = [jobs EXCEPT ![r] = NoJob]
           /\ UNCHANGED gp
  <2>1. \A q \in Runners :
          \/ jobs'[q] = jobs[q]
          \/ /\ jobs[q] # Idle /\ jobs[q].type # "job"
             /\ jobs'[q] # Idle /\ jobs'[q].type # "job"
    BY <1>3 DEF TypeOK, RunnerTypeOK, NoJob, Idle
  <2> QED
    BY <1>0, <1>1, <1>3, <2>1, OtherMessages
<1> QED
  BY <1>2, <1>3 DEF ignore_faulty

(* A due date that expires makes its runner faulty and concerns no other. *)
LEMMA CheckViolationsMatched ==
  ASSUME TypeOK, Dues, check_violations, UNCHANGED <<restarts, runner>>
  PROVE  Dues'
<1>0. Serving
  BY DEF check_violations
<1>1. PICK d \in due_dates :
        /\ faulty_runners' = faulty_runners \cup {d.runner}
        /\ scheduled_jobs' = Del(scheduled_jobs, d.runner)
        /\ due_dates' = due_dates \ {d}
  BY DEF check_violations, ScheduledAfterTimeout
<1>2. UNCHANGED <<gp, jobs, posted, app>>
  BY DEF check_violations, channels, runner
<1>3. ASSUME NEW q \in Runners PROVE Matched(q)'
  <2>1. ASSUME q # d.runner
        PROVE  JobsDue(q)' = JobsDue(q) /\ ReservedFor(q)' = ReservedFor(q)
    <3>1. DueDatesOf(q)' = DueDatesOf(q)
      BY <1>1, <2>1 DEF DueDatesOf
    <3> QED
      BY <1>1, <2>1, <3>1 DEF JobsDue, ReservedFor, Del
  <2> QED
    BY <1>0, <1>1, <1>2, <2>1, RunnerLeft DEF Dues
<1> QED
  BY <1>3 DEF Dues

-----------------------------------------------------------------------------
(* A step of a runner moves its jobs from one hand to the other. *)
LEMMA RunnerStepMatched ==
  ASSUME TypeOK, Dues, NEW r \in Runners, RunnerStep(r)
  PROVE  Dues'
<1>0. Serving
  BY DEF RunnerStep, Goes
<1>1. UNCHANGED <<due_dates, scheduled_jobs, faulty_runners>>
  BY RunnerStepLeavesServer DEF server
<1>2. \A q \in Runners : JobsDue(q)' = JobsDue(q) /\ ReservedFor(q)' = ReservedFor(q)
  BY <1>1 DEF JobsDue, DueDatesOf, ReservedFor
<1>3. ASSUME \A q \in Runners \ {r} : /\ posted'[q] = posted[q] /\ app'[q] = app[q]
                                      /\ jobs'[q] = jobs[q] /\ gp'[q] = gp[q],
             InOnePlace(r)', InHand(r)' = InHand(r)
      PROVE  Dues'
  <2>1. ASSUME NEW q \in Runners \ {r} PROVE Matched(q)'
    BY <1>0, <1>1, <1>2, <1>3, RunnerLeft DEF Dues
  <2>2. Matched(r)'
    BY <1>1, <1>2, <1>3 DEF Dues, Matched, Agrees
  <2> QED
    BY <2>1, <2>2 DEF Dues
<1>4. InOnePlace(r)
  BY <1>0 DEF Dues, Matched
<1>5. /\ gp \in [Runners -> GpMessage] /\ jobs \in [Runners -> JobMessage]
      /\ app \in [Runners -> [job : State, parent : State \cup {None}]]
      /\ posted \in [Runners -> SUBSET State]
  BY DEF TypeOK, RunnerTypeOK
<1>6. CASE StartRunner(r) \/ RunnerDies(r) \/ StartFetch(r) \/ FinishFetch(r)
  <2>1. UNCHANGED <<gp, jobs, app, posted>>
    BY <1>6 DEF StartRunner, RunnerDies, StartFetch, FinishFetch, channels
  <2> QED
    BY <1>3, <1>4, <2>1 DEF InOnePlace, InHand
<1>7. CASE Load(r)
  <2>1. UNCHANGED <<gp, jobs, posted>> /\ app' = [app EXCEPT ![r].parent = None]
    BY <1>7 DEF Load, channels
  <2>2. app'[r].job = app[r].job /\ \A q \in Runners \ {r} : app'[q] = app[q]
    BY <1>5, <2>1
  <2>3. InOnePlace(r)' /\ InHand(r)' = InHand(r)
    BY <1>4, <2>1, <2>2 DEF InOnePlace, InHand
  <2> QED
    BY <1>3, <2>1, <2>2, <2>3
<1>8. CASE Expose(r)
  <2>1. /\ jobs[r] = Idle /\ UNCHANGED <<gp, app>>
        /\ posted' = [posted EXCEPT ![r] = @ \cup {app[r].job}]
        /\ jobs' = [jobs EXCEPT ![r] = JobRequest]
    BY <1>8 DEF Expose
  <2>2. /\ posted'[r] = posted[r] \cup {app[r].job}
        /\ jobs'[r] # Idle /\ jobs'[r].type # "job" /\ jobs[r].type # "job"
        /\ \A q \in Runners \ {r} : posted'[q] = posted[q] /\ jobs'[q] = jobs[q]
    BY <1>5, <2>1 DEF JobRequest, Idle
  <2>3. InOnePlace(r)' /\ InHand(r)' = InHand(r)
    BY <1>4, <2>1, <2>2 DEF InOnePlace, InHand
  <2> QED
    BY <1>3, <2>1, <2>2, <2>3
<1>9. CASE ReadJob(r)
  <2>1. UNCHANGED <<gp, posted>>
    BY <1>9 DEF ReadJob
  <2>2. CASE jobs[r].type = "none" /\ jobs' = [jobs EXCEPT ![r] = JobRequest] /\ UNCHANGED app
    <3>1. /\ jobs[r] # Idle /\ jobs[r].type # "job"
          /\ jobs'[r] # Idle /\ jobs'[r].type # "job"
          /\ \A q \in Runners \ {r} : jobs'[q] = jobs[q]
      BY <1>5, <2>2 DEF JobRequest, Idle
    <3>2. InOnePlace(r)' /\ InHand(r)' = InHand(r)
      BY <1>4, <2>1, <2>2, <3>1 DEF InOnePlace, InHand
    <3> QED
      BY <1>3, <2>1, <2>2, <3>1, <3>2
  <2>3. CASE \E p : /\ jobs[r].type = "job"
                    /\ jobs' = [jobs EXCEPT ![r] = Idle]
                    /\ app' = [app EXCEPT ![r] = Order(jobs[r].job, p)]
    <3>1. /\ jobs[r].type = "job" /\ jobs[r] # Idle
          /\ jobs'[r] = Idle /\ jobs'[r].type # "job"
          /\ app'[r].job = jobs[r].job
          /\ \A q \in Runners \ {r} : jobs'[q] = jobs[q] /\ app'[q] = app[q]
      BY <1>5, <2>3 DEF Idle, Order
    <3>2. InOnePlace(r)' /\ InHand(r)' = InHand(r)
      BY <1>4, <2>1, <3>1 DEF InOnePlace, InHand
    <3> QED
      BY <1>3, <2>1, <3>1, <3>2
  <2> QED
    BY <1>9, <2>2, <2>3 DEF ReadJob
<1>10. CASE PushWeight(r)
  <2>1. PICK s \in posted[r] : /\ gp[r] = Idle /\ UNCHANGED <<jobs, app>>
                               /\ posted' = [posted EXCEPT ![r] = @ \ {s}]
                               /\ gp' = [gp EXCEPT ![r] = WeightMsg(s)]
    BY <1>10 DEF PushWeight, HeadReady
  <2>2. /\ posted'[r] = posted[r] \ {s} /\ gp'[r] = WeightMsg(s)
        /\ gp'[r].type = "weight" /\ gp'[r].state = s /\ gp[r].type # "weight"
        /\ \A q \in Runners \ {r} : posted'[q] = posted[q] /\ gp'[q] = gp[q]
    BY <1>5, <2>1 DEF WeightMsg, Idle
  <2>3. InOnePlace(r)' /\ InHand(r)' = InHand(r)
    BY <1>4, <2>1, <2>2 DEF InOnePlace, InHand
  <2> QED
    BY <1>3, <2>1, <2>2, <2>3
<1>11. CASE AskDelete(r) \/ AskPrefetch(r) \/ ReadReply(r)
  <2>1. UNCHANGED <<jobs, app, posted>> /\ gp[r].type # "weight"
    BY <1>11 DEF AskDelete, AskPrefetch, ReadReply, HeadReady, Idle, runner
  <2>2. \/ gp' = [gp EXCEPT ![r] = DeleteMsg(held[r])]
        \/ gp' = [gp EXCEPT ![r] = PrefetchMsg(held[r])]
        \/ gp' = [gp EXCEPT ![r] = Idle]
    BY <1>11 DEF AskDelete, AskPrefetch, ReadReply
  <2>3. gp'[r].type # "weight" /\ \A q \in Runners \ {r} : gp'[q] = gp[q]
    BY <1>5, <2>2 DEF DeleteMsg, PrefetchMsg, Idle
  <2>4. InOnePlace(r)' /\ InHand(r)' = InHand(r)
    BY <1>4, <2>1, <2>3 DEF InOnePlace, InHand
  <2> QED
    BY <1>3, <2>1, <2>3, <2>4
<1> QED
  BY <1>6, <1>7, <1>8, <1>9, <1>10, <1>11 DEF RunnerStep, AppStep, HeadStep

(* At the start no runner has a job. *)
LEMMA Unoccupied ==
  ASSUME NEW r \in Runners, jobs = Silent, gp = Silent, app = BaseJobs, posted = Nothing,
         due_dates = {}, scheduled_jobs = << >>
  PROVE  Matched(r)
<1>1. /\ jobs[r] = Idle /\ gp[r] = Idle /\ posted[r] = {} /\ app[r].job = BaseState(r)
      /\ Idle.type = "idle" /\ BaseState(r).t = 0
  BY DEF Silent, Nothing, BaseJobs, Order, Idle, BaseState
<1>2. InOnePlace(r)
  BY <1>1 DEF InOnePlace
<1>3. InHand(r) = {BaseState(r)} /\ ReservedFor(r) = {} /\ JobsDue(r) = {}
  BY <1>1 DEF InHand, ReservedFor, JobsDue, DueDatesOf
<1> QED
  BY <1>1, <1>2, <1>3 DEF Matched, Agrees

(* At the start nobody works. *)
LEMMA InitMatched == Init => Dues
BY Unoccupied DEF Init, Dues

(* All that is known of server and runners. *)
Everything == Invariants /\ NoneOutAtEnd /\ Dues

(* The whole invariant holds at the start. *)
LEMMA InitEverything == Init => Everything
<1> SUFFICES ASSUME Init PROVE NoneOutAtEnd
  BY InitTyped, InitBalances, InitCourse, InitMatched DEF Invariants, Everything
<1> QED
  BY DEF Init, NoneOutAtEnd

(* The end is reached by an update, which leaves nothing out. *)
LEMMA NoneOutAtEndKept ==
  ASSUME Everything, TypeOK', Ledger', Course', [Next]_vars
  PROVE  NoneOutAtEnd'
<1>1. CASE UNCHANGED <<due_dates, scheduled_jobs>> /\ (Over' => Over)
  BY <1>1 DEF Everything, NoneOutAtEnd
<1>2. CASE ~ Over'
  BY <1>2 DEF NoneOutAtEnd
<1>3. ASSUME status' = "up" PROVE NoneOutAtEnd'
  BY <1>3 DEF NoneOutAtEnd, Over
<1>4. ASSUME Serving, UNCHANGED status PROVE NoneOutAtEnd'
  BY <1>3, <1>4 DEF Serving
<1>5. ASSUME NEW r \in Runners, accept_weight(r) PROVE NoneOutAtEnd'
  <2>1. CASE \E W : do_update_step(W)
    BY <2>1, NoneOutAtUpdate DEF NoneOutAtEnd, Everything, Invariants
  <2>2. CASE UNCHANGED status
    BY <1>4, <1>5, <2>2 DEF accept_weight, Heard
  <2> QED
    BY <1>5, <2>1, <2>2 DEF accept_weight, maybe_update
<1>6. ASSUME NEW r \in Runners, raises(r) PROVE NoneOutAtEnd'
  <2>1. Over' = Over
    BY <1>6, RaisesKept DEF WorkKept, Everything
  <2>2. ~ Over
    BY <1>6 DEF raises, Heard, Serving, Over
  <2> QED
    BY <1>2, <2>1, <2>2
<1>7. CASE stop
  BY <1>1, <1>7 DEF stop, Over
<1>8. CASE restart
  <2>1. CASE \E n, a : StartsWith(n, a)
    BY <1>3, <2>1 DEF StartsWith
  <2>2. CASE Fault("no_checkpoint")
    <3>1. Over
      BY <1>8, <2>1, <2>2, LastCycleIs DEF restart, StartsWith, Fault, Everything
    <3> QED
      BY <1>1, <2>2, <3>1 DEF Fault
  <2> QED
    BY <1>8, <2>1, <2>2 DEF restart
<1>9. ASSUME NEW r \in Runners, RunnerStep(r) PROVE NoneOutAtEnd'
  BY <1>4, <1>9, RunnerStepLeavesServer DEF RunnerStep, Goes, server
<1>10. CASE check_violations
  BY <1>4, <1>10 DEF check_violations
<1>11. ASSUME NEW r \in Runners,
              \/ accept_delete(r) \/ accept_prefetch(r)
              \/ handle_job_requests(r) \/ ignore_faulty(r)
       PROVE  NoneOutAtEnd'
  BY <1>4, <1>11 DEF accept_delete, accept_prefetch, handle_job_requests,
     give_scheduled_job, give_new_job, give_no_job, GiveJob, AsksForJob, ignore_faulty,
     Heard, server
<1>12. CASE UNCHANGED vars
  BY <1>1, <1>12 DEF vars, server, Over
<1> QED
  BY <1>5, <1>6, <1>7, <1>8, <1>9, <1>10, <1>11, <1>12
     DEF Next, ServerStep, handle_general_purpose

(* A restart takes all jobs away from all runners. *)
LEMMA RestartMatched ==
  ASSUME Everything, restart
  PROVE  Dues'
<1> SUFFICES ASSUME NEW r \in Runners PROVE Matched(r)'
  BY DEF Dues
<1>1. /\ posted'[r] = {} /\ app'[r].job = BaseState(r) /\ BaseState(r).t = 0
      /\ Idle.type = "idle"
  BY DEF restart, Nothing, BaseJobs, Order, BaseState, Idle
<1>2. CASE \E n, a : StartsWith(n, a)
  <2>1. /\ jobs'[r] = Idle /\ gp'[r] = Idle /\ due_dates' = {} /\ scheduled_jobs' = << >>
    BY <1>2 DEF StartsWith, Silent
  <2>2. InOnePlace(r)'
    BY <1>1, <2>1 DEF InOnePlace
  <2>3. InHand(r)' = {BaseState(r)} /\ ReservedFor(r)' = {} /\ JobsDue(r)' = {}
    BY <1>1, <2>1 DEF InHand, ReservedFor, JobsDue, DueDatesOf
  <2> QED
    BY <1>1, <2>2, <2>3 DEF Matched, Agrees
<1>3. CASE Fault("no_checkpoint") /\ ~ \E n, a : StartsWith(n, a)
  <2>1. Over
    BY <1>3, LastCycleIs DEF restart, Everything
  <2>2. due_dates = {} /\ DOMAIN scheduled_jobs = {}
    BY <2>1 DEF Everything, NoneOutAtEnd
  <2>3. /\ UNCHANGED <<due_dates, scheduled_jobs, faulty_runners, jobs, gp>>
        /\ ~ Serving'
    BY <1>3 DEF Fault, channels, Serving
  <2>4. /\ JobsDue(r) = {} /\ JobsDue(r)' = {}
        /\ ReservedFor(r) = {} /\ ReservedFor(r)' = {}
    BY <2>2, <2>3 DEF JobsDue, DueDatesOf, ReservedFor
  <2>5. InHand(r)' \subseteq InHand(r) \cup {BaseState(r)}
    BY <1>1, <2>3 DEF InHand
  <2>6. Agrees(r)
    BY DEF Everything, Dues, Matched
  <2>7. Agrees(r)'
    BY <1>1, <2>3, <2>4, <2>5, <2>6 DEF Agrees
  <2> QED
    BY <2>3, <2>7 DEF Matched
<1> QED
  BY <1>2, <1>3 DEF restart

(* Every step keeps all of it. *)
LEMMA NextEverything == Everything /\ [Next]_vars => Everything'
<1> SUFFICES ASSUME Everything, [Next]_vars PROVE Dues'
  BY NextTyped, NextBalances, NextMaps, NoneOutAtEndKept DEF Everything, Invariants
<1>0. TypeOK /\ Ledger /\ Dues
  BY DEF Everything, Invariants
<1>1. ASSUME NEW r \in Runners, raises(r), UNCHANGED <<restarts, runner>> PROVE Dues'
  <2>1. /\ UNCHANGED <<due_dates, scheduled_jobs, faulty_runners, posted, app, gp, jobs>>
        /\ Serving
    BY <1>1 DEF raises, Fault, runner, channels, Heard
  <2> QED
    BY <1>0, <2>1, OtherMessages
<1>2. CASE ServerStep
  <2>0. UNCHANGED <<restarts, runner>>
    BY <1>2 DEF ServerStep
  <2>1. CASE check_violations
    BY <1>0, <2>0, <2>1, CheckViolationsMatched
  <2>2. CASE stop
    <3>1. /\ UNCHANGED <<due_dates, scheduled_jobs, faulty_runners, posted, app, gp, jobs>>
          /\ ~ Serving'
      BY <2>0, <2>2 DEF stop, runner, channels, Serving
    <3> QED
      BY <1>0, <3>1, OtherMessages
  <2>3. ASSUME NEW r \in Runners,
               handle_general_purpose(r) \/ handle_job_requests(r)
                 \/ ignore_faulty(r) \/ raises(r)
        PROVE  Dues'
    BY <1>0, <1>1, <2>0, <2>3, AcceptWeightMatched, AcceptDeleteMatched,
       AcceptPrefetchMatched, HandleJobRequestsMatched, IgnoreFaultyMatched
       DEF handle_general_purpose
  <2> QED
    BY <1>2, <2>1, <2>2, <2>3 DEF ServerStep
<1>3. ASSUME NEW r \in Runners, RunnerStep(r) PROVE Dues'
  BY <1>0, <1>3, RunnerStepMatched
<1>4. CASE restart
  BY <1>4, RestartMatched
<1>5. CASE UNCHANGED vars
  <2>1. /\ UNCHANGED <<due_dates, scheduled_jobs, faulty_runners, posted, app, gp, jobs>>
        /\ Serving' = Serving
    BY <1>5 DEF vars, server, channels, runner, Serving
  <2> QED
    BY <1>0, <2>1, OtherMessages
<1> QED
  BY <1>2, <1>3, <1>4, <1>5 DEF Next

(* The whole invariant holds always. *)
LEMMA EverythingHolds == Spec => []Everything
BY InitEverything, NextEverything, PTL DEF Spec

(***************************************************************************)
(* The due dates of a runner that is not declared faulty are the jobs that *)
(* it has received and not reported, those in its channels included, and   *)
(* the one reserved for it.                                                *)
(***************************************************************************)
THEOREM DueDatesAreHandedOut == Spec => []DueDatesMatchRunners
<1>1. Everything => DueDatesMatchRunners
  BY DuesMatch DEF Everything
<1> QED
  BY <1>1, EverythingHolds, PTL

(* DueDates.remove has not aborted the server. *)
NoneMissing == status # "due_missing"

(***************************************************************************)
(* The assertion of DueDates.remove holds: a weight that is accepted, and  *)
(* a reserved job that is handed out, has a due date.                      *)
(***************************************************************************)
THEOREM NoDueDateMissing == Spec => []NoneMissing
<1>1. Init => NoneMissing
  BY DEF Init, NoneMissing
<1>2. Everything /\ NoneMissing /\ [Next]_vars => NoneMissing'
  <2> SUFFICES ASSUME Everything, status # "due_missing", [Next]_vars
               PROVE  status' # "due_missing"
    BY DEF NoneMissing
  <2>1. ASSUME NEW r \in Runners, raises(r) PROVE status' # "due_missing"
    <3>1. PICK e \in Raised(r) : Fault(e)
      BY <2>1 DEF raises
    <3>2. r \notin faulty_runners /\ Matched(r)
      BY <2>1 DEF raises, Heard, Everything, Dues
    <3>3. gp[r].type = "weight" => e \notin accept_weight_raises(r)
      <4> SUFFICES ASSUME gp[r].type = "weight", gp[r].state.t # 0
                   PROVE  \E d \in DueDatesOf(r) : d.job = gp[r].state
        BY DEF accept_weight_raises
      <4>1. gp[r].state \in InHand(r) /\ gp[r].state.t > 0
        <5>1. gp[r].state \in State
          BY GpContents DEF Everything, Invariants, TypeOK, RunnerTypeOK
        <5> QED
          BY <5>1 DEF InHand, State
      <4> QED
        BY <3>2, <4>1 DEF Matched, Agrees, JobsDue
    <3>4. r \in DOMAIN scheduled_jobs => e \notin handle_job_requests_raises(r)
      <4> SUFFICES ASSUME r \in DOMAIN scheduled_jobs
                   PROVE  \E d \in DueDatesOf(r) : d.job = scheduled_jobs[r].job
        BY DEF handle_job_requests_raises
      <4>1. Due(r, scheduled_jobs[r].job, scheduled_jobs[r].parent) \in due_dates
        BY DEF Everything, Invariants, Ledger, ScheduledIsDue
      <4> QED
        BY <4>1 DEF DueDatesOf, Due
    <3>5. e # "due_missing"
      BY <3>1, <3>3, <3>4 DEF Raised, accept_delete_raises, accept_prefetch_raises,
         handle_job_requests_raises
    <3> QED
      BY <3>1, <3>5 DEF Fault
  <2>2. ASSUME NEW r \in Runners, accept_weight(r) PROVE status' # "due_missing"
    BY <2>2 DEF accept_weight, maybe_update, do_update_step
  <2>3. CASE stop
    BY <2>3 DEF stop
  <2>4. CASE restart
    BY <2>4 DEF restart, StartsWith, Fault
  <2>5. CASE ServerStep
    BY <2>1, <2>2, <2>3, <2>5 DEF ServerStep, handle_general_purpose,
       handle_job_requests, accept_delete, accept_prefetch, give_scheduled_job,
       give_new_job, give_no_job, GiveJob, ignore_faulty, check_violations, server
  <2>6. ASSUME NEW r \in Runners, RunnerStep(r) PROVE status' # "due_missing"
    BY <2>6, RunnerStepLeavesServer DEF server
  <2> QED
    BY <2>4, <2>5, <2>6 DEF Next, vars, server
<1> QED
  BY <1>1, <1>2, EverythingHolds, PTL DEF Spec

-----------------------------------------------------------------------------
(***************************************************************************)
(* What the server believes of the caches of the runners.                  *)
(***************************************************************************)

(* A state that is acknowledged counts as cached as soon as the head rank  *)
(* reads the answer.                                                       *)
Acked(r) == IF gp[r].type = "ack" THEN {gp[r].state} ELSE {}

(* A request names what is cached when it is answered; a state that is to  *)
(* be deleted is cached, but no longer in the server's books.              *)
KnownCached(r) ==
  /\ CachedBy(r) \subseteq held[r] \cup Acked(r)
  /\ gp[r].type \in {"delete", "prefetch"} => gp[r].cached = held[r]
  /\ gp[r].type = "deleted" => gp[r].state \notin CachedBy(r)

(* State p is in the cache of r, or on its way there. *)
Coming(r, p) ==
  \/ p \in held[r] \cup pulls[r]
  \/ gp[r].type = "pull" /\ p \in gp[r].states
  \/ head[r] = Fetching(p)

(* The parent of a reserved job stays. *)
ReservedComes(r) ==
  /\ gp[r].type \in {"prefetch", "pull"} => head[r] = AfterWeight
  /\ r \in DOMAIN scheduled_jobs =>
       /\ Coming(r, scheduled_jobs[r].parent)
       /\ gp[r].type = "deleted" => gp[r].state # scheduled_jobs[r].parent

(* The first weight of a runner is that of its base state; before, the     *)
(* server knows nothing of its cache.                                      *)
Unreported(r) ==
  /\ r \notin DOMAIN cr
  /\ \/ /\ app[r] = Order(BaseState(r), None) /\ posted[r] = {} /\ jobs[r] = Idle
        /\ head[r] # AfterWeight /\ gp[r].type \in {"idle", "delete"}
     \/ /\ BaseState(r) \in posted[r]
        /\ head[r] # AfterWeight /\ gp[r].type \in {"idle", "delete"}
     \/ gp[r] = WeightMsg(BaseState(r))

(* The base state is there or was not reported. *)
BaseKept(r) ==
  /\ \A s \in posted[r] \cup {app[r].job} : s.t = 0 => s = BaseState(r)
  /\ gp[r].type = "deleted" => gp[r].state.t # 0
  /\ BaseState(r) \in held[r] \cup Acked(r) \/ Unreported(r)

(* All of this, of one runner that is not faulty. *)
Cached(r) ==
  r \notin faulty_runners =>
    /\ KnownCached(r) /\ ReservedComes(r)
    /\ assimilation_cycle = 1 => BaseKept(r)

(* A restart that finds no checkpoint leaves the books of the server that  *)
(* was there before.                                                       *)
Caches == CheckpointExists => \A r \in Runners : Cached(r)

(* A runner whose cache and messages a step leaves alone. *)
LEMMA CacheLeft ==
  ASSUME NEW r \in Runners, Cached(r),
         gp'[r] = gp[r], app'[r] = app[r], posted'[r] = posted[r], head'[r] = head[r],
         held'[r] = held[r], pulls'[r] = pulls[r], jobs'[r] = jobs[r] \/ jobs[r] # Idle,
         CachedBy(r)' = CachedBy(r), r \notin DOMAIN cr => r \notin DOMAIN cr',
         r \in DOMAIN scheduled_jobs' => r \in DOMAIN scheduled_jobs /\ scheduled_jobs'[r] = scheduled_jobs[r],
         r \in faulty_runners => r \in faulty_runners',
         assimilation_cycle' = 1 => assimilation_cycle = 1
  PROVE  Cached(r)'
<1> SUFFICES ASSUME r \notin faulty_runners'
             PROVE  /\ KnownCached(r)' /\ ReservedComes(r)'
                    /\ (assimilation_cycle = 1)' => BaseKept(r)'
  BY DEF Cached
<1>1. KnownCached(r) /\ ReservedComes(r) /\ (assimilation_cycle = 1 => BaseKept(r))
  BY DEF Cached
<1>2. Acked(r)' = Acked(r)
  BY DEF Acked
<1>3. KnownCached(r)'
  BY <1>1, <1>2 DEF KnownCached
<1>4. ReservedComes(r)'
  BY <1>1 DEF ReservedComes, Coming
<1>5. ASSUME assimilation_cycle' = 1 PROVE BaseKept(r)'
  <2>1. Unreported(r) => Unreported(r)'
    BY DEF Unreported
  <2> QED
    BY <1>1, <1>2, <1>5, <2>1 DEF BaseKept
<1> QED
  BY <1>3, <1>4, <1>5

(* A weight that was acknowledged. *)
LEMMA AcceptWeightCached ==
  ASSUME TypeOK, NEW r \in Runners, Cached(r), accept_weight(r), UNCHANGED <<restarts, runner>>
  PROVE  \A q \in Runners : Cached(q) => Cached(q)'
<1>0. /\ ServerTypeOK /\ RunnerTypeOK
      /\ UNCHANGED <<scheduled_jobs, faulty_runners, jobs, app, posted, head, held, pulls>>
      /\ gp[r].type = "weight" /\ r \notin faulty_runners
  BY DEF TypeOK, accept_weight, runner, Heard
<1>1. PICK s : /\ s = gp[r].state /\ gp' = [gp EXCEPT ![r] = Ack(s)]
               /\ cr' = Put(cr, r, CachedBy(r) \cup {s})
  BY DEF accept_weight, CachedBy
<1>2. assimilation_cycle' = 1 => assimilation_cycle = 1
  BY <1>0 DEF accept_weight, maybe_update, do_update_step, ServerTypeOK
<1>3. gp'[r] = Ack(s) /\ \A q \in Runners : q # r => gp'[q] = gp[q]
  BY <1>0, <1>1 DEF RunnerTypeOK
<1>4. /\ CachedBy(r)' = CachedBy(r) \cup {s}
      /\ \A q \in Runners : q # r => CachedBy(q)' = CachedBy(q) /\ (q \notin DOMAIN cr => q \notin DOMAIN cr')
  BY <1>1 DEF CachedBy, Put
<1>5. ASSUME NEW q \in Runners, q # r, Cached(q) PROVE Cached(q)'
  BY <1>0, <1>2, <1>3, <1>4, <1>5, CacheLeft
<1>6. Cached(r)'
  <2>1. KnownCached(r) /\ ReservedComes(r) /\ (assimilation_cycle = 1 => BaseKept(r))
    BY <1>0 DEF Cached
  <2>2. gp'[r].type = "ack" /\ gp'[r].state = s
    BY <1>3 DEF Ack
  <2>3. KnownCached(r)'
    BY <1>0, <1>4, <2>1, <2>2 DEF KnownCached, Acked
  <2>4. ReservedComes(r)'
    BY <1>0, <2>1, <2>2 DEF ReservedComes, Coming
  <2>5. ASSUME assimilation_cycle = 1 PROVE BaseKept(r)'
    <3>1. BaseState(r) \in held[r] \/ gp[r] = WeightMsg(BaseState(r))
      BY <1>0, <2>1, <2>5 DEF BaseKept, Unreported, Acked
    <3>2. BaseState(r) \in held[r] \/ s = BaseState(r)
      BY <1>1, <3>1 DEF WeightMsg
    <3> QED
      BY <1>0, <2>1, <2>2, <2>5, <3>2 DEF BaseKept, Acked
  <2> QED
    BY <1>2, <2>3, <2>4, <2>5 DEF Cached
<1> QED
  BY <1>5, <1>6

(* A state to delete that no job needs. *)
LEMMA AcceptDeleteCached ==
  ASSUME TypeOK, NEW r \in Runners, Cached(r), accept_delete(r), UNCHANGED <<restarts, runner>>
  PROVE  \A q \in Runners : Cached(q) => Cached(q)'
<1>0. /\ ServerTypeOK /\ RunnerTypeOK
      /\ UNCHANGED <<scheduled_jobs, faulty_runners, jobs, app, posted, head, held, pulls,
                     assimilation_cycle>>
      /\ gp[r].type = "delete" /\ r \notin faulty_runners /\ r \in DOMAIN cr
  BY DEF TypeOK, accept_delete, runner, Heard
<1>1. PICK s : /\ s \in gp[r].cached \ Blacklist(r, gp[r].cached)
               /\ gp' = [gp EXCEPT ![r] = DeleteReply(s)]
               /\ cr' = CacheAfterDelete(r, gp[r].cached, s)
  BY DEF accept_delete, DeleteChoices, First
<1>2. KnownCached(r) /\ ReservedComes(r) /\ (assimilation_cycle = 1 => BaseKept(r))
  BY <1>0 DEF Cached
<1>3. gp'[r] = DeleteReply(s) /\ \A q \in Runners : q # r => gp'[q] = gp[q]
  BY <1>0, <1>1 DEF RunnerTypeOK
<1>4. gp'[r].type = "deleted" /\ gp'[r].state = s
  BY <1>3 DEF DeleteReply
<1>5. gp[r].cached = held[r]
  BY <1>0, <1>2 DEF KnownCached
<1>6. /\ CachedBy(r)' = held[r] \ {s}
      /\ \A q \in Runners : q # r => CachedBy(q)' = CachedBy(q) /\ (q \notin DOMAIN cr => q \notin DOMAIN cr')
  BY <1>1, <1>5 DEF CachedBy, CacheAfterDelete, Put, Del
<1>7. /\ r \in DOMAIN scheduled_jobs => s # scheduled_jobs[r].parent
      /\ assimilation_cycle = 1 => s.t # 0
  BY <1>1 DEF Blacklist
<1>8. ASSUME NEW q \in Runners, q # r, Cached(q) PROVE Cached(q)'
  BY <1>0, <1>3, <1>6, <1>8, CacheLeft
<1>9. Cached(r)'
  <2>1. KnownCached(r)'
    BY <1>4, <1>6, <1>0 DEF KnownCached
  <2>2. ReservedComes(r)'
    BY <1>0, <1>2, <1>4, <1>7 DEF ReservedComes, Coming
  <2>3. ASSUME assimilation_cycle = 1 PROVE BaseKept(r)'
    BY <1>0, <1>2, <1>4, <1>7, <2>3 DEF BaseKept, Unreported, Acked
  <2> QED
    BY <1>0, <2>1, <2>2, <2>3 DEF Cached
<1> QED
  BY <1>8, <1>9

(* A prefetch that reserves a job tells of its parent. *)
LEMMA AcceptPrefetchCached ==
  ASSUME TypeOK, Ledger, NEW r \in Runners, Cached(r), accept_prefetch(r), UNCHANGED <<restarts, runner>>
  PROVE  \A q \in Runners : Cached(q) => Cached(q)'
<1>0. /\ ServerTypeOK /\ RunnerTypeOK
      /\ UNCHANGED <<faulty_runners, jobs, app, posted, head, held, pulls, assimilation_cycle>>
      /\ gp[r].type = "prefetch" /\ r \notin faulty_runners /\ r \in DOMAIN cr
      /\ cr' = Put(cr, r, gp[r].cached)
  BY DEF TypeOK, accept_prefetch, runner, Heard
<1>1. KnownCached(r) /\ ReservedComes(r) /\ (assimilation_cycle = 1 => BaseKept(r))
  BY <1>0 DEF Cached
<1>2. PICK S : /\ gp' = [gp EXCEPT ![r] = PullReply(S)]
               /\ S = IF assimilation_cycle > 1 /\ r \in DOMAIN scheduled_jobs'
                      THEN {scheduled_jobs'[r].parent} \ gp[r].cached ELSE {}
  BY DEF accept_prefetch
<1>3. /\ r \in DOMAIN scheduled_jobs' => assimilation_cycle > 1
      /\ \A q \in Runners : q # r /\ q \in DOMAIN scheduled_jobs' =>
           q \in DOMAIN scheduled_jobs /\ scheduled_jobs'[q] = scheduled_jobs[q]
  <2>1. CASE scheduled_jobs' = scheduled_jobs
    BY <1>0, <2>1 DEF Ledger, JobsAreBacked, ServerTypeOK
  <2>2. CASE Prefetches(r) /\ \E x : scheduled_jobs' = Put(scheduled_jobs, r, x)
    BY <2>2 DEF Prefetches, Put
  <2> QED
    BY <2>1, <2>2 DEF accept_prefetch
<1>4. gp'[r] = PullReply(S) /\ \A q \in Runners : q # r => gp'[q] = gp[q]
  BY <1>0, <1>2 DEF RunnerTypeOK
<1>5. gp'[r].type = "pull" /\ gp'[r].states = S
  BY <1>4 DEF PullReply
<1>6. gp[r].cached = held[r]
  BY <1>0, <1>1 DEF KnownCached
<1>7. /\ CachedBy(r)' = held[r]
      /\ \A q \in Runners : q # r => CachedBy(q)' = CachedBy(q) /\ (q \notin DOMAIN cr => q \notin DOMAIN cr')
  BY <1>0, <1>6 DEF CachedBy, Put
<1>8. ASSUME NEW q \in Runners, q # r, Cached(q) PROVE Cached(q)'
  BY <1>0, <1>3, <1>4, <1>7, <1>8, CacheLeft
<1>9. Cached(r)'
  <2>1. KnownCached(r)'
    BY <1>0, <1>5, <1>7 DEF KnownCached
  <2>2. ReservedComes(r)'
    BY <1>0, <1>1, <1>2, <1>3, <1>5, <1>6 DEF ReservedComes, Coming
  <2>3. ASSUME assimilation_cycle = 1 PROVE BaseKept(r)'
    BY <1>0, <1>1, <1>5, <2>3 DEF BaseKept, Unreported, Acked
  <2> QED
    BY <1>0, <2>1, <2>2, <2>3 DEF Cached
<1> QED
  BY <1>8, <1>9

(* Steps of the server that tell the head ranks nothing new. *)
LEMMA OtherServerStepsCached ==
  ASSUME TypeOK, NEW r \in Runners,
         handle_job_requests(r) \/ ignore_faulty(r) \/ raises(r) \/ check_violations \/ stop,
         UNCHANGED <<restarts, runner>>
  PROVE  \A q \in Runners : Cached(q) => Cached(q)'
<1>0. /\ ServerTypeOK /\ RunnerTypeOK
      /\ UNCHANGED <<app, posted, head, held, pulls, assimilation_cycle, cr>>
  BY DEF TypeOK, runner, server, handle_job_requests, give_scheduled_job, give_new_job, give_no_job, GiveJob,
         ignore_faulty, raises, Fault, check_violations, stop
<1>1. \A q : CachedBy(q)' = CachedBy(q)
  BY <1>0 DEF CachedBy
<1>2. \A q \in Runners : q \in faulty_runners => q \in faulty_runners'
  BY DEF server, handle_job_requests, give_scheduled_job, give_new_job, give_no_job, GiveJob,
         ignore_faulty, raises, Fault, check_violations, stop
<1>3. \A q \in Runners : q \in DOMAIN scheduled_jobs' =>
        q \in DOMAIN scheduled_jobs /\ scheduled_jobs'[q] = scheduled_jobs[q]
  BY DEF server, handle_job_requests, give_scheduled_job, give_new_job, give_no_job, GiveJob,
         ignore_faulty, raises, Fault, check_violations, stop, ScheduledAfterTimeout, Del
<1>4. \A q \in Runners : jobs'[q] = jobs[q] \/ jobs[q] # Idle
  <2>1. \A x : jobs[r].type = "request" /\ jobs' = [jobs EXCEPT ![r] = x] =>
          \A q \in Runners : jobs'[q] = jobs[q] \/ jobs[q] # Idle
    BY <1>0 DEF RunnerTypeOK, Idle
  <2> QED
    BY <2>1 DEF handle_job_requests, give_scheduled_job, give_new_job, give_no_job, GiveJob, AsksForJob,
         ignore_faulty, raises, Fault, check_violations, stop, channels
<1>5. \A q \in Runners : gp'[q] = gp[q] \/ q \in faulty_runners
  <2>1. CASE ignore_faulty(r)
    BY <1>0, <2>1 DEF ignore_faulty, RunnerTypeOK
  <2>2. CASE ~ ignore_faulty(r)
    BY <2>2 DEF handle_job_requests, give_scheduled_job, give_new_job, give_no_job, GiveJob,
         raises, Fault, check_violations, stop, channels
  <2> QED
    BY <2>1, <2>2
<1>6. ASSUME NEW q \in Runners, Cached(q), gp'[q] = gp[q] PROVE Cached(q)'
  BY <1>0, <1>1, <1>2, <1>3, <1>4, <1>6, CacheLeft
<1>7. ASSUME NEW q \in Runners, q \in faulty_runners' PROVE Cached(q)'
  BY <1>7 DEF Cached
<1> QED
  BY <1>2, <1>5, <1>6, <1>7

(* What the application does. *)
LEMMA AppStepCached ==
  ASSUME TypeOK, NEW r \in Runners, r \notin faulty_runners, Cached(r), AppStep(r), UNCHANGED server
  PROVE  Cached(r)'
<1>0. /\ RunnerTypeOK
      /\ UNCHANGED <<gp, head, held, pulls, cr, scheduled_jobs, faulty_runners, assimilation_cycle>>
  BY DEF TypeOK, AppStep, Load, Expose, ReadJob, server, channels
<1>1. KnownCached(r) /\ ReservedComes(r) /\ (assimilation_cycle = 1 => BaseKept(r))
  BY DEF Cached
<1>2. KnownCached(r)' /\ ReservedComes(r)'
  BY <1>0, <1>1 DEF KnownCached, ReservedComes, Coming, Acked, CachedBy
<1>3. ASSUME assimilation_cycle = 1 PROVE BaseKept(r)'
  <2>1. BaseKept(r) /\ Acked(r)' = Acked(r)
    BY <1>0, <1>1, <1>3 DEF Acked
  <2>2. CASE Load(r)
    <3>1. posted' = posted /\ jobs' = jobs /\ app' = [app EXCEPT ![r].parent = None]
      BY <2>2 DEF Load, channels
    <3>2. app'[r].job = app[r].job /\ (app[r].parent = None => app'[r] = app[r])
      BY <1>0, <3>1 DEF RunnerTypeOK
    <3>3. Unreported(r) => Unreported(r)'
      BY <1>0, <3>1, <3>2 DEF Unreported, Order
    <3> QED
      BY <1>0, <2>1, <3>1, <3>2, <3>3 DEF BaseKept
  <2>3. CASE Expose(r)
    <3>1. app' = app /\ posted'[r] = posted[r] \cup {app[r].job}
      BY <1>0, <2>3 DEF Expose, RunnerTypeOK
    <3>2. Unreported(r) => Unreported(r)'
      BY <1>0, <3>1 DEF Unreported, Order
    <3> QED
      BY <1>0, <2>1, <3>1, <3>2 DEF BaseKept
  <2>4. CASE ReadJob(r)
    <3>1. posted' = posted /\ jobs[r] # Idle
      BY <2>4 DEF ReadJob, Idle
    <3>2. app'[r].job = app[r].job \/ app'[r].job \in Job
      <4>1. CASE jobs[r].type = "job"
        <5>1. jobs[r].job \in Job
          BY <1>0, <4>1, JobContents DEF RunnerTypeOK
        <5> QED
          BY <1>0, <2>4, <4>1, <5>1 DEF ReadJob, Order, RunnerTypeOK
      <4>2. CASE jobs[r].type = "none"
        BY <2>4, <4>2 DEF ReadJob
      <4> QED
        BY <2>4, <4>1, <4>2 DEF ReadJob
    <3>3. Unreported(r) => Unreported(r)'
      BY <1>0, <3>1 DEF Unreported
    <3> QED
      BY <1>0, <2>1, <3>1, <3>2, <3>3 DEF BaseKept, Job
  <2> QED
    BY <2>2, <2>3, <2>4 DEF AppStep
<1> QED
  BY <1>0, <1>2, <1>3 DEF Cached

(* What the head rank asks. *)
LEMMA AskingCached ==
  ASSUME TypeOK, NEW r \in Runners, r \notin faulty_runners, Cached(r), UNCHANGED server,
         PushWeight(r) \/ AskDelete(r) \/ AskPrefetch(r)
  PROVE  Cached(r)'
<1>0. /\ RunnerTypeOK
      /\ UNCHANGED <<jobs, app, held, pulls, cr, scheduled_jobs, faulty_runners, assimilation_cycle>>
      /\ gp[r] = Idle
  BY DEF TypeOK, PushWeight, AskDelete, AskPrefetch, HeadReady, server, runner
<1>1. KnownCached(r) /\ ReservedComes(r) /\ (assimilation_cycle = 1 => BaseKept(r))
  BY DEF Cached
<1>2. Acked(r) = {} /\ CachedBy(r)' = CachedBy(r) /\ gp[r].type = "idle"
  BY <1>0 DEF Acked, CachedBy, Idle
<1>3. CASE PushWeight(r)
  <2>1. PICK s \in posted[r] :
          /\ \A u \in posted[r] \ {s} : Before(s, u)
          /\ gp' = [gp EXCEPT ![r] = WeightMsg(s)]
    BY <1>3 DEF PushWeight
  <2>2. gp'[r] = WeightMsg(s) /\ gp'[r].type = "weight" /\ posted'[r] \subseteq posted[r]
        /\ head[r] = AtRest
    BY <1>0, <1>3, <2>1 DEF PushWeight, RunnerTypeOK, WeightMsg
  <2>3. KnownCached(r)'
    BY <1>0, <1>1, <1>2, <2>2 DEF KnownCached, Acked
  <2>4. ReservedComes(r)'
    BY <1>0, <1>1, <1>2, <2>2 DEF ReservedComes, Coming, AtRest, Fetching
  <2>5. ASSUME assimilation_cycle = 1 PROVE BaseKept(r)'
    <3>1. BaseState(r) \in posted[r] => s = BaseState(r)
      <4>1. SUFFICES ASSUME BaseState(r) \in posted[r], s # BaseState(r) PROVE FALSE
        OBVIOUS
      <4>2. s.t # 0 /\ s.t \in Nat
        BY <1>0, <1>1, <2>5, <4>1 DEF BaseKept, RunnerTypeOK, State
      <4>3. Before(s, BaseState(r))
        BY <2>1, <4>1
      <4> QED
        BY <4>2, <4>3 DEF Before, BaseState
    <3>2. BaseState(r) \in held[r] \/ (BaseState(r) \in posted[r] /\ r \notin DOMAIN cr)
      <4>1. gp[r] # WeightMsg(BaseState(r)) /\ posted[r] # {}
        BY <1>2, <2>1 DEF WeightMsg
      <4>2. BaseState(r) \in held[r] \/ Unreported(r)
        BY <1>1, <1>2, <2>5 DEF BaseKept
      <4> QED
        BY <4>1, <4>2 DEF Unreported
    <3> QED
      BY <1>0, <1>1, <2>2, <2>5, <3>1, <3>2 DEF BaseKept, Unreported
  <2> QED
    BY <1>0, <2>3, <2>4, <2>5 DEF Cached
<1>4. CASE AskDelete(r)
  <2>1. posted' = posted /\ head' = head /\ gp'[r] = DeleteMsg(held[r])
    BY <1>0, <1>4 DEF AskDelete, runner, RunnerTypeOK
  <2>2. gp'[r].type = "delete" /\ gp'[r].cached = held[r]
    BY <2>1 DEF DeleteMsg
  <2>3. KnownCached(r)' /\ ReservedComes(r)'
    BY <1>0, <1>1, <1>2, <2>1, <2>2 DEF KnownCached, ReservedComes, Coming, Acked
  <2>4. ASSUME assimilation_cycle = 1 PROVE BaseKept(r)'
    <3>1. Unreported(r) => Unreported(r)'
      BY <1>0, <1>2, <2>1, <2>2 DEF Unreported, WeightMsg
    <3> QED
      BY <1>0, <1>1, <1>2, <2>1, <2>2, <2>4, <3>1 DEF BaseKept
  <2> QED
    BY <1>0, <2>3, <2>4 DEF Cached
<1>5. CASE AskPrefetch(r)
  <2>1. posted' = posted /\ head' = head /\ gp'[r] = PrefetchMsg(held[r]) /\ head[r] = AfterWeight
    BY <1>0, <1>5 DEF AskPrefetch, runner, RunnerTypeOK, AtRest, AfterWeight
  <2>2. gp'[r].type = "prefetch" /\ gp'[r].cached = held[r]
    BY <2>1 DEF PrefetchMsg
  <2>3. KnownCached(r)' /\ ReservedComes(r)'
    BY <1>0, <1>1, <1>2, <2>1, <2>2 DEF KnownCached, ReservedComes, Coming, Acked
  <2>4. ASSUME assimilation_cycle = 1 PROVE BaseKept(r)'
    BY <1>0, <1>1, <1>2, <2>1, <2>2, <2>4 DEF BaseKept, Unreported, WeightMsg
  <2> QED
    BY <1>0, <2>3, <2>4 DEF Cached
<1> QED
  BY <1>3, <1>4, <1>5

(* What the head rank does with an answer. *)
LEMMA ReadReplyCached ==
  ASSUME TypeOK, NEW r \in Runners, r \notin faulty_runners, Cached(r), UNCHANGED server, ReadReply(r)
  PROVE  Cached(r)'
<1>0. /\ RunnerTypeOK
      /\ UNCHANGED <<jobs, app, posted, cr, scheduled_jobs, faulty_runners, assimilation_cycle>>
      /\ gp'[r].type = "idle"
      /\ gp[r].type \in {"ack", "deleted", "pull", "empty"}
  BY DEF TypeOK, RunnerTypeOK, ReadReply, server, Idle
<1>1. KnownCached(r) /\ ReservedComes(r) /\ (assimilation_cycle = 1 => BaseKept(r))
  BY DEF Cached
<1>2. CachedBy(r)' = CachedBy(r) /\ Acked(r)' = {}
  BY <1>0 DEF CachedBy, Acked
<1>3. /\ held'[r] = (held[r] \cup Acked(r)) \ (IF gp[r].type = "deleted" THEN {gp[r].state} ELSE {})
      /\ pulls'[r] = pulls[r] \cup (IF gp[r].type = "pull" THEN gp[r].states ELSE {})
      /\ head'[r] = head[r] \/ gp[r].type = "pull"
  BY <1>0 DEF ReadReply, RunnerTypeOK, Acked
<1>4. KnownCached(r)'
  BY <1>0, <1>1, <1>2, <1>3 DEF KnownCached
<1>5. ReservedComes(r)'
  BY <1>0, <1>1, <1>3 DEF ReservedComes, Coming, AfterWeight, Fetching
<1>6. ASSUME assimilation_cycle = 1 PROVE BaseKept(r)'
  <2>1. BaseState(r) \in held[r] \cup Acked(r)
    BY <1>0, <1>1, <1>6 DEF BaseKept, Unreported, WeightMsg
  <2>2. gp[r].type = "deleted" => gp[r].state # BaseState(r)
    BY <1>1, <1>6 DEF BaseKept, BaseState
  <2> QED
    BY <1>0, <1>1, <1>2, <1>3, <1>6, <2>1, <2>2 DEF BaseKept
<1> QED
  BY <1>0, <1>4, <1>5, <1>6 DEF Cached

(* How it fetches a state. *)
LEMMA FetchCached ==
  ASSUME TypeOK, NEW r \in Runners, r \notin faulty_runners, Cached(r), UNCHANGED server,
         StartFetch(r) \/ FinishFetch(r)
  PROVE  Cached(r)'
<1>0. /\ RunnerTypeOK
      /\ UNCHANGED <<gp, jobs, app, posted, cr, scheduled_jobs, faulty_runners, assimilation_cycle>>
      /\ gp[r] = Idle /\ gp[r].type = "idle"
  BY DEF TypeOK, StartFetch, FinishFetch, HeadReady, server, channels, Idle
<1>1. KnownCached(r) /\ ReservedComes(r) /\ (assimilation_cycle = 1 => BaseKept(r))
  BY DEF Cached
<1>2. CachedBy(r)' = CachedBy(r) /\ Acked(r)' = Acked(r)
  BY <1>0 DEF CachedBy, Acked
<1>3. /\ held[r] \subseteq held'[r] /\ head'[r] # AfterWeight
      /\ \A p : p \in held[r] \cup pulls[r] \/ head[r] = Fetching(p) =>
                p \in held'[r] \cup pulls'[r] \/ head'[r] = Fetching(p)
  <2>1. CASE StartFetch(r)
    <3>1. held' = held /\ head[r] = AtRest
      BY <2>1 DEF StartFetch
    <3>2. \A p : head[r] # Fetching(p)
      BY <3>1 DEF AtRest, Fetching
    <3>3. CASE pulls' = pulls /\ head' = [head EXCEPT ![r] = Fetching(app[r].parent)]
      BY <1>0, <3>1, <3>2, <3>3 DEF RunnerTypeOK, Fetching, AfterWeight
    <3>4. ASSUME NEW s, pulls' = [pulls EXCEPT ![r] = @ \ {s}],
                 head' = IF s \in held[r] THEN head ELSE [head EXCEPT ![r] = Fetching(s)]
          PROVE  (\A p : p \in held[r] \cup pulls[r] \/ head[r] = Fetching(p) =>
                       p \in held'[r] \cup pulls'[r] \/ head'[r] = Fetching(p)) /\ head'[r] # AfterWeight
      BY <1>0, <3>1, <3>2, <3>4 DEF RunnerTypeOK, Fetching, AfterWeight, AtRest
    <3> QED
      BY <2>1, <3>1, <3>3, <3>4 DEF StartFetch
  <2>2. CASE FinishFetch(r)
    <3>1. pulls' = pulls /\ held'[r] = held[r] \cup {head[r].state} /\ head'[r] = AtRest
      BY <1>0, <2>2 DEF FinishFetch, RunnerTypeOK
    <3>2. \A p : head[r] = Fetching(p) => head[r].state = p
      BY DEF Fetching
    <3> QED
      BY <3>1, <3>2 DEF AtRest, AfterWeight
  <2> QED
    BY <2>1, <2>2
<1>4. KnownCached(r)' /\ ReservedComes(r)'
  BY <1>0, <1>1, <1>2, <1>3 DEF KnownCached, ReservedComes, Coming
<1>5. ASSUME assimilation_cycle = 1 PROVE BaseKept(r)'
  <2>1. Unreported(r) => Unreported(r)'
    BY <1>0, <1>3 DEF Unreported
  <2> QED
    BY <1>0, <1>1, <1>2, <1>3, <1>5, <2>1 DEF BaseKept
<1> QED
  BY <1>0, <1>4, <1>5 DEF Cached

(* Whatever a runner does. *)
LEMMA RunnerStepCached ==
  ASSUME TypeOK, NEW r \in Runners, RunnerStep(r)
  PROVE  \A q \in Runners : Cached(q) => Cached(q)'
<1>0. UNCHANGED server
  BY RunnerStepLeavesServer
<1>1. ASSUME NEW q \in Runners, Cached(q),
             q # r \/ StartRunner(r) \/ RunnerDies(r)
      PROVE  Cached(q)'
  <2>1. /\ gp'[q] = gp[q] /\ app'[q] = app[q] /\ posted'[q] = posted[q] /\ head'[q] = head[q]
        /\ held'[q] = held[q] /\ pulls'[q] = pulls[q] /\ jobs'[q] = jobs[q]
    BY <1>1 DEF TypeOK, RunnerTypeOK, RunnerStep, AppStep, HeadStep, StartRunner, RunnerDies, Load, Expose,
         ReadJob, PushWeight, AskDelete, AskPrefetch, ReadReply, StartFetch, FinishFetch, channels, runner
  <2>2. CachedBy(q)' = CachedBy(q)
    BY <1>0 DEF server, CachedBy
  <2>3. UNCHANGED <<cr, scheduled_jobs, faulty_runners, assimilation_cycle>>
    BY <1>0 DEF server
  <2> QED
    BY <1>1, <2>1, <2>2, <2>3, CacheLeft
<1>2. ASSUME Cached(r), r \in faulty_runners PROVE Cached(r)'
  BY <1>0, <1>2 DEF Cached, server
<1>3. ASSUME Cached(r), r \notin faulty_runners, AppStep(r) \/ HeadStep(r) PROVE Cached(r)'
  BY <1>0, <1>3, AppStepCached, AskingCached, ReadReplyCached, FetchCached DEF HeadStep
<1> QED
  BY <1>1, <1>2, <1>3 DEF RunnerStep

(* A new server and new runners. *)
LEMMA FreshCaches ==
  ASSUME DOMAIN cr = {}, DOMAIN scheduled_jobs = {}, gp = Silent, jobs = Silent, app = BaseJobs,
         posted = Nothing, head = HeadsAtRest, held = Nothing, pulls = Nothing,
         NEW r \in Runners
  PROVE  Cached(r)
<1>1. /\ gp[r] = Idle /\ jobs[r] = Idle /\ app[r] = Order(BaseState(r), None)
      /\ posted[r] = {} /\ head[r] = AtRest /\ held[r] = {} /\ pulls[r] = {}
      /\ CachedBy(r) = {}
  BY DEF Silent, BaseJobs, Nothing, HeadsAtRest, CachedBy
<1>2. gp[r].type = "idle" /\ app[r].job = BaseState(r) /\ AtRest # AfterWeight
  BY <1>1 DEF Idle, Order, AtRest, AfterWeight
<1>3. KnownCached(r) /\ ReservedComes(r) /\ BaseKept(r)
  BY <1>1, <1>2 DEF KnownCached, ReservedComes, BaseKept, Unreported
<1> QED
  BY <1>3 DEF Cached

(* At the start. *)
LEMMA InitCaches == Init => Caches
BY FreshCaches DEF Init, Caches

(* After a restart. *)
LEMMA RestartCaches ==
  ASSUME TypeOK, restart
  PROVE  Caches'
<1>1. CASE status' = "no_checkpoint"
  BY <1>1 DEF Caches, CheckpointExists
<1>2. CASE status' # "no_checkpoint"
  <2>1. /\ DOMAIN cr' = {} /\ DOMAIN scheduled_jobs' = {} /\ gp' = Silent /\ jobs' = Silent
        /\ app' = BaseJobs /\ posted' = Nothing /\ head' = HeadsAtRest /\ held' = Nothing /\ pulls' = Nothing
    BY <1>2 DEF restart, StartsWith, Fault
  <2>2. ASSUME NEW r \in Runners PROVE Cached(r)'
    <3>1. (/\ DOMAIN cr = {} /\ DOMAIN scheduled_jobs = {} /\ gp = Silent /\ jobs = Silent
          /\ app = BaseJobs /\ posted = Nothing /\ head = HeadsAtRest /\ held = Nothing /\ pulls = Nothing)'
      BY <2>1
    <3> QED
      BY <3>1, FreshCaches, PTL
  <2> QED
    BY <2>2 DEF Caches
<1> QED
  BY <1>1, <1>2

(* Every step keeps the server's picture of the caches right. *)
LEMMA NextCaches ==
  ASSUME Invariants, Caches, [Next]_vars
  PROVE  Caches'
<1>0. TypeOK /\ Ledger
  BY DEF Invariants
<1>1. CASE restart
  BY <1>0, <1>1, RestartCaches
<1>2. CASE UNCHANGED vars
  BY <1>2 DEF Caches, Cached, KnownCached, ReservedComes, BaseKept, Unreported, Coming, Acked, CachedBy,
       CheckpointExists, vars, server, channels, runner
<1>3. ASSUME NEW r \in Runners, RunnerStep(r) PROVE Caches'
  <2>1. status' = status
    BY <1>3, RunnerStepLeavesServer DEF server
  <2>2. \A q \in Runners : Cached(q) => Cached(q)'
    BY <1>0, <1>3, RunnerStepCached
  <2> QED
    BY <2>1, <2>2 DEF Caches, CheckpointExists
<1>4. CASE ServerStep
  <2>1. UNCHANGED <<restarts, runner>>
    BY <1>4 DEF ServerStep
  <2>2. CheckpointExists
    BY <1>4 DEF ServerStep, CheckpointExists, handle_general_purpose, accept_weight, accept_delete,
         accept_prefetch, handle_job_requests, give_scheduled_job, give_new_job, give_no_job, AsksForJob,
         ignore_faulty, raises, check_violations, stop, Heard, Serving
  <2>3. \A q \in Runners : Cached(q)
    BY <2>2 DEF Caches
  <2>4. ASSUME NEW r \in Runners,
               handle_job_requests(r) \/ ignore_faulty(r) \/ raises(r) \/ check_violations \/ stop
        PROVE  Caches'
    <3>1. \A q \in Runners : Cached(q) => Cached(q)'
      BY <1>0, <2>1, <2>4, OtherServerStepsCached
    <3> QED
      BY <2>3, <3>1 DEF Caches
  <2>5. ASSUME NEW r \in Runners, handle_general_purpose(r) PROVE Caches'
    <3>1. \A q \in Runners : Cached(q) => Cached(q)'
      BY <1>0, <2>1, <2>3, <2>5, AcceptWeightCached, AcceptDeleteCached, AcceptPrefetchCached
         DEF handle_general_purpose
    <3> QED
      BY <2>3, <3>1 DEF Caches
  <2>6. CASE Runners = {}
    BY <2>6 DEF Caches
  <2> QED
    BY <1>4, <2>4, <2>5, <2>6 DEF ServerStep
<1> QED
  BY <1>1, <1>2, <1>3, <1>4 DEF Next

(* So it is always. *)
LEMMA CachesHold == Spec => []Caches
<1>1. Invariants /\ Caches /\ [Next]_vars => Caches'
  BY NextCaches
<1> QED
  BY <1>1, InitCaches, InvariantsHold, PTL DEF Spec

(***************************************************************************)
(* The server never takes a state for cached that a runner does not have:  *)
(* accept_prefetch would not have it fetched, and its job would begin with *)
(* a cache miss.  With two cycles, a restart at the end finds no           *)
(* checkpoint and leaves the books of the server before.                   *)
(***************************************************************************)
THEOREM CacheIsKnown ==
  ASSUME Cycles # 2
  PROVE  Spec => []CacheKnown
<1>1. CheckpointExists /\ TypeOK /\ Caches => CacheKnown
  <2> SUFFICES ASSUME CheckpointExists, TypeOK, Caches, NEW r \in DOMAIN cr \ faulty_runners
               PROVE  cr[r] \subseteq held[r] \cup (IF gp[r].type = "ack" THEN {gp[r].state} ELSE {})
    BY DEF CacheKnown
  <2>1. r \in Runners
    BY DEF TypeOK, ServerTypeOK
  <2> QED
    BY <2>1 DEF Caches, Cached, KnownCached, CachedBy, Acked
<1>2. Spec => []CheckpointExists
  BY RestartsFindCheckpoint
<1> QED
  BY <1>1, <1>2, CachesHold, TypeCorrect, PTL

(* A reserved job begins with its parent cached: no delete request of the  *)
(* runner takes away what a prefetch brought or found.                     *)
THEOREM PrefetchesComplete ==
  ASSUME Cycles # 2
  PROVE  Spec => []PrefetchComplete
<1>1. CheckpointExists /\ TypeOK /\ Ledger /\ Caches => PrefetchComplete
  <2> SUFFICES ASSUME CheckpointExists, TypeOK, Ledger, Caches, NEW r \in DOMAIN scheduled_jobs
               PROVE  Coming(r, scheduled_jobs[r].parent)
    BY DEF PrefetchComplete, Coming
  <2>1. r \in Runners /\ r \notin faulty_runners
    BY DEF TypeOK, ServerTypeOK, Ledger, ReservedNotHeld
  <2> QED
    BY <2>1 DEF Caches, Cached, ReservedComes
<1>2. Spec => []CheckpointExists
  BY RestartsFindCheckpoint
<1> QED
  BY <1>1, <1>2, CachesHold, TypeCorrect, LedgerBalances, PTL

(* In the first cycle no delete request takes the base state away, from    *)
(* which all jobs of the cycle start.                                      *)
THEOREM BaseStateStays ==
  ASSUME Cycles # 2
  PROVE  Spec => []BaseStateKept
<1>1. CheckpointExists /\ TypeOK /\ Caches => BaseStateKept
  <2> SUFFICES ASSUME CheckpointExists, TypeOK, Caches, assimilation_cycle = 1,
                      NEW r \in DOMAIN cr \ faulty_runners
               PROVE  BaseState(r) \in held[r] \/ (gp[r].type = "ack" /\ gp[r].state = BaseState(r))
    BY DEF BaseStateKept
  <2>1. r \in Runners
    BY DEF TypeOK, ServerTypeOK
  <2>2. BaseState(r) \in held[r] \cup Acked(r)
    BY <2>1 DEF Caches, Cached, BaseKept, Unreported
  <2> QED
    BY <2>2 DEF Acked
<1>2. Spec => []CheckpointExists
  BY RestartsFindCheckpoint
<1> QED
  BY <1>1, <1>2, CachesHold, TypeCorrect, PTL

-----------------------------------------------------------------------------
(***************************************************************************)
(* The first of a set of cached states, and what is left to choose.        *)
(***************************************************************************)
(* States that the order of the caches tells apart. *)
Ordered(S) ==
  /\ S \subseteq State
  /\ \A x, y \in S : x = y \/ x.t # y.t \/ (x.id \in Nat /\ y.id \in Nat)

(* The order of such states is total and strict. *)
LEMMA BeforeIsOrder ==
  ASSUME NEW S, Ordered(S), NEW x \in S, NEW y \in S, x # y
  PROVE  /\ Before(x, y) \/ Before(y, x)
         /\ ~ (Before(x, y) /\ Before(y, x))
         /\ \A z \in S : z # x /\ z # y /\ Before(x, y) /\ Before(y, z) => Before(x, z)
<1>1. \A u \in S : u = [t |-> u.t, id |-> u.id] /\ u.t \in Nat
  BY DEF Ordered, State
<1>2. \A u, v \in S : u # v => u.t # v.t \/ (u.id \in Nat /\ v.id \in Nat /\ u.id # v.id)
  BY <1>1 DEF Ordered
<1>3. Before(x, y) \/ Before(y, x)
  BY <1>1, <1>2 DEF Before
<1>4. ~ (Before(x, y) /\ Before(y, x))
  BY <1>1, <1>2 DEF Before
<1>5. ASSUME NEW z \in S, z # x, z # y, Before(x, y), Before(y, z)
      PROVE  Before(x, z)
  BY <1>1, <1>2, <1>5 DEF Before
<1> QED
  BY <1>3, <1>4, <1>5

(* A finite set of them has a first. *)
LEMMA FirstExists ==
  ASSUME NEW S, Ordered(S), IsFiniteSet(S), S # {}
  PROVE  First(S) # {}
<1> DEFINE n == Cardinality(S)
           Upto(x) == {x} \cup {u \in S \ {x} : Before(u, x)}
           f == [x \in S |-> Cardinality(Upto(x))]
<1>1. n \in Nat /\ n > 0
  BY FS_CardinalityType, FS_EmptySet
<1>2. ASSUME NEW x \in S
      PROVE  /\ Upto(x) \in SUBSET S /\ x \in Upto(x)
             /\ IsFiniteSet(Upto(x)) /\ Cardinality(Upto(x)) \in 1 .. n
  <2>1. Upto(x) \in SUBSET S /\ x \in Upto(x)
    OBVIOUS
  <2> HIDE DEF Upto
  <2>2. IsFiniteSet(Upto(x)) /\ Cardinality(Upto(x)) <= n
    BY <2>1, FS_Subset
  <2>3. Cardinality(Upto(x)) \in Nat /\ Cardinality(Upto(x)) # 0
    BY <2>1, <2>2, FS_CardinalityType, FS_EmptySet
  <2> HIDE DEF n
  <2> QED
    BY <1>1, <2>1, <2>2, <2>3
<1>3. ASSUME NEW x \in S, NEW y \in S, x # y, Before(x, y)
      PROVE  Cardinality(Upto(x)) < Cardinality(Upto(y))
  <2>1. ~ Before(y, x)
    BY <1>3, BeforeIsOrder
  <2>2. \A u \in S : u # x /\ u # y /\ Before(u, x) => Before(u, y)
    BY <1>3, BeforeIsOrder
  <2>3. Upto(x) \subseteq Upto(y) /\ y \in Upto(y) /\ y \notin Upto(x)
    BY <1>3, <2>1, <2>2
  <2> HIDE DEF Upto
  <2>4. Upto(x) \in SUBSET Upto(y) /\ Upto(x) # Upto(y)
    BY <2>3
  <2>5. IsFiniteSet(Upto(y)) /\ Cardinality(Upto(y)) \in Nat /\ Cardinality(Upto(x)) \in Nat
    BY <1>2, <1>1
  <2>6. /\ Cardinality(Upto(x)) <= Cardinality(Upto(y))
        /\ Cardinality(Upto(y)) = Cardinality(Upto(x)) => Upto(y) = Upto(x)
    BY <2>4, <2>5, FS_Subset
  <2> QED
    BY <2>4, <2>5, <2>6
<1>4. f \in [S -> 1 .. n]
  BY <1>2
<1>5. \A x, y \in S : f[x] = f[y] => x = y
  <2> SUFFICES ASSUME NEW x \in S, NEW y \in S, x # y PROVE f[x] # f[y]
    OBVIOUS
  <2> HIDE DEF Upto
  <2>1. Before(x, y) \/ Before(y, x)
    BY BeforeIsOrder
  <2>2. f[x] < f[y] \/ f[y] < f[x]
    BY <1>3, <2>1
  <2>3. f[x] \in 1 .. n /\ f[y] \in 1 .. n
    BY <1>4
  <2> HIDE DEF f, n
  <2> QED
    BY <1>1, <2>2, <2>3
<1> HIDE DEF Upto
<1>6. f \in Injection(S, 1 .. n)
  <2> HIDE DEF f, n
  <2> QED
    BY <1>4, <1>5 DEF Injection, IsInjective
<1>7. IsFiniteSet(1 .. n) /\ Cardinality(1 .. n) = n
  BY <1>1, FS_Interval
<1>8. f \in Surjection(S, 1 .. n)
  BY <1>6, <1>7, FS_Injection
<1>9. PICK x \in S : f[x] = 1
  <2>1. 1 \in 1 .. n
    BY <1>1
  <2> HIDE DEF f, n
  <2> QED
    BY <1>8, <2>1 DEF Surjection
<1>10. ASSUME NEW u \in S \ {x} PROVE Before(x, u)
  <2>1. ~ Before(u, x)
    <3>1. f[u] \in 1 .. n
      BY <1>4
    <3>2. Before(u, x) => f[u] < f[x]
      BY <1>3
    <3> HIDE DEF f, n
    <3> QED
      BY <1>1, <1>9, <3>1, <3>2
  <2> QED
    BY <2>1, BeforeIsOrder
<1> QED
  BY <1>10 DEF First

(***************************************************************************)
(* Somebody's share is not used up: when disjoint sets of workers without  *)
(* one of them are given to the parents, some parent has fewer than its    *)
(* part of the bag entitles it to.                                         *)
(***************************************************************************)
(* A set that is not larger fits into another. *)
LEMMA Fits ==
  ASSUME NEW S, NEW T, IsFiniteSet(S), IsFiniteSet(T), Cardinality(S) <= Cardinality(T)
  PROVE  Injection(S, T) # {}
<1> DEFINE m == Cardinality(S)
           n == Cardinality(T)
<1>1. m \in Nat /\ n \in Nat /\ m <= n
  BY FS_CardinalityType
<1>2. PICK g : g \in Bijection(1 .. n, T)
  BY FS_CardinalityType DEF ExistsBijection
<1>3. \E h : h \in Bijection(S, 1 .. m)
  <2>1. IsFiniteSet(1 .. m) /\ Cardinality(1 .. m) = m
    BY <1>1, FS_Interval
  <2> QED
    BY <2>1, FS_SameCardinalityBij DEF ExistsBijection
<1>4. PICK h : h \in Bijection(S, 1 .. m)
  BY <1>3
<1> DEFINE k == [x \in S |-> g[h[x]]]
<1>5. \A x \in S : h[x] \in 1 .. n
  BY <1>1, <1>4 DEF Bijection, Injection
<1>6. k \in [S -> T]
  BY <1>2, <1>5 DEF Bijection, Injection
<1>7. \A x, y \in S : k[x] = k[y] => x = y
  <2>1. \A i, j \in 1 .. n : g[i] = g[j] => i = j
    BY <1>2 DEF Bijection, Injection, IsInjective
  <2>2. \A x, y \in S : h[x] = h[y] => x = y
    BY <1>4 DEF Bijection, Injection, IsInjective
  <2> QED
    BY <1>5, <2>1, <2>2
<1>8. k \in Injection(S, T)
  <2> HIDE DEF k
  <2> QED
    BY <1>6, <1>7 DEF Injection, IsInjective
<1> QED
  BY <1>8

(* The copies of one parent in a bag. *)
CopiesOf(a, p) == {p} \X (1 .. a[p])

(* Not all shares of the workers are used up if one works for none of the  *)
(* parents.                                                                *)
LEMMA ShareIsLeft ==
  ASSUME NEW a, IsParticleBag(a), DOMAIN a # {}, NEW S, IsFiniteSet(S), NEW r \in S, NEW W,
         \A p \in DOMAIN a : W[p] \in SUBSET (S \ {r}),
         \A p, q \in DOMAIN a : p # q => W[p] \cap W[q] = {}
  PROVE  \E p \in DOMAIN a : a[p] * Cardinality(S) > Cardinality(W[p]) * count_members(a)
<1> DEFINE M == Members(a)
           m == Cardinality(M)
           R == Cardinality(S)
           A(p) == CopiesOf(a, p) \X S
           B(p) == M \X W[p]
<1>1. /\ IsFiniteSet(M) /\ m \in Nat /\ R \in Nat
      /\ \A p \in DOMAIN a : a[p] \in Nat \ {0}
  BY FS_CardinalityType DEF IsParticleBag, IsABag
<1>2. m > 0
  <2>1. PICK p \in DOMAIN a : TRUE
    OBVIOUS
  <2>2. <<p, 1>> \in M
    BY <1>1, <2>1 DEF Members
  <2>3. m # 0
    BY <1>1, <2>2, FS_EmptySet
  <2> HIDE DEF m
  <2> QED
    BY <1>1, <2>3
<1>3. \A p \in DOMAIN a : IsFiniteSet(W[p]) /\ Cardinality(W[p]) \in Nat
  <2> SUFFICES ASSUME NEW p \in DOMAIN a
               PROVE  IsFiniteSet(W[p]) /\ Cardinality(W[p]) \in Nat
    OBVIOUS
  <2>1. W[p] \in SUBSET S
    OBVIOUS
  <2>2. IsFiniteSet(W[p])
    BY <2>1, FS_Subset
  <2> QED
    BY <2>2, FS_CardinalityType
<1> SUFFICES ASSUME \A p \in DOMAIN a : ~ (a[p] * R > Cardinality(W[p]) * m)
             PROVE  FALSE
  BY DEF count_members
<1>4. ASSUME NEW p \in DOMAIN a
      PROVE  Injection(A(p), B(p)) # {}
  <2>1. IsFiniteSet({p}) /\ Cardinality({p}) = 1
    BY FS_Singleton
  <2>2. IsFiniteSet(1 .. a[p]) /\ Cardinality(1 .. a[p]) = a[p]
    BY <1>1, FS_Interval
  <2>3. IsFiniteSet(CopiesOf(a, p)) /\ Cardinality(CopiesOf(a, p)) = 1 * a[p]
    <3>1. /\ IsFiniteSet({p} \X (1 .. a[p]))
          /\ Cardinality({p} \X (1 .. a[p])) = Cardinality({p}) * Cardinality(1 .. a[p])
      BY <2>1, <2>2, FS_Product
    <3> QED
      BY <2>1, <2>2, <3>1 DEF CopiesOf
  <2>4. IsFiniteSet(A(p)) /\ Cardinality(A(p)) = Cardinality(CopiesOf(a, p)) * R
    BY <2>3, FS_Product
  <2>5. IsFiniteSet(B(p)) /\ Cardinality(B(p)) = m * Cardinality(W[p])
    BY <1>1, <1>3, FS_Product
  <2>6. Cardinality(A(p)) <= Cardinality(B(p))
    <3>1. Cardinality(A(p)) = a[p] * R
      BY <1>1, <2>3, <2>4
    <3>2. ~ (a[p] * R > Cardinality(W[p]) * m) /\ a[p] \in Nat /\ Cardinality(W[p]) \in Nat
      BY <1>1, <1>3
    <3> HIDE DEF A, B, m, R
    <3> QED
      BY <1>1, <2>5, <3>1, <3>2
  <2> HIDE DEF A, B
  <2> QED
    BY <2>4, <2>5, <2>6, Fits
<1> DEFINE G(p) == CHOOSE g \in Injection(A(p), B(p)) : TRUE
<1>5. \A p \in DOMAIN a : G(p) \in Injection(A(p), B(p))
  <2> HIDE DEF A, B
  <2> QED
    BY <1>4
<1> DEFINE F == [x \in M \X S |-> G(x[1][1])[x]]
<1> HIDE DEF G
<1>6. \A x \in M \X S : x[1][1] \in DOMAIN a /\ x \in A(x[1][1])
  <2> SUFFICES ASSUME NEW y \in M, NEW s \in S
               PROVE  y[1] \in DOMAIN a /\ <<y, s>> \in CopiesOf(a, y[1]) \X S
    OBVIOUS
  <2>1. PICK q \in DOMAIN a : \E k \in 1 .. a[q] : y = <<q, k>>
    BY MembersAre
  <2>2. y[1] = q /\ y \in CopiesOf(a, q)
    BY <2>1 DEF CopiesOf
  <2> QED
    BY <2>2
<1>7. \A x \in M \X S : F[x] \in B(x[1][1])
  <2> SUFFICES ASSUME NEW x \in M \X S PROVE G(x[1][1])[x] \in B(x[1][1])
    OBVIOUS
  <2>1. G(x[1][1]) \in Injection(A(x[1][1]), B(x[1][1])) /\ x \in A(x[1][1])
    BY <1>5, <1>6
  <2> HIDE DEF A, B
  <2> QED
    BY <2>1 DEF Injection
<1>8. F \in [M \X S -> M \X (S \ {r})]
  <2>1. \A p \in DOMAIN a : B(p) \subseteq M \X (S \ {r})
    OBVIOUS
  <2>2. \A x \in M \X S : F[x] \in M \X (S \ {r})
    <3> HIDE DEF B, F, M
    <3> QED
      BY <1>6, <1>7, <2>1
  <2> HIDE DEF M
  <2> QED
    BY <2>2
<1>9. \A x, y \in M \X S : F[x] = F[y] => x = y
  <2> SUFFICES ASSUME NEW x \in M \X S, NEW y \in M \X S, F[x] = F[y] PROVE x = y
    OBVIOUS
  <2> DEFINE p == x[1][1]
             q == y[1][1]
  <2>1. p \in DOMAIN a /\ q \in DOMAIN a /\ x \in A(p) /\ y \in A(q)
    BY <1>6
  <2>2. F[x][2] \in W[p] /\ F[y][2] \in W[q]
    <3>1. F[x] \in B(p) /\ F[y] \in B(q)
      BY <1>7
    <3> HIDE DEF F, p, q
    <3> QED
      BY <3>1
  <2>3. p = q
    <3> HIDE DEF F, p, q, A
    <3> QED
      BY <2>1, <2>2
  <2>4. G(p)[x] = G(p)[y]
    <3>1. F[x] = G(p)[x] /\ F[y] = G(q)[y]
      OBVIOUS
    <3> HIDE DEF F, p, q
    <3> QED
      BY <2>3, <3>1
  <2>5. G(p) \in Injection(A(p), B(p))
    BY <1>5, <2>1
  <2> HIDE DEF F, p, q, A, B
  <2> QED
    BY <2>1, <2>3, <2>4, <2>5 DEF Injection, IsInjective
<1>10. F \in Injection(M \X S, M \X (S \ {r}))
  <2> HIDE DEF F, M
  <2> QED
    BY <1>8, <1>9 DEF Injection, IsInjective
<1>11. IsFiniteSet(S \ {r}) /\ Cardinality(S \ {r}) = R - 1
  BY FS_RemoveElement
<1>12. /\ IsFiniteSet(M \X S) /\ Cardinality(M \X S) = m * R
       /\ IsFiniteSet(M \X (S \ {r})) /\ Cardinality(M \X (S \ {r})) = m * (R - 1)
  BY <1>1, <1>11, FS_Product
<1>13. m * R <= m * (R - 1)
  <2> HIDE DEF F, m, R
  <2> QED
    BY <1>10, <1>12, FS_Injection
<1> HIDE DEF m, R
<1> QED
  BY <1>1, <1>2, <1>13

-----------------------------------------------------------------------------
(***************************************************************************)
(* While nothing times out, a runner works for one parent as long as there *)
(* are copies of it: its reserved job and its due dates are of the parent  *)
(* of its last job, unless that parent is done.                            *)
(***************************************************************************)
(* The parent a runner is to go on with. *)
Focus(r) == IF r \in DOMAIN scheduled_jobs THEN scheduled_jobs[r].parent ELSE runners_last[r]

OneParentEach ==
  /\ \A d \in due_dates :
       /\ d.runner \in DOMAIN runners_last
       /\ d.parent \in DOMAIN alpha => d.parent = Focus(d.runner)
  /\ \A r \in DOMAIN scheduled_jobs :
       runners_last[r] \in DOMAIN alpha => scheduled_jobs[r].parent = runners_last[r]

(* After the first cycle all parents are results. *)
ParentsAreJobs ==
  /\ assimilation_cycle > 1 => DOMAIN alpha \subseteq Job
  /\ \A n \in DOMAIN checkpoint : DOMAIN checkpoint[n] \subseteq Job

Focused == ParentsAreJobs /\ (assimilation_cycle > 1 => OneParentEach)

(* A step that only takes due dates away. *)
LEMMA FocusLeft ==
  ASSUME Focused, due_dates' \subseteq due_dates,
         UNCHANGED <<assimilation_cycle, alpha, scheduled_jobs, runners_last, checkpoint>>
  PROVE  Focused'
<1>1. ParentsAreJobs' /\ (OneParentEach => OneParentEach') /\ assimilation_cycle' = assimilation_cycle
  BY DEF Focused, ParentsAreJobs, OneParentEach, Focus
<1> QED
  BY <1>1 DEF Focused

(* With nothing out or reserved there is nothing to follow. *)
LEMMA NothingToFollow ==
  ASSUME due_dates' = {}, DOMAIN scheduled_jobs' = {}, ParentsAreJobs'
  PROVE  Focused'
BY DEF Focused, OneParentEach

(* The parent chosen for a runner waits, and is that of its last job if    *)
(* that one waits.                                                         *)
LEMMA ChoiceKeepsParent ==
  ASSUME TypeOK, assimilation_cycle > 1, NEW r \in Runners, NEW last, NEW cached,
         NEW p \in ParentChoices(r, last, cached), p # None
  PROVE  p \in DOMAIN alpha /\ (last[r] \in DOMAIN alpha => p = last[r])
<1>1. IsParticleBag(alpha) /\ assimilation_cycle # 1
  BY DEF TypeOK, ServerTypeOK
<1>2. p \in DOMAIN alpha
  BY <1>1, ChosenParent
<1>3. last[r] \in DOMAIN alpha => p = last[r]
  BY DEF ParentChoices
<1> QED
  BY <1>2, <1>3

(* An update leaves nothing out, and draws results of the cycle. *)
LEMMA UpdateFocused ==
  ASSUME TypeOK, TypeOK', Ledger', ParentsAreJobs, NEW W, W \subseteq OrderType, IsFiniteSet(W),
         do_update_step(W), alpha = EmptyBag
  PROVE  Focused'
<1>1. due_dates' = {} /\ DOMAIN scheduled_jobs' = {}
  BY NoneOutAtUpdate
<1>2. PICK drawn \in Resamplings(WeightedIn(W, assimilation_cycle)) : alpha' = alpha (+) drawn
  BY DEF do_update_step
<1>3. WeightedIn(W, assimilation_cycle) \subseteq Job /\ IsFiniteSet(WeightedIn(W, assimilation_cycle))
  BY WeightedStates
<1>4. WeightedIn(W, assimilation_cycle) \subseteq State
  BY <1>3, JobsAreStates
<1>5. alpha' = drawn /\ DOMAIN drawn \subseteq WeightedIn(W, assimilation_cycle)
  BY <1>2, <1>3, <1>4, Resampled
<1>6. DOMAIN alpha' \subseteq Job
  BY <1>3, <1>5
<1>7. checkpoint' = Put(checkpoint, assimilation_cycle + 1, alpha')
  BY DEF do_update_step, CheckpointNumber
<1>8. \A n \in DOMAIN checkpoint' : DOMAIN checkpoint'[n] \subseteq Job
  BY <1>6, <1>7 DEF Put, ParentsAreJobs
<1> QED
  BY <1>1, <1>6, <1>8, NothingToFollow DEF ParentsAreJobs

(* accept_weight *)
LEMMA AcceptWeightFocused ==
  ASSUME TypeOK, TypeOK', Ledger', Focused, NEW r \in Runners, accept_weight(r)
  PROVE  Focused'
<1>1. /\ UNCHANGED <<scheduled_jobs, runners_last>> /\ due_dates' \subseteq due_dates
      /\ \E n : maybe_update(n, state_weights')
  <2>1. UNCHANGED <<scheduled_jobs, runners_last>>
    BY DEF accept_weight
  <2>2. due_dates' \subseteq due_dates
    BY DEF accept_weight, WithoutDueDate
  <2>3. \E n : maybe_update(n, state_weights')
    BY DEF accept_weight
  <2> QED
    BY <2>1, <2>2, <2>3
<1>2. PICK n : maybe_update(n, state_weights')
  BY <1>1
<1>3. CASE ReadyForUpdate(n)
  <2>1. state_weights' \subseteq OrderType /\ IsFiniteSet(state_weights')
    BY DEF TypeOK, ServerTypeOK
  <2>2. do_update_step(state_weights') /\ alpha = EmptyBag
    BY <1>2, <1>3 DEF maybe_update, ReadyForUpdate
  <2>3. ParentsAreJobs
    BY DEF Focused
  <2> QED
    BY <2>1, <2>2, <2>3, UpdateFocused
<1>4. CASE ~ ReadyForUpdate(n)
  BY <1>1, <1>2, <1>4, FocusLeft DEF maybe_update
<1> QED
  BY <1>3, <1>4

(* accept_prefetch *)
LEMMA AcceptPrefetchFocused ==
  ASSUME TypeOK, Ledger, Focused, NEW r \in Runners, accept_prefetch(r)
  PROVE  Focused'
<1>0. UNCHANGED <<assimilation_cycle, runners_last, checkpoint>>
  BY DEF accept_prefetch
<1>1. CASE UNCHANGED <<scheduled_jobs, alpha, due_dates>>
  BY <1>0, <1>1, FocusLeft
<1>2. CASE /\ Prefetches(r) /\ r \in DOMAIN runners_last
           /\ \E p \in ParentChoices(r, runners_last, gp[r].cached) \ {None} :
                /\ scheduled_jobs' = Put(scheduled_jobs, r, Order(generate_job_id, p))
                /\ alpha' = Taken(alpha, p)
                /\ due_dates' = due_dates \cup {Due(r, generate_job_id, p)}
  <2>1. PICK p \in ParentChoices(r, runners_last, gp[r].cached) \ {None} :
               /\ scheduled_jobs' = Put(scheduled_jobs, r, Order(generate_job_id, p))
               /\ alpha' = Taken(alpha, p)
               /\ due_dates' = due_dates \cup {Due(r, generate_job_id, p)}
    BY <1>2
  <2>2. assimilation_cycle > 1 /\ r \notin DOMAIN scheduled_jobs /\ ParentsAreJobs /\ OneParentEach
    BY <1>2 DEF Prefetches, Focused
  <2>3. p \in DOMAIN alpha /\ (runners_last[r] \in DOMAIN alpha => p = runners_last[r])
    BY <2>1, <2>2, ChoiceKeepsParent
  <2>4. DOMAIN alpha' \subseteq DOMAIN alpha
    BY <2>1, <2>3, TakenOne DEF TypeOK, ServerTypeOK
  <2>5. /\ DOMAIN scheduled_jobs' = DOMAIN scheduled_jobs \cup {r}
        /\ scheduled_jobs'[r].parent = p
        /\ \A q \in DOMAIN scheduled_jobs : scheduled_jobs'[q] = scheduled_jobs[q]
    BY <2>1, <2>2 DEF Put, Order
  <2>6. /\ Focus(r) = runners_last[r] /\ Focus(r)' = p
        /\ \A q : q # r => Focus(q)' = Focus(q)
    BY <1>0, <2>2, <2>5 DEF Focus
  <2>7. /\ Due(r, generate_job_id, p).runner = r /\ Due(r, generate_job_id, p).parent = p
    BY DEF Due
  <2>8. \A d \in due_dates' : /\ d.runner \in DOMAIN runners_last'
                              /\ d.parent \in DOMAIN alpha' => d.parent = Focus(d.runner)'
    <3>1. ASSUME NEW d \in due_dates
          PROVE  /\ d.runner \in DOMAIN runners_last
                 /\ d.parent \in DOMAIN alpha' => d.parent = Focus(d.runner)'
      BY <2>2, <2>3, <2>4, <2>6, <3>1 DEF OneParentEach
    <3> QED
      BY <1>0, <1>2, <2>1, <2>6, <2>7, <3>1
  <2>9. \A q \in DOMAIN scheduled_jobs' :
          runners_last'[q] \in DOMAIN alpha' => scheduled_jobs'[q].parent = runners_last'[q]
    BY <1>0, <2>2, <2>3, <2>4, <2>5 DEF OneParentEach
  <2>10. ParentsAreJobs'
    BY <1>0, <2>2, <2>4 DEF ParentsAreJobs
  <2> QED
    BY <2>8, <2>9, <2>10 DEF Focused, OneParentEach
<1> QED
  BY <1>1, <1>2 DEF accept_prefetch

(* give_scheduled_job: the runner goes on with what it reserved. *)
LEMMA GiveScheduledJobFocused ==
  ASSUME TypeOK, Ledger, Focused, NEW r \in Runners, give_scheduled_job(r)
  PROVE  Focused'
<1> DEFINE p == scheduled_jobs[r].parent
<1>1. /\ r \in DOMAIN scheduled_jobs /\ scheduled_jobs' = Del(scheduled_jobs, r)
      /\ runners_last' = Put(Registered(r), r, p) /\ alpha' = alpha
      /\ due_dates' = WithoutDueDate(r, scheduled_jobs[r].job) \cup {Due(r, generate_job_id, p)}
      /\ UNCHANGED <<assimilation_cycle, checkpoint>>
  BY DEF give_scheduled_job, GiveJob, RemoveFromAlpha
<1>2. ParentsAreJobs'
  BY <1>1 DEF Focused, ParentsAreJobs
<1>3. ASSUME assimilation_cycle > 1 PROVE OneParentEach'
  <2>1. OneParentEach
    BY <1>3 DEF Focused
  <2>2. /\ DOMAIN runners_last \subseteq DOMAIN runners_last' /\ r \in DOMAIN runners_last'
        /\ runners_last'[r] = p
        /\ \A q \in DOMAIN runners_last : q # r => runners_last'[q] = runners_last[q]
    BY <1>1 DEF Put, Registered
  <2>3. /\ DOMAIN scheduled_jobs' = DOMAIN scheduled_jobs \ {r}
        /\ \A q \in DOMAIN scheduled_jobs' : scheduled_jobs'[q] = scheduled_jobs[q]
    BY <1>1 DEF Del
  <2>4. /\ Focus(r) = p /\ Focus(r)' = p
        /\ \A q \in DOMAIN runners_last : Focus(q)' = Focus(q)
    BY <1>1, <2>2, <2>3 DEF Focus
  <2>5. \A d \in due_dates' : d \in due_dates \/ (d.runner = r /\ d.parent = p)
    BY <1>1 DEF WithoutDueDate, Due
  <2>6. \A d \in due_dates' : /\ d.runner \in DOMAIN runners_last'
                              /\ d.parent \in DOMAIN alpha' => d.parent = Focus(d.runner)'
    BY <1>1, <2>1, <2>2, <2>4, <2>5 DEF OneParentEach
  <2>7. \A q \in DOMAIN scheduled_jobs : q \in DOMAIN runners_last
    BY <2>1 DEF Ledger, ScheduledIsDue, OneParentEach, Due
  <2>8. \A q \in DOMAIN scheduled_jobs' :
          runners_last'[q] \in DOMAIN alpha' => scheduled_jobs'[q].parent = runners_last'[q]
    BY <1>1, <2>1, <2>2, <2>3, <2>7 DEF OneParentEach
  <2> QED
    BY <2>6, <2>8 DEF OneParentEach
<1> QED
  BY <1>1, <1>2, <1>3 DEF Focused

(* give_new_job: it goes on with the parent of its last job. *)
LEMMA GiveNewJobFocused ==
  ASSUME TypeOK, Ledger, Focused, NEW r \in Runners, give_new_job(r)
  PROVE  Focused'
<1>1. /\ r \notin DOMAIN scheduled_jobs
      /\ UNCHANGED <<scheduled_jobs, assimilation_cycle, checkpoint>>
  BY DEF give_new_job, GiveJob
<1>2. PICK p \in ParentChoices(r, Registered(r), CachedBy(r)) \ {None} :
             /\ alpha' = RemoveFromAlpha(r, p, Offered(p, Registered(r)[r]))
             /\ runners_last' = Put(Registered(r), r, p)
             /\ due_dates' = due_dates \cup {Due(r, generate_job_id, p)}
  BY DEF give_new_job, GiveJob
<1>3. ASSUME assimilation_cycle > 1 PROVE OneParentEach' /\ DOMAIN alpha' \subseteq DOMAIN alpha
  <2>1. OneParentEach
    BY <1>3 DEF Focused
  <2>2. p \in DOMAIN alpha /\ (Registered(r)[r] \in DOMAIN alpha => p = Registered(r)[r])
    BY <1>2, <1>3, ChoiceKeepsParent
  <2>3. alpha' = Taken(alpha, p)
    BY <1>1, <1>2, <1>3 DEF RemoveFromAlpha, Offered
  <2>4. DOMAIN alpha' \subseteq DOMAIN alpha
    BY <2>2, <2>3, TakenOne DEF TypeOK, ServerTypeOK
  <2>5. /\ DOMAIN runners_last \subseteq DOMAIN runners_last' /\ r \in DOMAIN runners_last'
        /\ runners_last'[r] = p
        /\ \A q \in DOMAIN runners_last : q # r => runners_last'[q] = runners_last[q]
        /\ r \in DOMAIN runners_last => Registered(r)[r] = runners_last[r]
    BY <1>2 DEF Put, Registered
  <2>6. /\ Focus(r) = runners_last[r] /\ Focus(r)' = p
        /\ \A q \in DOMAIN runners_last : q # r => Focus(q)' = Focus(q)
    BY <1>1, <2>5 DEF Focus
  <2>7. \A d \in due_dates' : d \in due_dates \/ (d.runner = r /\ d.parent = p)
    BY <1>2 DEF Due
  <2>8. \A d \in due_dates' : /\ d.runner \in DOMAIN runners_last'
                              /\ d.parent \in DOMAIN alpha' => d.parent = Focus(d.runner)'
    <3>1. ASSUME NEW d \in due_dates
          PROVE  /\ d.runner \in DOMAIN runners_last
                 /\ d.parent \in DOMAIN alpha' => d.parent = Focus(d.runner)'
      BY <2>1, <2>2, <2>4, <2>5, <2>6, <3>1 DEF OneParentEach
    <3> QED
      BY <2>5, <2>6, <2>7, <3>1
  <2>9. \A q \in DOMAIN scheduled_jobs : q \in DOMAIN runners_last
    BY <2>1 DEF Ledger, ScheduledIsDue, OneParentEach, Due
  <2>10. \A q \in DOMAIN scheduled_jobs' :
           runners_last'[q] \in DOMAIN alpha' => scheduled_jobs'[q].parent = runners_last'[q]
    BY <1>1, <2>1, <2>4, <2>5, <2>9 DEF OneParentEach
  <2> QED
    BY <2>4, <2>8, <2>10 DEF OneParentEach
<1>4. ParentsAreJobs'
  BY <1>1, <1>3 DEF Focused, ParentsAreJobs
<1> QED
  BY <1>1, <1>3, <1>4 DEF Focused

(* give_no_job only registers the runner. *)
LEMMA GiveNoJobFocused ==
  ASSUME TypeOK, Ledger, Focused, NEW r \in Runners, give_no_job(r)
  PROVE  Focused'
<1>1. /\ UNCHANGED <<assimilation_cycle, alpha, scheduled_jobs, due_dates, checkpoint>>
      /\ DOMAIN runners_last \subseteq DOMAIN runners_last'
      /\ \A q \in DOMAIN runners_last : runners_last'[q] = runners_last[q]
  BY DEF give_no_job, Registered, Put
<1>2. ParentsAreJobs'
  BY <1>1 DEF Focused, ParentsAreJobs
<1>3. ASSUME OneParentEach PROVE OneParentEach'
  <2>1. \A q \in DOMAIN runners_last : Focus(q)' = Focus(q)
    BY <1>1 DEF Focus
  <2>2. \A q \in DOMAIN scheduled_jobs : q \in DOMAIN runners_last
    BY <1>3 DEF Ledger, ScheduledIsDue, OneParentEach, Due
  <2> QED
    BY <1>1, <1>3, <2>1, <2>2 DEF OneParentEach
<1> QED
  BY <1>1, <1>2, <1>3 DEF Focused

(* A new server follows nobody yet. *)
LEMMA RestartFocused ==
  ASSUME Focused, restart
  PROVE  Focused'
<1>1. ASSUME NEW n, NEW a, StartsWith(n, a), n = 1 \/ DOMAIN a \subseteq Job
      PROVE  Focused'
  <2>1. /\ due_dates' = {} /\ DOMAIN scheduled_jobs' = {} /\ checkpoint' = checkpoint
        /\ assimilation_cycle' = n /\ alpha' = a
    BY <1>1 DEF StartsWith
  <2>2. ParentsAreJobs'
    BY <1>1, <2>1 DEF Focused, ParentsAreJobs
  <2> QED
    BY <2>1, <2>2, NothingToFollow
<1>2. CASE ~ is_restart
  BY <1>1, <1>2 DEF restart
<1>3. CASE is_restart /\ last_assimilation_cycle \in DOMAIN checkpoint
  <2>1. DOMAIN checkpoint[last_assimilation_cycle] \subseteq Job
    BY <1>3 DEF Focused, ParentsAreJobs
  <2> QED
    BY <1>1, <1>3, <2>1 DEF restart
<1>4. CASE Fault("no_checkpoint")
  BY <1>4, FocusLeft DEF Fault
<1> QED
  BY <1>2, <1>3, <1>4 DEF restart

(* The server starts with nothing out. *)
LEMMA InitFocused == Init => Focused
BY DEF Init, Focused, ParentsAreJobs

(* Unless due dates are checked, every step keeps it. *)
LEMMA NextFocused ==
  ASSUME ~ CheckTimeouts, TypeOK, TypeOK', Ledger, Ledger', Focused, [Next]_vars
  PROVE  Focused'
<1>1. ASSUME UNCHANGED <<assimilation_cycle, alpha, scheduled_jobs, runners_last, due_dates, checkpoint>>
      PROVE  Focused'
  BY <1>1, FocusLeft
<1>2. CASE ServerStep
  <2>1. ASSUME NEW r \in Runners,
               handle_general_purpose(r) \/ handle_job_requests(r)
                 \/ ignore_faulty(r) \/ raises(r)
        PROVE  Focused'
    <3>1. CASE accept_weight(r)
      BY <3>1, AcceptWeightFocused
    <3>2. CASE accept_delete(r)
      BY <1>1, <3>2 DEF accept_delete
    <3>3. CASE accept_prefetch(r)
      BY <3>3, AcceptPrefetchFocused
    <3>4. CASE handle_job_requests(r)
      BY <3>4, GiveScheduledJobFocused, GiveNewJobFocused, GiveNoJobFocused DEF handle_job_requests
    <3>5. CASE ignore_faulty(r)
      BY <1>1, <3>5 DEF ignore_faulty, server
    <3>6. CASE raises(r)
      BY <1>1, <3>6 DEF raises, Fault
    <3> QED
      BY <2>1, <3>1, <3>2, <3>3, <3>4, <3>5, <3>6 DEF handle_general_purpose
  <2>2. CASE stop
    BY <1>1, <2>2 DEF stop
  <2>3. ~ check_violations
    BY DEF check_violations
  <2> QED
    BY <1>2, <2>1, <2>2, <2>3 DEF ServerStep
<1>3. ASSUME NEW r \in Runners, RunnerStep(r) PROVE Focused'
  BY <1>1, <1>3, RunnerStepLeavesServer DEF server
<1>4. CASE restart
  BY <1>4, RestartFocused
<1>5. CASE UNCHANGED vars
  BY <1>1, <1>5 DEF vars, server
<1> QED
  BY <1>2, <1>3, <1>4, <1>5 DEF Next

(* A bag has finitely many parents. *)
LEMMA BagIsFinite ==
  ASSUME NEW a, IsParticleBag(a)
  PROVE  IsFiniteSet(DOMAIN a)
<1> DEFINE f == [p \in DOMAIN a |-> <<p, 1>>]
<1>1. \A p \in DOMAIN a : 1 \in 1 .. a[p]
  BY DEF IsParticleBag, IsABag
<1>2. \A p \in DOMAIN a : f[p] \in Members(a)
  BY <1>1 DEF Members
<1>3. f \in Injection(DOMAIN a, Members(a))
  BY <1>2 DEF Injection, IsInjective
<1> QED
  BY <1>3, FS_Injection DEF IsParticleBag

(***************************************************************************)
(* There is a parent for every runner that asks for one: the runners with  *)
(* a job of a parent that waits are apart, and the one that asks works for *)
(* none of them, so that not all parents can have their share.             *)
(***************************************************************************)
LEMMA SomeParent ==
  ASSUME TypeOK, Focused, NEW r \in Runners, r \notin DOMAIN scheduled_jobs, NEW last,
         last = runners_last \/ last = Registered(r), r \in DOMAIN last, NEW cached
  PROVE  ParentChoices(r, last, cached) # {}
<1> DEFINE S == DOMAIN last
           W == [p \in DOMAIN alpha |-> {d.runner : d \in {e \in due_dates : e.parent = p}}]
<1>1. IsParticleBag(alpha) /\ DOMAIN runners_last \subseteq Runners
  BY DEF TypeOK, ServerTypeOK
<1>2. CASE last[r] \in DOMAIN alpha \/ assimilation_cycle = 1 \/ count_members(alpha) = 0
  BY <1>2 DEF ParentChoices, select_good_new_parent
<1>3. ASSUME last[r] \notin DOMAIN alpha, assimilation_cycle # 1, count_members(alpha) # 0
      PROVE  ParentChoices(r, last, cached) # {}
  <2>1. assimilation_cycle > 1 /\ OneParentEach /\ DOMAIN alpha \subseteq Job
    BY <1>3 DEF TypeOK, ServerTypeOK, Focused, ParentsAreJobs
  <2>2. CASE cached \cap DOMAIN alpha # {}
    <3> DEFINE C == cached \cap DOMAIN alpha
    <3>1. IsFiniteSet(C)
      BY <1>1, BagIsFinite, FS_Intersection
    <3>2. Ordered(C)
      BY <2>1 DEF Ordered, Job, State
    <3>3. First(C) # {}
      <4> HIDE DEF C
      <4>1. C # {}
        BY <2>2 DEF C
      <4> QED
        BY <3>1, <3>2, <4>1, FirstExists
    <3> QED
      BY <1>3, <2>2, <3>3 DEF ParentChoices, select_good_new_parent
  <2>3. CASE cached \cap DOMAIN alpha = {}
    <3>1. DOMAIN alpha # {}
      <4>1. Members(alpha) # {}
        BY <1>3, FS_EmptySet DEF count_members
      <4> QED
        BY <4>1, MembersAre
    <3>2. S \subseteq Runners /\ IsFiniteSet(S) /\ r \in S
      <4>1. S \subseteq Runners
        BY <1>1 DEF Registered, Put
      <4> QED
        BY <4>1, RunnersAssumption, FS_Subset
    <3>3. /\ DOMAIN runners_last \subseteq S
          /\ r \in DOMAIN runners_last => last[r] = runners_last[r]
      BY DEF Registered, Put
    <3>4. \A d \in due_dates : d.parent \in DOMAIN alpha =>
            d.runner \in S /\ d.runner # r /\ d.parent = Focus(d.runner)
      <4>1. Focus(r) = runners_last[r]
        BY DEF Focus
      <4> QED
        BY <1>3, <2>1, <3>3, <4>1 DEF OneParentEach
    <3>5. \A p \in DOMAIN alpha : W[p] \in SUBSET (S \ {r})
      BY <3>4
    <3>6. \A p, q \in DOMAIN alpha : p # q => W[p] \cap W[q] = {}
      BY <3>4
    <3>7. PICK p \in DOMAIN alpha :
                 alpha[p] * Cardinality(S) > Cardinality(W[p]) * count_members(alpha)
      <4> HIDE DEF S, W
      <4> QED
        BY <1>1, <3>1, <3>2, <3>5, <3>6, ShareIsLeft
    <3>8. needs_runner(p, count_members(alpha), Cardinality(S))
      BY <3>7 DEF needs_runner, runners_per_parent
    <3> QED
      BY <1>3, <2>3, <3>8 DEF ParentChoices, select_good_new_parent
  <2> QED
    BY <2>2, <2>3
<1> QED
  BY <1>2, <1>3

(***************************************************************************)
(* select_good_new_parent never comes to its last assertion ("should never *)
(* arrive here!") if no due dates are checked: for all runners, particles, *)
(* cycles, deaths and restarts, whatever is reserved and cached.           *)
(***************************************************************************)
THEOREM SomeParentAlways ==
  ASSUME ~ CheckTimeouts
  PROVE  Spec => []AlwaysAParent
<1>1. Init => Focused /\ AlwaysAParent
  BY InitFocused DEF Init, AlwaysAParent
<1>2. ASSUME TypeOK, TypeOK', Ledger, Ledger', Focused, AlwaysAParent, [Next]_vars
      PROVE  Focused' /\ AlwaysAParent'
  <2>1. Focused'
    BY <1>2, NextFocused
  <2>2. ASSUME NEW r \in Runners, raises(r) PROVE AlwaysAParent'
    <3>1. PICK e \in Raised(r) : Fault(e)
      BY <2>2 DEF raises
    <3>2. ASSUME e = "no_parent" PROVE FALSE
      <4>1. \/ gp[r].type = "prefetch" /\ e \in accept_prefetch_raises(r)
            \/ e \in handle_job_requests_raises(r)
        BY <3>1, <3>2 DEF Raised, accept_weight_raises, accept_delete_raises
      <4>2. CASE e \in accept_prefetch_raises(r)
        <5>1. /\ r \in DOMAIN runners_last /\ r \notin DOMAIN scheduled_jobs
              /\ ParentChoices(r, runners_last, gp[r].cached) = {}
          BY <3>2, <4>2 DEF accept_prefetch_raises, Prefetches
        <5> QED
          BY <1>2, <5>1, SomeParent
      <4>3. CASE e \in handle_job_requests_raises(r)
        <5>1. /\ r \notin DOMAIN scheduled_jobs
              /\ ParentChoices(r, Registered(r), CachedBy(r)) = {}
          BY <3>2, <4>3 DEF handle_job_requests_raises
        <5>2. r \in DOMAIN Registered(r)
          BY DEF Registered, Put
        <5> QED
          BY <1>2, <5>1, <5>2, SomeParent
      <4> QED
        BY <4>1, <4>2, <4>3
    <3> QED
      BY <3>1, <3>2 DEF Fault, AlwaysAParent
  <2>3. ASSUME NEW r \in Runners, accept_weight(r) PROVE AlwaysAParent'
    BY <1>2, <2>3 DEF accept_weight, maybe_update, do_update_step, AlwaysAParent
  <2>4. ASSUME stop PROVE AlwaysAParent'
    BY <2>4 DEF stop, AlwaysAParent
  <2>5. ASSUME restart PROVE AlwaysAParent'
    BY <2>5 DEF restart, StartsWith, Fault, AlwaysAParent
  <2>6. ASSUME UNCHANGED status PROVE AlwaysAParent'
    BY <1>2, <2>6 DEF AlwaysAParent
  <2>7. ASSUME ServerStep PROVE AlwaysAParent'
    BY <2>2, <2>3, <2>4, <2>6, <2>7 DEF ServerStep, handle_general_purpose,
       handle_job_requests, accept_delete, accept_prefetch, give_scheduled_job,
       give_new_job, give_no_job, GiveJob, ignore_faulty, check_violations, server
  <2>8. ASSUME NEW r \in Runners, RunnerStep(r) PROVE AlwaysAParent'
    BY <2>6, <2>8, RunnerStepLeavesServer DEF server
  <2>9. ASSUME UNCHANGED vars PROVE AlwaysAParent'
    BY <2>6, <2>9 DEF vars, server
  <2> QED
    BY <1>2, <2>1, <2>5, <2>7, <2>8, <2>9 DEF Next
<1> QED
  BY <1>1, <1>2, TypeCorrect, LedgerBalances, PTL DEF Spec
-----------------------------------------------------------------------------
(***************************************************************************)
(* Parents are one cycle older than the jobs that start from them.         *)
(***************************************************************************)
(* In the first cycle a runner starts from its base state, later from a    *)
(* result of the cycle before.                                             *)
GoodParent(p, r) ==
  IF assimilation_cycle = 1 THEN p = BaseState(r)
  ELSE p \in Job /\ p.t = assimilation_cycle - 1

ParentsPast ==
  /\ \A d \in due_dates : GoodParent(d.parent, d.runner)
  /\ assimilation_cycle = 1 =>
       \A r \in DOMAIN runners_last : runners_last[r] \in {None, BaseState(r)}
  /\ assimilation_cycle > 1 =>
       \A p \in DOMAIN alpha : p \in Job /\ p.t = assimilation_cycle - 1
  /\ \A n \in DOMAIN checkpoint : \A p \in DOMAIN checkpoint[n] : p \in Job /\ p.t = n - 1

(* A step within a cycle that hands out nothing but good parents. *)
LEMMA ParentsStay ==
  ASSUME ParentsPast, UNCHANGED <<assimilation_cycle, checkpoint>>,
         \A d \in due_dates' : d \in due_dates \/ GoodParent(d.parent, d.runner),
         assimilation_cycle > 1 =>
           \A p \in DOMAIN alpha' : p \in DOMAIN alpha \/ (p \in Job /\ p.t = assimilation_cycle - 1),
         assimilation_cycle = 1 =>
           \A r \in DOMAIN runners_last' :
             \/ runners_last'[r] = None \/ GoodParent(runners_last'[r], r)
             \/ r \in DOMAIN runners_last /\ runners_last'[r] = runners_last[r]
  PROVE  ParentsPast'
<1>1. \A d \in due_dates' : GoodParent(d.parent, d.runner)'
  BY DEF ParentsPast, GoodParent
<1>2. assimilation_cycle' = 1 =>
        \A r \in DOMAIN runners_last' : runners_last'[r] \in {None, BaseState(r)}
  BY DEF ParentsPast, GoodParent
<1> QED
  BY <1>1, <1>2 DEF ParentsPast

(* The parent chosen for a runner is a good one. *)
LEMMA ChoiceIsGood ==
  ASSUME TypeOK, ParentsPast, NEW r \in Runners, NEW last, NEW cached,
         assimilation_cycle = 1 => last[r] \in {None, BaseState(r)},
         NEW p \in ParentChoices(r, last, cached), p # None
  PROVE  GoodParent(p, r)
<1>1. CASE assimilation_cycle = 1
  <2>1. last[r] \in DOMAIN alpha => p = BaseState(r)
    BY <1>1 DEF ParentChoices
  <2>2. last[r] \notin DOMAIN alpha => p = BaseState(r)
    BY <1>1 DEF ParentChoices, select_good_new_parent
  <2> QED
    BY <1>1, <2>1, <2>2 DEF GoodParent
<1>2. CASE assimilation_cycle # 1
  <2>1. assimilation_cycle > 1
    BY <1>2 DEF TypeOK, ServerTypeOK
  <2>2. p \in DOMAIN alpha
    BY <2>1, ChoiceKeepsParent
  <2> QED
    BY <1>2, <2>1, <2>2 DEF GoodParent, ParentsPast
<1> QED
  BY <1>1, <1>2

(* accept_weight: the update draws results of the cycle it ends. *)
LEMMA AcceptWeightParents ==
  ASSUME TypeOK, TypeOK', Ledger', ParentsPast, NEW r \in Runners, accept_weight(r)
  PROVE  ParentsPast'
<1>1. UNCHANGED <<scheduled_jobs, runners_last>> /\ due_dates' \subseteq due_dates
  BY DEF accept_weight, WithoutDueDate
<1>2. PICK n : maybe_update(n, state_weights')
  BY DEF accept_weight
<1>3. CASE ReadyForUpdate(n)
  <2> DEFINE D == WeightedIn(state_weights', assimilation_cycle)
  <2>1. state_weights' \subseteq OrderType /\ IsFiniteSet(state_weights')
    BY DEF TypeOK, ServerTypeOK
  <2>2. do_update_step(state_weights') /\ alpha = EmptyBag
    BY <1>2, <1>3 DEF maybe_update, ReadyForUpdate
  <2>3. due_dates' = {}
    BY <2>2, NoneOutAtUpdate
  <2>4. PICK drawn \in Resamplings(D) : alpha' = alpha (+) drawn
    BY <2>2 DEF do_update_step
  <2>5. D \subseteq Job /\ IsFiniteSet(D) /\ \A s \in D : s.t = assimilation_cycle
    BY <2>1, WeightedStates DEF WeightedIn
  <2>6. D \subseteq State
    BY <2>5, JobsAreStates
  <2>7. DOMAIN alpha' \subseteq D
    BY <2>2, <2>4, <2>5, <2>6, Resampled
  <2>8. /\ assimilation_cycle \in Nat \ {0} /\ assimilation_cycle' = assimilation_cycle + 1
        /\ checkpoint' = Put(checkpoint, assimilation_cycle + 1, alpha')
    BY <2>2 DEF do_update_step, CheckpointNumber, TypeOK, ServerTypeOK
  <2>9. \A p \in DOMAIN alpha' : p \in Job /\ p.t = assimilation_cycle' - 1
    BY <2>5, <2>7, <2>8
  <2>10. \A m \in DOMAIN checkpoint' : \A p \in DOMAIN checkpoint'[m] : p \in Job /\ p.t = m - 1
    BY <2>8, <2>9 DEF Put, ParentsPast
  <2>11. assimilation_cycle' # 1
    BY <2>8
  <2> QED
    BY <2>3, <2>8, <2>9, <2>10, <2>11 DEF ParentsPast
<1>4. CASE ~ ReadyForUpdate(n)
  <2>1. UNCHANGED <<assimilation_cycle, alpha, checkpoint>>
    BY <1>2, <1>4 DEF maybe_update
  <2> QED
    BY <1>1, <2>1, ParentsStay
<1> QED
  BY <1>3, <1>4

(* accept_prefetch *)
LEMMA AcceptPrefetchParents ==
  ASSUME TypeOK, ParentsPast, NEW r \in Runners, accept_prefetch(r)
  PROVE  ParentsPast'
<1>0. UNCHANGED <<assimilation_cycle, runners_last, checkpoint>>
  BY DEF accept_prefetch
<1>1. CASE UNCHANGED <<alpha, due_dates>>
  BY <1>0, <1>1, ParentsStay
<1>2. CASE /\ Prefetches(r)
           /\ \E p \in ParentChoices(r, runners_last, gp[r].cached) \ {None} :
                /\ alpha' = Taken(alpha, p)
                /\ due_dates' = due_dates \cup {Due(r, generate_job_id, p)}
  <2>1. PICK p \in ParentChoices(r, runners_last, gp[r].cached) \ {None} :
               /\ alpha' = Taken(alpha, p)
               /\ due_dates' = due_dates \cup {Due(r, generate_job_id, p)}
    BY <1>2
  <2>2. assimilation_cycle > 1 /\ assimilation_cycle # 1
    BY <1>2 DEF Prefetches, TypeOK, ServerTypeOK
  <2>3. GoodParent(p, r)
    BY <2>1, <2>2, ChoiceIsGood
  <2>4. p \in DOMAIN alpha
    BY <2>1, <2>2, ChoiceKeepsParent
  <2>5. DOMAIN alpha' \subseteq DOMAIN alpha
    BY <2>1, <2>4, TakenOne DEF TypeOK, ServerTypeOK
  <2>6. Due(r, generate_job_id, p).runner = r /\ Due(r, generate_job_id, p).parent = p
    BY DEF Due
  <2> QED
    BY <1>0, <2>1, <2>2, <2>3, <2>5, <2>6, ParentsStay
<1> QED
  BY <1>1, <1>2 DEF accept_prefetch

(* handle_job_requests *)
LEMMA HandleJobRequestsParents ==
  ASSUME TypeOK, Ledger, ParentsPast, NEW r \in Runners, handle_job_requests(r)
  PROVE  ParentsPast'
<1>0. UNCHANGED <<assimilation_cycle, checkpoint>>
  BY DEF handle_job_requests, give_scheduled_job, give_new_job, give_no_job, GiveJob
<1>1. /\ \A q \in DOMAIN Registered(r) :
           Registered(r)[q] = None \/ (q \in DOMAIN runners_last /\ Registered(r)[q] = runners_last[q])
      /\ r \in DOMAIN Registered(r)
  BY DEF Registered, Put
<1>2. assimilation_cycle = 1 => Registered(r)[r] \in {None, BaseState(r)}
  BY <1>1 DEF ParentsPast
<1>3. ASSUME NEW p, GoodParent(p, r), runners_last' = Put(Registered(r), r, p),
             \A d \in due_dates' : d \in due_dates \/ d = Due(r, generate_job_id, p),
             assimilation_cycle > 1 => DOMAIN alpha' \subseteq DOMAIN alpha
      PROVE  ParentsPast'
  <2>1. Due(r, generate_job_id, p).runner = r /\ Due(r, generate_job_id, p).parent = p
    BY DEF Due
  <2>2. \A q \in DOMAIN runners_last' :
          \/ q = r /\ runners_last'[q] = p
          \/ q \in DOMAIN Registered(r) /\ runners_last'[q] = Registered(r)[q]
    BY <1>3 DEF Put
  <2> HIDE DEF Registered
  <2>3. \A q \in DOMAIN runners_last' :
          \/ runners_last'[q] = None \/ GoodParent(runners_last'[q], q)
          \/ q \in DOMAIN runners_last /\ runners_last'[q] = runners_last[q]
    BY <1>1, <1>3, <2>2
  <2>4. \A d \in due_dates' : d \in due_dates \/ GoodParent(d.parent, d.runner)
    BY <1>3, <2>1
  <2> QED
    BY <1>0, <1>3, <2>3, <2>4, ParentsStay
<1>4. CASE give_scheduled_job(r)
  <2> DEFINE p == scheduled_jobs[r].parent
  <2>1. /\ r \in DOMAIN scheduled_jobs /\ alpha' = alpha
        /\ runners_last' = Put(Registered(r), r, p)
        /\ due_dates' = WithoutDueDate(r, scheduled_jobs[r].job) \cup {Due(r, generate_job_id, p)}
    BY <1>4 DEF give_scheduled_job, GiveJob, RemoveFromAlpha
  <2>2. Due(r, scheduled_jobs[r].job, p) \in due_dates
    BY <2>1 DEF Ledger, ScheduledIsDue
  <2>3. GoodParent(p, r)
    BY <2>2 DEF ParentsPast, Due
  <2>4. \A d \in due_dates' : d \in due_dates \/ d = Due(r, generate_job_id, p)
    BY <2>1 DEF WithoutDueDate
  <2> HIDE DEF p
  <2> QED
    BY <1>3, <2>1, <2>3, <2>4
<1>5. CASE give_new_job(r)
  <2>1. PICK p \in ParentChoices(r, Registered(r), CachedBy(r)) \ {None} :
               /\ alpha' = RemoveFromAlpha(r, p, Offered(p, Registered(r)[r]))
               /\ runners_last' = Put(Registered(r), r, p)
               /\ due_dates' = due_dates \cup {Due(r, generate_job_id, p)}
    BY <1>5 DEF give_new_job, GiveJob
  <2>2. GoodParent(p, r)
    BY <1>2, <2>1, ChoiceIsGood
  <2>3. ASSUME assimilation_cycle > 1 PROVE DOMAIN alpha' \subseteq DOMAIN alpha
    <3>1. p \in DOMAIN alpha
      BY <2>1, <2>3, ChoiceKeepsParent
    <3>2. alpha' = Taken(alpha, p)
      BY <1>5, <2>1, <2>3 DEF RemoveFromAlpha, Offered, give_new_job
    <3> QED
      BY <3>1, <3>2, TakenOne DEF TypeOK, ServerTypeOK
  <2> QED
    BY <1>3, <2>1, <2>2, <2>3
<1>6. CASE give_no_job(r)
  <2>1. UNCHANGED <<alpha, due_dates>> /\ runners_last' = Registered(r)
    BY <1>6 DEF give_no_job
  <2> HIDE DEF Registered
  <2> QED
    BY <1>0, <1>1, <2>1, ParentsStay
<1> QED
  BY <1>4, <1>5, <1>6 DEF handle_job_requests

(* A parent that timed out waits again. *)
LEMMA CheckViolationsParents ==
  ASSUME TypeOK, ParentsPast, check_violations
  PROVE  ParentsPast'
<1>1. PICK d \in due_dates : /\ alpha' = alpha (+) One(d.parent) /\ due_dates' = due_dates \ {d}
                             /\ runners_last' = IF d.runner \in faulty_runners THEN runners_last
                                                ELSE Del(runners_last, d.runner)
  BY DEF check_violations, AlphaAfterTimeout
<1>2. UNCHANGED <<assimilation_cycle, checkpoint>>
  BY DEF check_violations
<1>3. d.parent \in State /\ IsParticleBag(alpha)
  BY DEF TypeOK, ServerTypeOK, DueDate
<1>4. DOMAIN alpha' = DOMAIN alpha \cup {d.parent}
  BY <1>1, <1>3, AddedOne
<1>5. assimilation_cycle > 1 => d.parent \in Job /\ d.parent.t = assimilation_cycle - 1
  BY DEF ParentsPast, GoodParent
<1>6. \A q \in DOMAIN runners_last' : q \in DOMAIN runners_last /\ runners_last'[q] = runners_last[q]
  BY <1>1 DEF Del
<1> QED
  BY <1>1, <1>2, <1>4, <1>5, <1>6, ParentsStay

(* A new server goes on with a bag that was saved. *)
LEMMA RestartParents ==
  ASSUME ParentsPast, restart
  PROVE  ParentsPast'
<1>1. ASSUME NEW n, NEW a, StartsWith(n, a),
             n = 1 \/ (\A p \in DOMAIN a : p \in Job /\ p.t = n - 1)
      PROVE  ParentsPast'
  <2>1. /\ due_dates' = {} /\ DOMAIN runners_last' = {} /\ checkpoint' = checkpoint
        /\ assimilation_cycle' = n /\ alpha' = a
    BY <1>1 DEF StartsWith
  <2> QED
    BY <1>1, <2>1 DEF ParentsPast
<1>2. CASE ~ is_restart
  BY <1>1, <1>2 DEF restart
<1>3. CASE is_restart /\ last_assimilation_cycle \in DOMAIN checkpoint
  <2>1. \A p \in DOMAIN checkpoint[last_assimilation_cycle] : p \in Job /\ p.t = last_assimilation_cycle - 1
    BY <1>3 DEF ParentsPast
  <2> QED
    BY <1>1, <1>3, <2>1 DEF restart
<1>4. CASE Fault("no_checkpoint")
  BY <1>4, ParentsStay DEF Fault
<1> QED
  BY <1>2, <1>3, <1>4 DEF restart

(* At the start nothing is out. *)
LEMMA InitParents == Init => ParentsPast
BY DEF Init, ParentsPast

(* Every step keeps the parents good. *)
LEMMA NextParents ==
  ASSUME TypeOK, TypeOK', Ledger, Ledger', ParentsPast, [Next]_vars
  PROVE  ParentsPast'
<1>1. ASSUME UNCHANGED <<assimilation_cycle, alpha, runners_last, due_dates, checkpoint>>
      PROVE  ParentsPast'
  BY <1>1, ParentsStay
<1>2. CASE ServerStep
  <2>1. ASSUME NEW r \in Runners,
               handle_general_purpose(r) \/ handle_job_requests(r)
                 \/ ignore_faulty(r) \/ raises(r)
        PROVE  ParentsPast'
    <3>1. CASE accept_weight(r)
      BY <3>1, AcceptWeightParents
    <3>2. CASE accept_delete(r)
      BY <1>1, <3>2 DEF accept_delete
    <3>3. CASE accept_prefetch(r)
      BY <3>3, AcceptPrefetchParents
    <3>4. CASE handle_job_requests(r)
      BY <3>4, HandleJobRequestsParents
    <3>5. CASE ignore_faulty(r)
      BY <1>1, <3>5 DEF ignore_faulty, server
    <3>6. CASE raises(r)
      BY <1>1, <3>6 DEF raises, Fault
    <3> QED
      BY <2>1, <3>1, <3>2, <3>3, <3>4, <3>5, <3>6 DEF handle_general_purpose
  <2>2. CASE stop
    BY <1>1, <2>2 DEF stop
  <2>3. CASE check_violations
    BY <2>3, CheckViolationsParents
  <2> QED
    BY <1>2, <2>1, <2>2, <2>3 DEF ServerStep
<1>3. ASSUME NEW r \in Runners, RunnerStep(r) PROVE ParentsPast'
  BY <1>1, <1>3, RunnerStepLeavesServer DEF server
<1>4. CASE restart
  BY <1>4, RestartParents
<1>5. CASE UNCHANGED vars
  BY <1>1, <1>5 DEF vars, server
<1> QED
  BY <1>2, <1>3, <1>4, <1>5 DEF Next

-----------------------------------------------------------------------------
(***************************************************************************)
(* There is always a state to delete, as long as the cache of a runner is  *)
(* larger than what its due dates may need at once.                        *)
(***************************************************************************)
(* The parents of the jobs that are out with r or reserved for it.         *)
ParentsDue(r) == {d.parent : d \in DueDatesOf(r)}

(* The states r fetches or was told to fetch.                              *)
FetchList(r) ==
  pulls[r]
  \cup (IF gp[r].type = "pull" THEN gp[r].states ELSE {})
  \cup (IF head[r].at = "fetch" THEN {head[r].state} ELSE {})
InCache(r) == held[r] \cup Acked(r) \cup FetchList(r)

(* The parents its application loads or is told to load. *)
ToLoad(r) ==
  ({app[r].parent} \ {None})
  \cup (IF jobs[r].type = "job" THEN {jobs[r].parent} ELSE {})

(* All states r knows of. *)
AllStates(r) == InCache(r) \cup JobsHeld(r) \cup ToLoad(r)

(* A state that was weighted, or is from before this cycle. *)
Weighted(s) == s.t < assimilation_cycle \/ \E w \in state_weights : w.job = s

(* What r keeps is finite, and it asks to delete only if its cache is full *)
(* up to a slot.                                                           *)
SlotsUsed(r) ==
  /\ IsFiniteSet(held[r])
  /\ IsFiniteSet(posted[r]) /\ Cardinality(posted[r]) <= Backlog
  /\ gp[r].type = "delete" => CacheSlots <= Cardinality(held[r]) + 1

(* A runner knows of no base state but its own, and of no other state      *)
(* before it gets a job.                                                   *)
OwnStates(r) ==
  /\ AllStates(r) \subseteq Job \cup {BaseState(r)}
  /\ HadDueDate(r) \/ AllStates(r) \subseteq {BaseState(r)}

(* The job that waits for its parent is due, with that parent. *)
LoadsDue(r) ==
  /\ app[r].parent # None =>
       /\ jobs[r] = Idle
       /\ \E d \in DueDatesOf(r) : d.job = app[r].job /\ d.parent = app[r].parent
  /\ jobs[r].type = "job" =>
       \E d \in DueDatesOf(r) : d.job = jobs[r].job /\ d.parent = jobs[r].parent

(* No state is cached before its weight was reported. *)
CachedLate(r) == \A s \in InCache(r) : Weighted(s)

(* The server hears first of a weight; until then only parents of due jobs *)
(* are cached.                                                             *)
Unheard(r) ==
  r \notin DOMAIN cr =>
    /\ gp[r].type \in {"idle", "weight"}
    /\ head[r] = AfterWeight => gp[r].type = "weight"
    /\ InCache(r) \subseteq ParentsDue(r)

(* All of this, of one runner. *)
Frugal(r) ==
  /\ SlotsUsed(r)
  /\ r \notin faulty_runners =>
       OwnStates(r) /\ LoadsDue(r) /\ CachedLate(r) /\ Unheard(r)

(* Of all runners while the server serves. *)
AllFrugal == Serving => \A r \in Runners : Frugal(r)

(* What a runner may have out at once fits into its cache, with a slot for *)
(* the state to fetch and one to keep free.                                *)
EnoughSlots == Particles + 2 <= CacheSlots \/ Backlog + 4 <= CacheSlots

-----------------------------------------------------------------------------
(* A due date for each job, a parent for each due date. *)
LEMMA ParentsCount ==
  ASSUME TypeOK, DueJobsDistinct, NEW r
  PROVE  /\ IsFiniteSet(ParentsDue(r)) /\ IsFiniteSet(DueDatesOf(r))
         /\ Cardinality(ParentsDue(r)) \in Nat /\ Cardinality(DueDatesOf(r)) \in Nat
         /\ Cardinality(ParentsDue(r)) <= Cardinality(DueDatesOf(r))
         /\ Cardinality(DueDatesOf(r)) <= Cardinality(due_dates)
         /\ IsFiniteSet(JobsDue(r)) => Cardinality(DueDatesOf(r)) <= Cardinality(JobsDue(r))
<1>1. IsFiniteSet(due_dates) /\ DueDatesOf(r) \subseteq due_dates
  BY DEF TypeOK, ServerTypeOK, DueDatesOf
<1>2. /\ IsFiniteSet(DueDatesOf(r)) /\ Cardinality(DueDatesOf(r)) \in Nat
      /\ Cardinality(DueDatesOf(r)) <= Cardinality(due_dates)
  BY <1>1, FS_Subset, FS_CardinalityType
<1>3. /\ IsFiniteSet(ParentsDue(r)) /\ Cardinality(ParentsDue(r)) \in Nat
      /\ Cardinality(ParentsDue(r)) <= Cardinality(DueDatesOf(r))
  <2> DEFINE f == [d \in DueDatesOf(r) |-> d.parent]
  <2>1. f \in Surjection(DueDatesOf(r), ParentsDue(r))
    BY DEF Surjection, ParentsDue
  <2> QED
    BY <1>2, <2>1, FS_Surjection, FS_CardinalityType
<1>4. IsFiniteSet(JobsDue(r)) => Cardinality(DueDatesOf(r)) <= Cardinality(JobsDue(r))
  <2> DEFINE f == [d \in DueDatesOf(r) |-> d.job]
  <2>1. f \in [DueDatesOf(r) -> JobsDue(r)]
    BY DEF JobsDue
  <2>2. \A d, e \in DueDatesOf(r) : f[d] = f[e] => d = e
    BY <1>1 DEF DueJobsDistinct
  <2>3. f \in Injection(DueDatesOf(r), JobsDue(r))
    BY <2>1, <2>2 DEF Injection, IsInjective
  <2> QED
    BY <2>3, FS_Injection
<1> QED
  BY <1>2, <1>3, <1>4

(* A runner has a backlog of jobs, one in its application and one reserved *)
(* for it; and never more than there are particles.                        *)
LEMMA ParentsFit ==
  ASSUME TypeOK, Ledger, NEW r \in Runners, Matched(r), r \notin faulty_runners,
         SlotsUsed(r), gp[r].type # "weight", EnoughSlots
  PROVE  /\ IsFiniteSet(ParentsDue(r)) /\ Cardinality(ParentsDue(r)) \in Nat
         /\ Cardinality(ParentsDue(r)) + 2 <= CacheSlots
         /\ CacheSlots \in Nat /\ CacheSlots > 2
<1>0. /\ Particles \in Nat /\ Particles > 0 /\ CacheSlots \in Nat /\ Backlog \in Nat
  BY ParticlesAssumption, BoundsAssumption
<1>1. /\ IsFiniteSet(ParentsDue(r)) /\ IsFiniteSet(DueDatesOf(r))
      /\ Cardinality(ParentsDue(r)) \in Nat /\ Cardinality(DueDatesOf(r)) \in Nat
      /\ Cardinality(ParentsDue(r)) <= Cardinality(DueDatesOf(r))
      /\ Cardinality(DueDatesOf(r)) <= Cardinality(due_dates)
      /\ IsFiniteSet(JobsDue(r)) => Cardinality(DueDatesOf(r)) <= Cardinality(JobsDue(r))
  BY ParentsCount DEF Ledger
<1>2. Cardinality(due_dates) <= Particles
  <2>1. /\ weights_this_cycle \in Nat /\ stealable_jobs \in Nat /\ IsFiniteSet(due_dates)
        /\ Cardinality(due_dates) \in Nat
        /\ IsParticleBag(alpha) /\ DOMAIN scheduled_jobs \subseteq Runners
    BY FS_CardinalityType DEF TypeOK, ServerTypeOK
  <2>2. count_members(alpha) \in Nat
    BY <2>1, FS_CardinalityType DEF IsParticleBag, count_members
  <2>3. IsFiniteSet(DOMAIN scheduled_jobs) /\ Cardinality(DOMAIN scheduled_jobs) \in Nat
    BY <2>1, RunnersAssumption, FS_Subset, FS_CardinalityType
  <2>4. Cardinality(DOMAIN scheduled_jobs) <= stealable_jobs
    BY <2>1, <2>2, <2>3, FS_EmptySet DEF Ledger, JobsAreBacked
  <2>5. weights_this_cycle + Cardinality(due_dates) + stealable_jobs
          = Particles + Cardinality(DOMAIN scheduled_jobs)
    BY DEF Ledger, JobsConserved
  <2> QED
    BY <1>0, <2>1, <2>3, <2>4, <2>5
<1>3. IsFiniteSet(JobsDue(r)) /\ Cardinality(JobsDue(r)) <= Backlog + 2
  <2> DEFINE x == IF jobs[r] = Idle THEN app[r].job ELSE jobs[r].job
             y == scheduled_jobs[r].job
             P == posted[r]
  <2>1. JobsDue(r) \subseteq (P \cup {x}) \cup {y}
    <3>1. JobsDue(r) = {j \in InHand(r) : j.t > 0} \cup ReservedFor(r)
      BY DEF Matched, Agrees
    <3>2. InHand(r) \subseteq P \cup {x}
      BY DEF InHand, Idle
    <3>3. ReservedFor(r) \subseteq {y}
      BY DEF ReservedFor
    <3> QED
      BY <3>1, <3>2, <3>3
  <2>2. IsFiniteSet(P) /\ Cardinality(P) \in Nat /\ Cardinality(P) <= Backlog
    BY FS_CardinalityType DEF SlotsUsed
  <2> HIDE DEF x, y, P
  <2>3. /\ IsFiniteSet(P \cup {x}) /\ Cardinality(P \cup {x}) \in Nat
        /\ Cardinality(P \cup {x}) <= Backlog + 1
    <3>1. /\ IsFiniteSet(P \cup {x})
          /\ Cardinality(P \cup {x}) = IF x \in P THEN Cardinality(P) ELSE Cardinality(P) + 1
      BY <2>2, FS_AddElement
    <3> QED
      BY <1>0, <2>2, <3>1
  <2> DEFINE Q == P \cup {x}
  <2>4. IsFiniteSet(Q) /\ Cardinality(Q) \in Nat /\ Cardinality(Q) <= Backlog + 1
    BY <2>3
  <2> HIDE DEF Q
  <2>5. /\ IsFiniteSet(Q \cup {y})
        /\ Cardinality(Q \cup {y}) = IF y \in Q THEN Cardinality(Q) ELSE Cardinality(Q) + 1
    BY <2>4, FS_AddElement
  <2>6. Cardinality(Q \cup {y}) \in Nat /\ Cardinality(Q \cup {y}) <= Backlog + 2
    BY <1>0, <2>4, <2>5
  <2>7. JobsDue(r) \in SUBSET (Q \cup {y})
    BY <2>1 DEF Q
  <2>8. /\ IsFiniteSet(JobsDue(r)) /\ Cardinality(JobsDue(r)) \in Nat
         /\ Cardinality(JobsDue(r)) <= Cardinality(Q \cup {y})
    BY <2>5, <2>7, FS_Subset, FS_CardinalityType
  <2> QED
    BY <1>0, <2>6, <2>8
<1>4. Cardinality(JobsDue(r)) \in Nat /\ Cardinality(due_dates) \in Nat
  BY <1>3, FS_CardinalityType DEF TypeOK, ServerTypeOK
<1> QED
  BY <1>0, <1>1, <1>2, <1>3, <1>4 DEF EnoughSlots

(* Base states and results have an order. *)
LEMMA OwnOrdered ==
  ASSUME NEW r \in Runners, NEW S, S \subseteq Job \cup {BaseState(r)}
  PROVE  Ordered(S)
<1>1. \A s \in Job : s \in State /\ s.t # 0 /\ s.id \in Nat
  BY DEF Job, State
<1>2. BaseState(r) \in State /\ BaseState(r).t = 0
  BY JobsAreStates DEF BaseState
<1> HIDE DEF BaseState
<1> QED
  BY <1>1, <1>2 DEF Ordered

(* Some state is chosen from those that no job needs. *)
LEMMA SomethingChosen ==
  ASSUME NEW S, Ordered(S), IsFiniteSet(S), S # {}
  PROVE  DeleteChoices(S) # {}
<1>1. \A T \in SUBSET S : T # {} => First(T) # {}
  <2> SUFFICES ASSUME NEW T \in SUBSET S, T # {} PROVE First(T) # {}
    OBVIOUS
  <2>1. IsFiniteSet(T)
    BY FS_Subset
  <2>2. Ordered(T)
    BY DEF Ordered
  <2> QED
    BY <2>1, <2>2, FirstExists
<1> DEFINE tooOld == {s \in S : s.t < assimilation_cycle - 1}
           notImportant == {s \in S : s.t = assimilation_cycle - 1 /\ s \notin DOMAIN alpha}
           tooNew == {s \in S : s.t = assimilation_cycle}
<1>2. tooOld \in SUBSET S /\ notImportant \in SUBSET S /\ S \in SUBSET S
  OBVIOUS
<1>3. DeleteChoices(S) = IF tooOld # {} THEN First(tooOld)
                         ELSE IF notImportant # {} THEN First(notImportant)
                         ELSE IF tooNew # {} THEN tooNew ELSE First(S)
  BY DEF DeleteChoices
<1> HIDE DEF tooOld, notImportant, tooNew
<1> QED
  BY <1>1, <1>2, <1>3

(* More states are cached than the due dates of the runner need: the jobs  *)
(* themselves are not finished, and in the first cycle all start from one. *)
LEMMA NotAllNeeded ==
  ASSUME TypeOK, Ledger, ParentsPast, NEW r \in Runners, r \notin faulty_runners,
         OwnStates(r), CachedLate(r), IsFiniteSet(held[r]),
         IsFiniteSet(ParentsDue(r)), Cardinality(ParentsDue(r)) < Cardinality(held[r]),
         1 < Cardinality(held[r])
  PROVE  /\ held[r] \ Blacklist(r, held[r]) # {}
         /\ HadDueDate(r)
         /\ \A s : held[r] \ {s} # {}
<1>1. Cardinality(held[r]) \in Nat /\ Cardinality(ParentsDue(r)) \in Nat
  BY FS_CardinalityType
<1>2. \A s : ~ (held[r] \subseteq {s})
  <2> SUFFICES ASSUME NEW s, held[r] \subseteq {s} PROVE FALSE
    OBVIOUS
  <2>1. IsFiniteSet({s}) /\ Cardinality({s}) = 1
    BY FS_Singleton
  <2>2. Cardinality(held[r]) <= Cardinality({s})
    BY <2>1, FS_Subset
  <2> QED
    BY <1>1, <2>1, <2>2
<1>3. HadDueDate(r)
  <2>1. held[r] \subseteq AllStates(r)
    BY DEF AllStates, InCache
  <2> QED
    BY <1>2, <2>1 DEF OwnStates
<1>4. ASSUME NEW d \in DueDatesOf(r) PROVE d.job \notin held[r]
  <2>1. d \in due_dates
    BY DEF DueDatesOf
  <2>2. d.job.t = assimilation_cycle /\ \A w \in state_weights : d.job # w.job
    BY <2>1 DEF Ledger, JobIdsFresh
  <2>3. ~ Weighted(d.job)
    BY <2>2 DEF Weighted, TypeOK, ServerTypeOK
  <2> QED
    BY <2>3 DEF CachedLate, InCache
<1>5. r \in DOMAIN scheduled_jobs => scheduled_jobs[r].parent \in ParentsDue(r)
  <2> SUFFICES ASSUME r \in DOMAIN scheduled_jobs PROVE scheduled_jobs[r].parent \in ParentsDue(r)
    OBVIOUS
  <2>1. Due(r, scheduled_jobs[r].job, scheduled_jobs[r].parent) \in DueDatesOf(r)
    BY DEF Ledger, ScheduledIsDue, DueDatesOf, Due
  <2>2. Due(r, scheduled_jobs[r].job, scheduled_jobs[r].parent).parent = scheduled_jobs[r].parent
    BY DEF Due
  <2> QED
    BY <2>1, <2>2 DEF ParentsDue
<1>6. ASSUME held[r] \subseteq Blacklist(r, held[r]) PROVE FALSE
  <2>1. CASE assimilation_cycle = 1
    <3>1. \A p \in ParentsDue(r) : p = BaseState(r)
      BY <2>1 DEF ParentsDue, DueDatesOf, ParentsPast, GoodParent
    <3>2. \A s \in held[r] : s.t = 0 => s = BaseState(r)
      BY DEF OwnStates, AllStates, InCache, Job
    <3>3. \A s \in held[r] : s \in ParentsDue(r) \/ s.t = 0
      BY <1>4, <1>5, <1>6 DEF Blacklist, ParentsDue
    <3>4. held[r] \subseteq {BaseState(r)}
      BY <3>1, <3>2, <3>3
    <3> QED
      BY <1>2, <3>4
  <2>2. CASE assimilation_cycle # 1
    <3>1. held[r] \subseteq ParentsDue(r)
      BY <1>4, <1>5, <1>6, <2>2 DEF Blacklist, ParentsDue
    <3>2. Cardinality(held[r]) <= Cardinality(ParentsDue(r))
      BY <3>1, FS_Subset
    <3> QED
      BY <1>1, <3>2
  <2> QED
    BY <2>1, <2>2
<1> QED
  BY <1>2, <1>3, <1>6

(* What the server finds when a runner asks what to delete. *)
LEMMA DeleteFinds ==
  ASSUME TypeOK, Ledger, ParentsPast, NEW r \in Runners, Matched(r), Cached(r), Frugal(r),
         r \notin faulty_runners, gp[r].type = "delete", EnoughSlots
  PROVE  /\ r \in DOMAIN cr
         /\ HadDueDate(r)
         /\ DeleteChoices(gp[r].cached \ Blacklist(r, gp[r].cached)) # {}
         /\ \A s : gp[r].cached \ {s} # {}
<1>1. SlotsUsed(r) /\ OwnStates(r) /\ CachedLate(r) /\ Unheard(r)
  BY DEF Frugal
<1>2. gp[r].cached = held[r]
  BY DEF Cached, KnownCached
<1>3. /\ IsFiniteSet(ParentsDue(r)) /\ Cardinality(ParentsDue(r)) \in Nat
      /\ Cardinality(ParentsDue(r)) + 2 <= CacheSlots
      /\ CacheSlots \in Nat /\ CacheSlots > 2
  BY <1>1, ParentsFit
<1>4. /\ IsFiniteSet(held[r]) /\ Cardinality(held[r]) \in Nat
      /\ CacheSlots <= Cardinality(held[r]) + 1
  BY <1>1, FS_CardinalityType DEF SlotsUsed
<1>5. Cardinality(ParentsDue(r)) < Cardinality(held[r]) /\ 1 < Cardinality(held[r])
  BY <1>3, <1>4
<1>6. /\ held[r] \ Blacklist(r, held[r]) # {}
      /\ HadDueDate(r)
      /\ \A s : held[r] \ {s} # {}
  BY <1>1, <1>3, <1>4, <1>5, NotAllNeeded
<1>7. DeleteChoices(held[r] \ Blacklist(r, held[r])) # {}
  <2> DEFINE S == held[r] \ Blacklist(r, held[r])
  <2>1. S \in SUBSET held[r]
    OBVIOUS
  <2>2. IsFiniteSet(S) /\ S # {}
    BY <1>4, <1>6, <2>1, FS_Subset
  <2>3. S \subseteq Job \cup {BaseState(r)}
    BY <1>1, <2>1 DEF OwnStates, AllStates, InCache
  <2>4. Ordered(S)
    BY <2>3, OwnOrdered
  <2> HIDE DEF S
  <2>5. DeleteChoices(S) # {}
    BY <2>2, <2>4, SomethingChosen
  <2> QED
    BY <2>5 DEF S
<1>8. r \in DOMAIN cr
  BY <1>1 DEF Unheard
<1> QED
  BY <1>2, <1>6, <1>7, <1>8

-----------------------------------------------------------------------------
(* What is cached are states. *)
LEMMA CachedStates ==
  ASSUME TypeOK, NEW r \in Runners
  PROVE  InCache(r) \subseteq State
<1>1. /\ gp[r] \in GpMessage /\ held[r] \subseteq State /\ pulls[r] \subseteq State
      /\ head[r] \in {AtRest, AfterWeight} \cup [at : {"fetch"}, state : State]
  BY DEF TypeOK, RunnerTypeOK
<1>2. gp[r].type = "ack" => gp[r].state \in State
  BY <1>1, GpContents
<1>3. gp[r].type = "pull" => gp[r].states \subseteq State
  BY <1>1, GpContents
<1>4. head[r].at = "fetch" => head[r].state \in State
  BY <1>1 DEF AtRest, AfterWeight
<1> QED
  BY <1>1, <1>2, <1>3, <1>4 DEF InCache, Acked, FetchList

(* A runner that a step leaves alone. *)
LEMMA FrugalLeft ==
  ASSUME TypeOK, NEW r \in Runners, Frugal(r),
         gp'[r] = gp[r], jobs'[r] = jobs[r], app'[r] = app[r], posted'[r] = posted[r],
         head'[r] = head[r], held'[r] = held[r], pulls'[r] = pulls[r],
         r \in faulty_runners => r \in faulty_runners',
         \A s \in State : Weighted(s) => Weighted(s)',
         r \notin faulty_runners' =>
           /\ DueDatesOf(r)' = DueDatesOf(r)
           /\ HadDueDate(r) => HadDueDate(r)'
           /\ r \in DOMAIN cr => r \in DOMAIN cr'
  PROVE  Frugal(r)'
<1>1. SlotsUsed(r)'
  BY DEF Frugal, SlotsUsed
<1>2. /\ InCache(r)' = InCache(r) /\ JobsHeld(r)' = JobsHeld(r) /\ ToLoad(r)' = ToLoad(r)
  BY DEF InCache, Acked, FetchList, JobsHeld, ToLoad
<1>3. AllStates(r)' = AllStates(r)
  BY <1>2 DEF AllStates
<1>4. ASSUME r \notin faulty_runners'
      PROVE  OwnStates(r)' /\ LoadsDue(r)' /\ CachedLate(r)' /\ Unheard(r)'
  <2>1. OwnStates(r) /\ LoadsDue(r) /\ CachedLate(r) /\ Unheard(r)
    BY <1>4 DEF Frugal
  <2>2. OwnStates(r)'
    BY <1>3, <1>4, <2>1 DEF OwnStates
  <2>3. LoadsDue(r)'
    BY <1>4, <2>1 DEF LoadsDue
  <2>4. CachedLate(r)'
    BY <1>2, <2>1, CachedStates DEF CachedLate
  <2>5. ParentsDue(r)' = ParentsDue(r)
    BY <1>4 DEF ParentsDue
  <2>6. Unheard(r)'
    BY <1>2, <1>4, <2>1, <2>5 DEF Unheard
  <2> QED
    BY <2>2, <2>3, <2>4, <2>6
<1> QED
  BY <1>1, <1>4 DEF Frugal

(* What was weighted stays so within a server's life. *)
LEMMA WeightedStays ==
  ASSUME TypeOK, assimilation_cycle <= assimilation_cycle', assimilation_cycle' \in Nat,
         state_weights \subseteq state_weights'
  PROVE  \A s \in State : Weighted(s) => Weighted(s)'
<1>1. \A s \in State : s.t \in Nat
  BY DEF State
<1> QED
  BY <1>1 DEF Weighted, TypeOK, ServerTypeOK

(* What a step of the server leaves to the runner it answers: less than    *)
(* before, and states that were weighted.                                  *)
LEMMA FrugalAnswered ==
  ASSUME TypeOK, NEW r \in Runners, Frugal(r), r \notin faulty_runners, NEW new,
         new \subseteq Job \cup {BaseState(r)},
         new # {} => HadDueDate(r)',
         AllStates(r)' \subseteq AllStates(r) \cup new,
         HadDueDate(r) => HadDueDate(r)',
         posted'[r] = posted[r], held'[r] = held[r], gp'[r].type # "delete" \/ gp'[r] = gp[r],
         LoadsDue(r)', CachedLate(r)', Unheard(r)'
  PROVE  Frugal(r)'
<1>1. SlotsUsed(r) /\ OwnStates(r)
  BY DEF Frugal
<1>2. SlotsUsed(r)'
  BY <1>1 DEF SlotsUsed
<1>3. OwnStates(r)'
  <2>1. AllStates(r) \subseteq Job \cup {BaseState(r)}
    BY <1>1 DEF OwnStates
  <2>2. HadDueDate(r)' \/ AllStates(r) \subseteq {BaseState(r)}
    BY <1>1 DEF OwnStates
  <2>3. HadDueDate(r)' \/ AllStates(r)' \subseteq {BaseState(r)}
    BY <2>2
  <2> QED
    BY <2>1, <2>3 DEF OwnStates
<1> QED
  BY <1>2, <1>3 DEF Frugal

(* accept_weight *)
LEMMA AcceptWeightFrugal ==
  ASSUME TypeOK, TypeOK', Dues, NEW r \in Runners, accept_weight(r), UNCHANGED <<restarts, runner>>,
         \A q \in Runners : Frugal(q)
  PROVE  \A q \in Runners : Frugal(q)'
<1>0. /\ UNCHANGED <<scheduled_jobs, runners_last, faulty_runners, jobs, app, posted, head, held, pulls>>
      /\ gp[r].type = "weight" /\ r \notin faulty_runners /\ Serving
      /\ gp \in [Runners -> GpMessage]
  BY DEF accept_weight, runner, Heard, TypeOK, RunnerTypeOK
<1>1. PICK s : /\ s = gp[r].state /\ gp' = [gp EXCEPT ![r] = Ack(s)]
               /\ cr' = Put(cr, r, CachedBy(r) \cup {s})
               /\ \/ s.t = 0 /\ due_dates' = due_dates /\ state_weights' = state_weights
                  \/ \E p : due_dates' = WithoutDueDate(r, s) /\ state_weights' = state_weights \cup {Order(s, p)}
  BY DEF accept_weight, CachedBy
<1>2. /\ assimilation_cycle' \in Nat \ {0} /\ assimilation_cycle \in Nat \ {0}
      /\ assimilation_cycle <= assimilation_cycle'
  <2>1. assimilation_cycle' = assimilation_cycle \/ assimilation_cycle' = assimilation_cycle + 1
    BY DEF accept_weight, maybe_update, do_update_step
  <2> QED
    BY <2>1 DEF TypeOK, ServerTypeOK
<1>3. \A x \in State : Weighted(x) => Weighted(x)'
  BY <1>1, <1>2, WeightedStays
<1>4. gp'[r] = Ack(s) /\ \A q \in Runners : q # r => gp'[q] = gp[q]
  BY <1>0, <1>1
<1>5. gp'[r].type = "ack" /\ gp'[r].state = s
  BY <1>4 DEF Ack
<1>6. /\ \A q \in DOMAIN cr : q \in DOMAIN cr'
      /\ r \in DOMAIN cr'
      /\ \A q : HadDueDate(q)' = HadDueDate(q)
  BY <1>0, <1>1 DEF Put, HadDueDate
<1>7. ASSUME NEW q \in Runners, q # r PROVE Frugal(q)'
  <2>1. DueDatesOf(q)' = DueDatesOf(q)
    BY <1>1, <1>7 DEF DueDatesOf, WithoutDueDate
  <2> QED
    BY <1>0, <1>3, <1>4, <1>6, <1>7, <2>1, FrugalLeft
<1>8. Frugal(r)'
  <2>0. OwnStates(r) /\ LoadsDue(r) /\ CachedLate(r) /\ Unheard(r)
    BY <1>0 DEF Frugal
  <2>1. InCache(r)' = InCache(r) \cup {s}
    BY <1>0, <1>5 DEF InCache, Acked, FetchList
  <2>2. JobsHeld(r)' \subseteq JobsHeld(r) /\ s \in JobsHeld(r) /\ ToLoad(r)' = ToLoad(r)
    BY <1>0, <1>1, <1>5 DEF JobsHeld, ToLoad
  <2>3. AllStates(r)' \subseteq AllStates(r) \cup {}
    BY <2>1, <2>2 DEF AllStates
  <2>4. LoadsDue(r)'
    <3>1. /\ app[r].parent # None => app[r].job # s
          /\ jobs[r].type = "job" => jobs[r].job # s
      BY <1>0, <1>1, <2>0 DEF Dues, Matched, InOnePlace, LoadsDue
    <3>2. \A d \in DueDatesOf(r) : d.job # s => d \in DueDatesOf(r)'
      BY <1>1 DEF DueDatesOf, WithoutDueDate
    <3> QED
      BY <1>0, <2>0, <3>1, <3>2 DEF LoadsDue
  <2>5. CachedLate(r)'
    <3>1. Weighted(s)'
      <4>1. CASE s.t = 0
        BY <1>2, <4>1 DEF Weighted
      <4>2. CASE \E p : state_weights' = state_weights \cup {Order(s, p)}
        <5>1. PICK p : state_weights' = state_weights \cup {Order(s, p)}
          BY <4>2
        <5>2. Order(s, p) \in state_weights' /\ Order(s, p).job = s
          BY <5>1 DEF Order
        <5> QED
          BY <5>2 DEF Weighted
      <4> QED
        BY <1>1, <4>1, <4>2
    <3>2. \A x \in InCache(r) : Weighted(x)'
      BY <1>3, <2>0, CachedStates DEF CachedLate
    <3> QED
      BY <2>1, <3>1, <3>2 DEF CachedLate
  <2>6. Unheard(r)'
    BY <1>6 DEF Unheard
  <2> QED
    BY <1>0, <1>5, <1>6, <2>3, <2>4, <2>5, <2>6, FrugalAnswered
<1> QED
  BY <1>7, <1>8

(* accept_delete: the books still know the runner, since more than the     *)
(* state to delete is cached.                                              *)
LEMMA AcceptDeleteFrugal ==
  ASSUME TypeOK, Ledger, ParentsPast, Dues, EnoughSlots,
         NEW r \in Runners, Cached(r), accept_delete(r), UNCHANGED <<restarts, runner>>,
         \A q \in Runners : Frugal(q)
  PROVE  \A q \in Runners : Frugal(q)'
<1>0. /\ UNCHANGED <<scheduled_jobs, runners_last, faulty_runners, jobs, app, posted, head, held, pulls,
                     due_dates, state_weights, assimilation_cycle>>
      /\ gp[r].type = "delete" /\ r \notin faulty_runners
      /\ gp \in [Runners -> GpMessage]
  BY DEF accept_delete, runner, Heard, TypeOK, RunnerTypeOK
<1>1. PICK s : /\ gp' = [gp EXCEPT ![r] = DeleteReply(s)]
               /\ cr' = CacheAfterDelete(r, gp[r].cached, s)
  BY DEF accept_delete
<1>2. gp[r].cached \ {s} # {}
  BY <1>0, DeleteFinds DEF Dues
<1>3. \A q \in DOMAIN cr : q \in DOMAIN cr'
  BY <1>1, <1>2 DEF CacheAfterDelete, Put
<1>4. gp'[r] = DeleteReply(s) /\ \A q \in Runners : q # r => gp'[q] = gp[q]
  BY <1>0, <1>1
<1>5. gp'[r].type = "deleted"
  BY <1>4 DEF DeleteReply
<1>6. /\ \A q : DueDatesOf(q)' = DueDatesOf(q) /\ HadDueDate(q)' = HadDueDate(q)
      /\ \A s1 \in State : Weighted(s1) => Weighted(s1)'
  BY <1>0 DEF DueDatesOf, HadDueDate, Weighted
<1>7. ASSUME NEW q \in Runners, q # r PROVE Frugal(q)'
  BY <1>0, <1>3, <1>4, <1>6, <1>7, FrugalLeft
<1>8. Frugal(r)'
  <2>0. OwnStates(r) /\ LoadsDue(r) /\ CachedLate(r) /\ Unheard(r)
    BY <1>0 DEF Frugal
  <2>1. InCache(r)' = InCache(r) /\ JobsHeld(r)' = JobsHeld(r) /\ ToLoad(r)' = ToLoad(r)
    BY <1>0, <1>5 DEF InCache, Acked, FetchList, JobsHeld, ToLoad
  <2>2. AllStates(r)' \subseteq AllStates(r) \cup {}
    BY <2>1 DEF AllStates
  <2>3. LoadsDue(r)'
    BY <1>0, <1>6, <2>0 DEF LoadsDue
  <2>4. CachedLate(r)'
    BY <1>6, <2>0, <2>1, CachedStates DEF CachedLate
  <2>5. Unheard(r)'
    BY <1>0, <1>3, <2>0 DEF Unheard
  <2> QED
    BY <1>0, <1>5, <1>6, <2>2, <2>3, <2>4, <2>5, FrugalAnswered
<1> QED
  BY <1>7, <1>8

(* accept_prefetch: the parent it reserves is a result of the last cycle. *)
LEMMA AcceptPrefetchFrugal ==
  ASSUME TypeOK, TypeOK', Ledger', ParentsPast', NEW r \in Runners, accept_prefetch(r),
         UNCHANGED <<restarts, runner>>,
         \A q \in Runners : Frugal(q)
  PROVE  \A q \in Runners : Frugal(q)'
<1>0. /\ UNCHANGED <<runners_last, faulty_runners, jobs, app, posted, head, held, pulls,
                     state_weights, assimilation_cycle>>
      /\ gp[r].type = "prefetch" /\ r \notin faulty_runners /\ r \in DOMAIN cr
      /\ gp \in [Runners -> GpMessage] /\ cr' = Put(cr, r, gp[r].cached)
      /\ assimilation_cycle \in Nat \ {0}
  BY DEF accept_prefetch, runner, Heard, TypeOK, RunnerTypeOK, ServerTypeOK
<1>1. PICK S : /\ gp' = [gp EXCEPT ![r] = PullReply(S)]
               /\ S = IF assimilation_cycle > 1 /\ r \in DOMAIN scheduled_jobs'
                      THEN {scheduled_jobs'[r].parent} \ gp[r].cached ELSE {}
  BY DEF accept_prefetch
<1>2. /\ \A d \in due_dates : d \in due_dates'
      /\ \A d \in due_dates' : d \in due_dates \/ d.runner = r
      /\ \A q \in DOMAIN scheduled_jobs : q \in DOMAIN scheduled_jobs'
  <2>1. \A p : Due(r, generate_job_id, p).runner = r
    BY DEF Due
  <2> QED
    BY <2>1 DEF accept_prefetch, Put
<1>3. gp'[r] = PullReply(S) /\ \A q \in Runners : q # r => gp'[q] = gp[q]
  BY <1>0, <1>1
<1>4. gp'[r].type = "pull" /\ gp'[r].states = S
  BY <1>3 DEF PullReply
<1>5. /\ \A q \in DOMAIN cr : q \in DOMAIN cr'
      /\ r \in DOMAIN cr'
      /\ \A q : HadDueDate(q) => HadDueDate(q)'
  BY <1>0, <1>2 DEF Put, HadDueDate
<1>6. \A s \in State : Weighted(s) => Weighted(s)'
  BY <1>0 DEF Weighted
<1>7. ASSUME NEW q \in Runners, q # r PROVE Frugal(q)'
  <2>1. DueDatesOf(q)' = DueDatesOf(q)
    BY <1>2, <1>7 DEF DueDatesOf
  <2> QED
    BY <1>0, <1>3, <1>5, <1>6, <1>7, <2>1, FrugalLeft
<1>8. \A s \in S : s \in Job /\ s.t < assimilation_cycle /\ HadDueDate(r)'
  <2> SUFFICES ASSUME NEW s \in S PROVE s \in Job /\ s.t < assimilation_cycle /\ HadDueDate(r)'
    OBVIOUS
  <2>1. /\ assimilation_cycle > 1 /\ assimilation_cycle # 1 /\ r \in DOMAIN scheduled_jobs'
        /\ s = scheduled_jobs'[r].parent
    BY <1>0, <1>1
  <2>2. Due(r, scheduled_jobs'[r].job, s) \in due_dates'
    BY <2>1 DEF Ledger, ScheduledIsDue, Due
  <2>3. Due(r, scheduled_jobs'[r].job, s).parent = s
    BY DEF Due
  <2>4. \A d \in due_dates' : d.parent \in Job /\ d.parent.t = assimilation_cycle - 1
    BY <1>0, <2>1 DEF ParentsPast, GoodParent
  <2>5. s \in Job /\ s.t = assimilation_cycle - 1
    BY <2>2, <2>3, <2>4
  <2> QED
    BY <1>0, <2>1, <2>5 DEF HadDueDate
<1>9. Frugal(r)'
  <2>0. OwnStates(r) /\ LoadsDue(r) /\ CachedLate(r) /\ Unheard(r)
    BY <1>0 DEF Frugal
  <2>1. InCache(r)' = InCache(r) \cup S /\ JobsHeld(r)' = JobsHeld(r) /\ ToLoad(r)' = ToLoad(r)
    BY <1>0, <1>4 DEF InCache, Acked, FetchList, JobsHeld, ToLoad
  <2>2. AllStates(r)' \subseteq AllStates(r) \cup S
    BY <2>1 DEF AllStates
  <2>3. LoadsDue(r)'
    <3>1. DueDatesOf(r) \subseteq DueDatesOf(r)'
      BY <1>2 DEF DueDatesOf
    <3> QED
      BY <1>0, <2>0, <3>1 DEF LoadsDue
  <2>4. CachedLate(r)'
    <3>1. \A s \in S : Weighted(s)'
      BY <1>0, <1>8 DEF Weighted
    <3> QED
      BY <1>6, <2>0, <2>1, <3>1, CachedStates DEF CachedLate
  <2>5. Unheard(r)'
    BY <1>5 DEF Unheard
  <2>6. S \subseteq Job \cup {BaseState(r)} /\ (S # {} => HadDueDate(r)')
    BY <1>8
  <2> HIDE DEF HadDueDate
  <2> QED
    BY <1>0, <1>4, <1>5, <2>2, <2>3, <2>4, <2>5, <2>6, FrugalAnswered
<1> QED
  BY <1>7, <1>9

(* A job that is handed out is due, and its parent is a result of the last *)
(* cycle or the runner's base state.                                       *)
LEMMA GiveJobFrugal ==
  ASSUME TypeOK, TypeOK', ParentsPast', NEW r \in Runners, NEW p, NEW kept, p # None,
         jobs[r].type = "request", GiveJob(r, p, kept), r \notin faulty_runners,
         UNCHANGED <<restarts, runner>>,
         kept \subseteq due_dates,
         \A d \in due_dates : d \in kept \/ (d.runner = r /\ d.parent = p),
         \A q \in DOMAIN scheduled_jobs : q = r \/ q \in DOMAIN scheduled_jobs',
         \A q \in Runners : Frugal(q)
  PROVE  \A q \in Runners : Frugal(q)'
<1> DEFINE new == Due(r, generate_job_id, p)
           reply == JobReply(generate_job_id, p, WarmupNSteps)
<1>0. /\ UNCHANGED <<faulty_runners, gp, app, posted, head, held, pulls, cr,
                     state_weights, assimilation_cycle>>
      /\ runners_last' = Put(Registered(r), r, p)
      /\ due_dates' = kept \cup {new}
      /\ jobs' = [jobs EXCEPT ![r] = reply]
      /\ jobs \in [Runners -> JobMessage] /\ jobs' \in [Runners -> JobMessage]
  BY DEF GiveJob, runner, TypeOK, RunnerTypeOK
<1>1. /\ jobs'[r] = reply /\ \A q \in Runners : q # r => jobs'[q] = jobs[q]
      /\ new.job = generate_job_id /\ new.runner = r /\ new.parent = p
      /\ reply.type = "job" /\ reply.job = generate_job_id /\ reply.parent = p
      /\ jobs[r] # Idle /\ jobs[r].type # "job"
  BY <1>0 DEF JobReply, Due, Idle
<1>2. generate_job_id \in Job /\ p \in Job \cup {BaseState(r)}
  <2>1. reply \in JobMessage
    BY <1>0, <1>1
  <2>2. generate_job_id \in Job
    BY <1>1, <2>1, JobContents
  <2>3. new \in due_dates'
    BY <1>0
  <2>4. p = BaseState(r) \/ p \in Job
    BY <1>1, <2>3 DEF ParentsPast, GoodParent
  <2> QED
    BY <2>2, <2>4
<1> HIDE DEF new, reply
<1>3. /\ HadDueDate(r)'
      /\ \A q \in Runners : HadDueDate(q) => HadDueDate(q)'
  <2>1. r \in DOMAIN runners_last' /\ runners_last'[r] = p
    BY <1>0 DEF Put
  <2>2. HadDueDate(r)'
    BY <2>1 DEF HadDueDate
  <2>3. ASSUME NEW q \in Runners, q # r, HadDueDate(q) PROVE HadDueDate(q)'
    <3>1. q \in DOMAIN runners_last => q \in DOMAIN runners_last' /\ runners_last'[q] = runners_last[q]
      BY <1>0, <2>3 DEF Put, Registered
    <3> QED
      BY <2>3, <3>1 DEF HadDueDate
  <2> QED
    BY <2>2, <2>3
<1>4. \A s \in State : Weighted(s) => Weighted(s)'
  BY <1>0 DEF Weighted
<1>5. ASSUME NEW q \in Runners, q # r PROVE Frugal(q)'
  <2>1. DueDatesOf(q)' = DueDatesOf(q)
    BY <1>0, <1>1, <1>5 DEF DueDatesOf
  <2> QED
    BY <1>0, <1>1, <1>3, <1>4, <1>5, <2>1, FrugalLeft
<1>6. Frugal(r)'
  <2>0. OwnStates(r) /\ LoadsDue(r) /\ CachedLate(r) /\ Unheard(r)
    BY DEF Frugal
  <2>1. /\ InCache(r)' = InCache(r)
        /\ JobsHeld(r)' \subseteq JobsHeld(r) \cup {generate_job_id}
        /\ ToLoad(r)' \subseteq ToLoad(r) \cup {p}
    BY <1>0, <1>1 DEF InCache, Acked, FetchList, JobsHeld, ToLoad
  <2>2. AllStates(r)' \subseteq AllStates(r) \cup {generate_job_id, p}
    BY <2>1 DEF AllStates
  <2>3. new \in DueDatesOf(r)'
    BY <1>0, <1>1 DEF DueDatesOf
  <2>4. LoadsDue(r)'
    BY <1>0, <1>1, <2>0, <2>3 DEF LoadsDue
  <2>5. CachedLate(r)'
    BY <1>4, <2>0, <2>1, CachedStates DEF CachedLate
  <2>6. ParentsDue(r) \subseteq ParentsDue(r)'
    <3>1. p \in ParentsDue(r)'
      BY <1>1, <2>3 DEF ParentsDue
    <3>2. \A d \in DueDatesOf(r) : d \in DueDatesOf(r)' \/ d.parent = p
      BY <1>0 DEF DueDatesOf
    <3> QED
      BY <3>1, <3>2 DEF ParentsDue
  <2>7. Unheard(r)'
    BY <1>0, <2>0, <2>1, <2>6 DEF Unheard
  <2>8. {generate_job_id, p} \subseteq Job \cup {BaseState(r)}
    BY <1>2
  <2> QED
    BY <1>0, <1>3, <2>2, <2>4, <2>5, <2>7, <2>8, FrugalAnswered
<1> QED
  BY <1>5, <1>6

(* A reserved job goes out with the parent it was reserved for.            *)
LEMMA HandleJobRequestsFrugal ==
  ASSUME TypeOK, TypeOK', Ledger, ParentsPast', NEW r \in Runners, handle_job_requests(r),
         UNCHANGED <<restarts, runner>>,
         \A q \in Runners : Frugal(q)
  PROVE  \A q \in Runners : Frugal(q)'
<1>1. CASE give_scheduled_job(r)
  <2>1. /\ jobs[r].type = "request" /\ r \notin faulty_runners
        /\ r \in DOMAIN scheduled_jobs /\ scheduled_jobs' = Del(scheduled_jobs, r)
        /\ GiveJob(r, scheduled_jobs[r].parent, WithoutDueDate(r, scheduled_jobs[r].job))
    BY <1>1 DEF give_scheduled_job, AsksForJob, Heard
  <2>2. scheduled_jobs[r].parent # None
    BY <2>1, NoneAssumption DEF TypeOK, ServerTypeOK, OrderType
  <2>3. WithoutDueDate(r, scheduled_jobs[r].job) \subseteq due_dates
    BY DEF WithoutDueDate
  <2>4. ASSUME NEW d \in due_dates, d \notin WithoutDueDate(r, scheduled_jobs[r].job)
        PROVE  d.runner = r /\ d.parent = scheduled_jobs[r].parent
    <3>1. d.runner = r /\ d.job = scheduled_jobs[r].job
      BY <2>4 DEF WithoutDueDate, DueDatesOf
    <3>2. Due(r, scheduled_jobs[r].job, scheduled_jobs[r].parent) \in due_dates
      BY <2>1 DEF Ledger, ScheduledIsDue
    <3>3. /\ Due(r, scheduled_jobs[r].job, scheduled_jobs[r].parent).job = scheduled_jobs[r].job
          /\ Due(r, scheduled_jobs[r].job, scheduled_jobs[r].parent).parent = scheduled_jobs[r].parent
      BY DEF Due
    <3>4. d = Due(r, scheduled_jobs[r].job, scheduled_jobs[r].parent)
      BY <3>1, <3>2, <3>3 DEF Ledger, DueJobsDistinct
    <3> QED
      BY <3>1, <3>3, <3>4
  <2>5. \A q \in DOMAIN scheduled_jobs : q = r \/ q \in DOMAIN scheduled_jobs'
    BY <2>1 DEF Del
  <2> QED
    BY <2>1, <2>2, <2>3, <2>4, <2>5, GiveJobFrugal
<1>2. CASE give_new_job(r)
  <2>1. PICK p : p # None /\ GiveJob(r, p, due_dates)
    BY <1>2 DEF give_new_job
  <2>2. /\ jobs[r].type = "request" /\ r \notin faulty_runners /\ scheduled_jobs' = scheduled_jobs
    BY <1>2 DEF give_new_job, AsksForJob, Heard
  <2> QED
    BY <2>1, <2>2, GiveJobFrugal
<1>3. CASE give_no_job(r)
  <2>0. /\ UNCHANGED <<faulty_runners, gp, app, posted, head, held, pulls, cr, scheduled_jobs,
                       due_dates, state_weights, assimilation_cycle>>
        /\ runners_last' = Registered(r) /\ r \notin faulty_runners
        /\ jobs' = [jobs EXCEPT ![r] = NoJob] /\ jobs[r].type = "request"
        /\ jobs \in [Runners -> JobMessage]
    BY <1>3 DEF give_no_job, AsksForJob, Heard, runner, TypeOK, RunnerTypeOK
  <2>1. /\ \A q : DueDatesOf(q)' = DueDatesOf(q)
        /\ \A q : HadDueDate(q) => HadDueDate(q)'
        /\ \A s \in State : Weighted(s) => Weighted(s)'
    BY <2>0 DEF DueDatesOf, HadDueDate, Weighted, Registered, Put
  <2>2. /\ jobs'[r] = NoJob /\ \A q \in Runners : q # r => jobs'[q] = jobs[q]
        /\ NoJob.type = "none" /\ jobs[r] # Idle
    BY <2>0 DEF NoJob, Idle
  <2>3. ASSUME NEW q \in Runners, q # r PROVE Frugal(q)'
    BY <2>0, <2>1, <2>2, <2>3, FrugalLeft
  <2>4. Frugal(r)'
    <3>0. OwnStates(r) /\ LoadsDue(r) /\ CachedLate(r) /\ Unheard(r)
      BY <2>0 DEF Frugal
    <3>1. /\ InCache(r)' = InCache(r) /\ JobsHeld(r)' \subseteq JobsHeld(r)
          /\ ToLoad(r)' \subseteq ToLoad(r)
      BY <2>0, <2>2 DEF InCache, Acked, FetchList, JobsHeld, ToLoad
    <3>2. AllStates(r)' \subseteq AllStates(r) \cup {}
      BY <3>1 DEF AllStates
    <3>3. LoadsDue(r)'
      BY <2>0, <2>2, <3>0 DEF LoadsDue
    <3>4. CachedLate(r)'
      BY <2>1, <3>0, <3>1, CachedStates DEF CachedLate
    <3>5. Unheard(r)'
      BY <2>0, <2>1, <3>0, <3>1 DEF Unheard, ParentsDue
    <3> QED
      BY <2>0, <2>1, <3>2, <3>3, <3>4, <3>5, FrugalAnswered
  <2> QED
    BY <2>3, <2>4
<1> QED
  BY <1>1, <1>2, <1>3 DEF handle_job_requests

(* What concerns faulty runners concerns no other. *)
LEMMA FaultyFrugal ==
  ASSUME TypeOK, NEW r \in Runners, ignore_faulty(r) \/ check_violations,
         UNCHANGED <<restarts, runner>>,
         \A q \in Runners : Frugal(q)
  PROVE  \A q \in Runners : Frugal(q)'
<1>0. /\ UNCHANGED <<app, posted, head, held, pulls, cr, state_weights, assimilation_cycle>>
      /\ gp \in [Runners -> GpMessage] /\ jobs \in [Runners -> JobMessage]
  BY DEF ignore_faulty, check_violations, server, runner, TypeOK, RunnerTypeOK
<1>1. \A s \in State : Weighted(s) => Weighted(s)'
  BY <1>0 DEF Weighted
<1>2. \A q \in Runners : q \in faulty_runners => q \in faulty_runners'
  BY DEF ignore_faulty, check_violations, server
<1>3. \A q \in Runners : q \notin faulty_runners' =>
        /\ gp'[q] = gp[q] /\ jobs'[q] = jobs[q]
        /\ DueDatesOf(q)' = DueDatesOf(q)
        /\ HadDueDate(q) => HadDueDate(q)'
  <2>1. CASE ignore_faulty(r)
    <3>1. UNCHANGED <<due_dates, scheduled_jobs, runners_last, faulty_runners>> /\ r \in faulty_runners
      BY <2>1 DEF ignore_faulty, server
    <3>2. \A q \in Runners : q # r => gp'[q] = gp[q] /\ jobs'[q] = jobs[q]
      BY <1>0, <2>1 DEF ignore_faulty
    <3> QED
      BY <3>1, <3>2 DEF DueDatesOf, HadDueDate
  <2>2. CASE check_violations
    <3>1. PICK d \in due_dates :
            /\ faulty_runners' = faulty_runners \cup {d.runner}
            /\ scheduled_jobs' = Del(scheduled_jobs, d.runner)
            /\ runners_last' = IF d.runner \in faulty_runners THEN runners_last
                               ELSE Del(runners_last, d.runner)
            /\ due_dates' = due_dates \ {d}
      BY <2>2 DEF check_violations, ScheduledAfterTimeout
    <3>2. UNCHANGED <<gp, jobs>>
      BY <2>2 DEF check_violations, channels
    <3>3. ASSUME NEW q \in Runners, q # d.runner
          PROVE  DueDatesOf(q)' = DueDatesOf(q) /\ (HadDueDate(q) => HadDueDate(q)')
      BY <3>1, <3>3 DEF DueDatesOf, HadDueDate, Del
    <3> QED
      BY <3>1, <3>2, <3>3
  <2> QED
    BY <2>1, <2>2
<1>4. ASSUME NEW q \in Runners, q \notin faulty_runners' PROVE Frugal(q)'
  BY <1>0, <1>1, <1>2, <1>3, <1>4, FrugalLeft
<1>5. ASSUME NEW q \in Runners, q \in faulty_runners' PROVE Frugal(q)'
  <2>1. SlotsUsed(q)
    BY DEF Frugal
  <2>2. gp'[q].type # "delete" \/ gp'[q] = gp[q]
    <3>1. CASE ignore_faulty(r)
      <4>1. gp[r].type \in {"weight", "delete", "prefetch"} => EmptyReply(gp[r]).type # "delete"
        BY DEF EmptyReply, Ack, Empty, PullReply
      <4> QED
        BY <1>0, <3>1, <4>1 DEF ignore_faulty
    <3>2. CASE check_violations
      BY <3>2 DEF check_violations, channels
    <3> QED
      BY <3>1, <3>2
  <2>3. SlotsUsed(q)'
    BY <1>0, <2>1, <2>2 DEF SlotsUsed
  <2> QED
    BY <1>5, <2>3 DEF Frugal
<1> QED
  BY <1>4, <1>5

-----------------------------------------------------------------------------
(* What a runner does to its own cache and messages. *)
LEMMA SlotsStayUsed ==
  ASSUME TypeOK, NEW r \in Runners, SlotsUsed(r),
         StartRunner(r) \/ RunnerDies(r) \/ AppStep(r) \/ HeadStep(r)
  PROVE  SlotsUsed(r)'
<1>0. /\ gp \in [Runners -> GpMessage] /\ held \in [Runners -> SUBSET State]
      /\ posted \in [Runners -> SUBSET State]
      /\ Backlog \in Nat /\ CacheSlots \in Nat
  BY BoundsAssumption DEF TypeOK, RunnerTypeOK
<1>1. /\ IsFiniteSet(held[r]) /\ Cardinality(held[r]) \in Nat
      /\ IsFiniteSet(posted[r]) /\ Cardinality(posted[r]) \in Nat /\ Cardinality(posted[r]) <= Backlog
      /\ gp[r].type = "delete" => CacheSlots <= Cardinality(held[r]) + 1
  BY FS_CardinalityType DEF SlotsUsed
<1>2. CASE StartRunner(r) \/ RunnerDies(r) \/ Load(r) \/ ReadJob(r) \/ StartFetch(r)
  <2>1. UNCHANGED <<gp, posted, held>>
    BY <1>2 DEF StartRunner, RunnerDies, Load, ReadJob, StartFetch, channels
  <2> QED
    BY <2>1, <1>1 DEF SlotsUsed
<1>3. CASE Expose(r)
  <2>1. /\ UNCHANGED <<gp, held>> /\ Cardinality(posted[r]) < Backlog
        /\ posted'[r] = posted[r] \cup {app[r].job}
    BY <1>0, <1>3 DEF Expose
  <2>2. /\ IsFiniteSet(posted[r] \cup {app[r].job})
        /\ Cardinality(posted[r] \cup {app[r].job})
             = IF app[r].job \in posted[r] THEN Cardinality(posted[r]) ELSE Cardinality(posted[r]) + 1
    BY <1>1, FS_AddElement
  <2>3. Cardinality(posted[r] \cup {app[r].job}) <= Backlog
    BY <1>0, <1>1, <2>1, <2>2
  <2> QED
    BY <1>1, <2>1, <2>2, <2>3 DEF SlotsUsed
<1>4. CASE PushWeight(r)
  <2>1. PICK s \in posted[r] : /\ UNCHANGED held /\ gp' = [gp EXCEPT ![r] = WeightMsg(s)]
                               /\ posted' = [posted EXCEPT ![r] = @ \ {s}]
    BY <1>4 DEF PushWeight
  <2>2. gp'[r].type # "delete" /\ posted'[r] \in SUBSET posted[r]
    BY <1>0, <2>1 DEF WeightMsg
  <2>3. /\ IsFiniteSet(posted'[r]) /\ Cardinality(posted'[r]) \in Nat
        /\ Cardinality(posted'[r]) <= Cardinality(posted[r])
    BY <1>1, <2>2, FS_Subset, FS_CardinalityType
  <2>4. Cardinality(posted'[r]) <= Backlog
    BY <1>0, <1>1, <2>3
  <2> QED
    BY <1>1, <2>1, <2>2, <2>3, <2>4 DEF SlotsUsed
<1>5. CASE AskDelete(r)
  <2>1. UNCHANGED <<held, posted>> /\ Free(r) <= 1
    BY <1>0, <1>1, <1>5 DEF AskDelete, runner, Free
  <2>2. CacheSlots <= Cardinality(held[r]) + 1
    BY <1>0, <1>1, <2>1 DEF Free
  <2> QED
    BY <1>1, <2>1, <2>2 DEF SlotsUsed
<1>6. CASE AskPrefetch(r)
  <2>1. UNCHANGED <<held, posted>> /\ gp'[r].type # "delete"
    BY <1>0, <1>6 DEF AskPrefetch, runner, PrefetchMsg
  <2> QED
    BY <1>1, <2>1 DEF SlotsUsed
<1>7. CASE ReadReply(r)
  <2>1. UNCHANGED posted /\ gp'[r].type # "delete"
    BY <1>0, <1>7 DEF ReadReply, Idle
  <2>2. \/ held'[r] = held[r] \/ held'[r] = held[r] \cup {gp[r].state}
        \/ held'[r] = held[r] \ {gp[r].state}
    BY <1>0, <1>7 DEF ReadReply
  <2>3. IsFiniteSet(held[r] \cup {gp[r].state}) /\ IsFiniteSet(held[r] \ {gp[r].state})
    BY <1>1, FS_AddElement, FS_RemoveElement
  <2> QED
    BY <1>1, <2>1, <2>2, <2>3 DEF SlotsUsed
<1>8. CASE FinishFetch(r)
  <2>1. UNCHANGED <<gp, posted>> /\ gp[r] = Idle /\ held'[r] = held[r] \cup {head[r].state}
    BY <1>0, <1>8 DEF FinishFetch, HeadReady, channels
  <2>2. IsFiniteSet(held[r] \cup {head[r].state})
    BY <1>1, FS_AddElement
  <2>3. gp'[r].type # "delete"
    BY <2>1 DEF Idle
  <2> QED
    BY <1>1, <2>1, <2>2, <2>3 DEF SlotsUsed
<1> QED
  BY <1>2, <1>3, <1>4, <1>5, <1>6, <1>7, <1>8 DEF AppStep, HeadStep

(* States move from one place to another; the application's parent is      *)
(* fetched.                                                                *)
LEMMA StatesMove ==
  ASSUME TypeOK, NEW r \in Runners,
         StartRunner(r) \/ RunnerDies(r) \/ AppStep(r) \/ HeadStep(r)
  PROVE  /\ AllStates(r)' \subseteq AllStates(r)
         /\ InCache(r)' \subseteq InCache(r) \cup ({app[r].parent} \ {None})
<1>0. /\ gp \in [Runners -> GpMessage] /\ jobs \in [Runners -> JobMessage]
      /\ app \in [Runners -> [job : State, parent : State \cup {None}]]
      /\ posted \in [Runners -> SUBSET State]
      /\ head \in [Runners -> {AtRest, AfterWeight} \cup [at : {"fetch"}, state : State]]
      /\ held \in [Runners -> SUBSET State] /\ pulls \in [Runners -> SUBSET State]
  BY DEF TypeOK, RunnerTypeOK
<1>1. ASSUME InCache(r)' \subseteq InCache(r) \cup ToLoad(r),
             JobsHeld(r)' \subseteq JobsHeld(r), ToLoad(r)' \subseteq ToLoad(r)
      PROVE  AllStates(r)' \subseteq AllStates(r)
  BY <1>1 DEF AllStates
<1>2. CASE StartRunner(r) \/ RunnerDies(r)
  <2>1. UNCHANGED <<gp, jobs, app, posted, head, held, pulls>>
    BY <1>2 DEF StartRunner, RunnerDies, channels
  <2>2. /\ InCache(r)' = InCache(r) /\ JobsHeld(r)' = JobsHeld(r) /\ ToLoad(r)' = ToLoad(r)
    BY <2>1 DEF InCache, Acked, FetchList, JobsHeld, ToLoad
  <2> QED
    BY <1>1, <2>2
<1>3. CASE Load(r)
  <2>1. /\ UNCHANGED <<gp, jobs, posted, head, held, pulls>>
        /\ app'[r].job = app[r].job /\ app'[r].parent = None
    BY <1>0, <1>3 DEF Load, channels
  <2>2. InCache(r)' = InCache(r) /\ JobsHeld(r)' = JobsHeld(r)
    BY <2>1 DEF InCache, Acked, FetchList, JobsHeld
  <2>3. ToLoad(r)' \subseteq ToLoad(r)
    BY <2>1 DEF ToLoad
  <2> QED
    BY <1>1, <2>2, <2>3
<1>4. CASE Expose(r)
  <2>1. /\ UNCHANGED <<gp, app, head, held, pulls>>
        /\ posted'[r] = posted[r] \cup {app[r].job} /\ jobs'[r].type # "job"
    BY <1>0, <1>4 DEF Expose, JobRequest
  <2>2. InCache(r)' = InCache(r)
    BY <2>1 DEF InCache, Acked, FetchList
  <2>3. JobsHeld(r)' \subseteq JobsHeld(r)
    BY <2>1 DEF JobsHeld
  <2>4. ToLoad(r)' \subseteq ToLoad(r)
    BY <2>1 DEF ToLoad
  <2> QED
    BY <1>1, <2>2, <2>3, <2>4
<1>5. CASE ReadJob(r)
  <2>1. UNCHANGED <<gp, posted, head, held, pulls>> /\ jobs'[r].type # "job"
    BY <1>0, <1>5 DEF ReadJob, JobRequest, Idle
  <2>2. \/ app'[r] = app[r]
        \/ /\ jobs[r].type = "job" /\ app'[r].job = jobs[r].job
           /\ app'[r].parent \in {None, jobs[r].parent}
    BY <1>0, <1>5 DEF ReadJob, Order
  <2>3. InCache(r)' = InCache(r)
    BY <2>1 DEF InCache, Acked, FetchList
  <2>4. JobsHeld(r)' \subseteq JobsHeld(r)
    BY <2>1, <2>2 DEF JobsHeld
  <2>5. ToLoad(r)' \subseteq ToLoad(r)
    BY <2>1, <2>2 DEF ToLoad
  <2> QED
    BY <1>1, <2>3, <2>4, <2>5
<1>6. CASE PushWeight(r)
  <2>1. PICK s \in posted[r] : /\ UNCHANGED <<jobs, app, held, pulls>> /\ gp[r] = Idle
                               /\ gp' = [gp EXCEPT ![r] = WeightMsg(s)]
                               /\ posted' = [posted EXCEPT ![r] = @ \ {s}]
                               /\ head' = [head EXCEPT ![r] = AfterWeight]
    BY <1>6 DEF PushWeight, HeadReady
  <2>2. /\ gp'[r].type = "weight" /\ gp'[r].state = s /\ posted'[r] \subseteq posted[r]
        /\ head'[r].at # "fetch"
    BY <1>0, <2>1 DEF WeightMsg, AfterWeight
  <2>3. InCache(r)' \subseteq InCache(r)
    BY <2>1, <2>2 DEF InCache, Acked, FetchList
  <2>4. JobsHeld(r)' \subseteq JobsHeld(r) /\ ToLoad(r)' = ToLoad(r)
    BY <2>1, <2>2 DEF JobsHeld, ToLoad
  <2> QED
    BY <1>1, <2>3, <2>4
<1>7. CASE AskDelete(r) \/ AskPrefetch(r)
  <2>1. /\ UNCHANGED <<jobs, app, posted, head, held, pulls>>
        /\ gp'[r].type \in {"delete", "prefetch"}
    BY <1>0, <1>7 DEF AskDelete, AskPrefetch, runner, DeleteMsg, PrefetchMsg
  <2>2. InCache(r)' \subseteq InCache(r)
    BY <2>1 DEF InCache, Acked, FetchList
  <2>3. JobsHeld(r)' \subseteq JobsHeld(r) /\ ToLoad(r)' = ToLoad(r)
    BY <2>1 DEF JobsHeld, ToLoad
  <2> QED
    BY <1>1, <2>2, <2>3
<1>8. CASE ReadReply(r)
  <2>1. /\ UNCHANGED <<jobs, app, posted>> /\ gp'[r].type = "idle"
        /\ held'[r] \subseteq held[r] \cup Acked(r)
        /\ pulls'[r] \subseteq pulls[r] \cup (IF gp[r].type = "pull" THEN gp[r].states ELSE {})
        /\ head'[r] = head[r] \/ head'[r].at # "fetch"
    BY <1>0, <1>8 DEF ReadReply, Idle, Acked, AtRest
  <2>2. InCache(r)' \subseteq InCache(r)
    BY <2>1 DEF InCache, Acked, FetchList
  <2>3. JobsHeld(r)' \subseteq JobsHeld(r) /\ ToLoad(r)' = ToLoad(r)
    BY <2>1 DEF JobsHeld, ToLoad
  <2> QED
    BY <1>1, <2>2, <2>3
<1>9. CASE StartFetch(r)
  <2>1. /\ UNCHANGED <<gp, jobs, app, posted, held>> /\ pulls'[r] \subseteq pulls[r]
        /\ \/ head'[r] = head[r] /\ head[r] = AtRest
           \/ /\ app[r].parent # None
              /\ head'[r] = Fetching(app[r].parent)
           \/ \E s \in pulls[r] : head'[r] = Fetching(s)
    BY <1>0, <1>9 DEF StartFetch, channels
  <2>2. InCache(r)' \subseteq InCache(r) \cup ({app[r].parent} \ {None})
    <3>1. \/ head'[r] = head[r]
          \/ head'[r].at = "fetch" /\ head'[r].state \in pulls[r] \cup ({app[r].parent} \ {None})
      <4>1. \A s : Fetching(s).at = "fetch" /\ Fetching(s).state = s
        BY DEF Fetching
      <4> QED
        BY <2>1, <4>1
    <3> QED
      BY <2>1, <3>1 DEF InCache, Acked, FetchList
  <2>3. JobsHeld(r)' \subseteq JobsHeld(r) /\ ToLoad(r)' = ToLoad(r)
    BY <2>1 DEF JobsHeld, ToLoad
  <2>4. {app[r].parent} \ {None} \subseteq ToLoad(r)
    BY DEF ToLoad
  <2> QED
    BY <1>1, <2>2, <2>3, <2>4
<1>10. CASE FinishFetch(r)
  <2>1. /\ UNCHANGED <<gp, jobs, app, posted, pulls>> /\ head[r].at = "fetch"
        /\ held'[r] = held[r] \cup {head[r].state} /\ head'[r].at # "fetch"
    BY <1>0, <1>10 DEF FinishFetch, channels, AtRest
  <2>2. InCache(r)' \subseteq InCache(r)
    BY <2>1 DEF InCache, Acked, FetchList
  <2>3. JobsHeld(r)' \subseteq JobsHeld(r) /\ ToLoad(r)' = ToLoad(r)
    BY <2>1 DEF JobsHeld, ToLoad
  <2> QED
    BY <1>1, <2>2, <2>3
<1> QED
  BY <1>2, <1>3, <1>4, <1>5, <1>6, <1>7, <1>8, <1>9, <1>10 DEF AppStep, HeadStep

(* The parent an application waits for is one of those that are due. *)
LEMMA LoadedIsDue ==
  ASSUME NEW r \in Runners, LoadsDue(r), app[r].parent # None
  PROVE  app[r].parent \in ParentsDue(r)
BY DEF LoadsDue, ParentsDue

(* An order comes from a due date and stays with its job. *)
LEMMA LoadsStayDue ==
  ASSUME TypeOK, NEW r \in Runners, LoadsDue(r), UNCHANGED server,
         StartRunner(r) \/ RunnerDies(r) \/ AppStep(r) \/ HeadStep(r)
  PROVE  LoadsDue(r)'
<1>0. /\ jobs \in [Runners -> JobMessage]
      /\ app \in [Runners -> [job : State, parent : State \cup {None}]]
      /\ DueDatesOf(r)' = DueDatesOf(r)
  BY DEF TypeOK, RunnerTypeOK, server, DueDatesOf
<1>1. CASE StartRunner(r) \/ RunnerDies(r) \/ HeadStep(r)
  <2>1. UNCHANGED <<jobs, app>>
    BY <1>1 DEF StartRunner, RunnerDies, HeadStep, PushWeight, AskDelete, AskPrefetch, ReadReply,
                StartFetch, FinishFetch, channels, runner
  <2> QED
    BY <1>0, <2>1 DEF LoadsDue
<1>2. CASE Load(r)
  <2>1. UNCHANGED jobs /\ app'[r].parent = None
    BY <1>0, <1>2 DEF Load, channels
  <2> QED
    BY <1>0, <2>1 DEF LoadsDue
<1>3. CASE Expose(r)
  <2>1. app' = app /\ app[r].parent = None /\ jobs'[r] = JobRequest
    BY <1>0, <1>3 DEF Expose
  <2> QED
    BY <1>0, <2>1 DEF LoadsDue, JobRequest
<1>4. CASE ReadJob(r)
  <2>1. CASE jobs[r].type = "none"
    <3>1. app' = app /\ jobs'[r] = JobRequest
      BY <1>0, <1>4, <2>1 DEF ReadJob
    <3>2. app[r].parent = None
      BY <2>1 DEF LoadsDue, Idle
    <3> QED
      BY <1>0, <3>1, <3>2 DEF LoadsDue, JobRequest
  <2>2. CASE jobs[r].type = "job"
    <3>1. /\ jobs'[r] = Idle /\ app'[r].job = jobs[r].job
          /\ app'[r].parent \in {None, jobs[r].parent}
      BY <1>0, <1>4, <2>2 DEF ReadJob, Order
    <3>2. \E d \in DueDatesOf(r) : d.job = jobs[r].job /\ d.parent = jobs[r].parent
      BY <2>2 DEF LoadsDue
    <3> QED
      BY <1>0, <3>1, <3>2 DEF LoadsDue, Idle
  <2> QED
    BY <1>4, <2>1, <2>2 DEF ReadJob
<1> QED
  BY <1>1, <1>2, <1>3, <1>4 DEF AppStep

(* A runner reports a weight before it asks for anything: what it fetches  *)
(* until then leaves two slots free.                                       *)
LEMMA StaysUnheard ==
  ASSUME TypeOK, Ledger, NEW r \in Runners, Matched(r), EnoughSlots, r \notin faulty_runners,
         SlotsUsed(r), LoadsDue(r), Unheard(r), UNCHANGED server,
         StartRunner(r) \/ RunnerDies(r) \/ AppStep(r) \/ HeadStep(r)
  PROVE  Unheard(r)'
<1>0. /\ gp \in [Runners -> GpMessage]
      /\ head \in [Runners -> {AtRest, AfterWeight} \cup [at : {"fetch"}, state : State]]
      /\ ParentsDue(r)' = ParentsDue(r) /\ cr' = cr
  BY DEF TypeOK, RunnerTypeOK, server, DueDatesOf, ParentsDue
<1>1. SUFFICES ASSUME r \notin DOMAIN cr
               PROVE  /\ gp'[r].type \in {"idle", "weight"}
                      /\ head'[r] = AfterWeight => gp'[r].type = "weight"
                      /\ InCache(r)' \subseteq ParentsDue(r)
  BY <1>0 DEF Unheard
<1>2. /\ gp[r].type \in {"idle", "weight"} /\ (head[r] = AfterWeight => gp[r].type = "weight")
      /\ InCache(r) \subseteq ParentsDue(r)
  BY <1>1 DEF Unheard
<1>3. InCache(r)' \subseteq ParentsDue(r)
  BY <1>2, StatesMove, LoadedIsDue
<1>4. CASE StartRunner(r) \/ RunnerDies(r) \/ AppStep(r)
  <2>1. UNCHANGED <<gp, head>>
    BY <1>4 DEF StartRunner, RunnerDies, AppStep, Load, Expose, ReadJob, channels
  <2> QED
    BY <1>2, <1>3, <2>1
<1>5. CASE PushWeight(r)
  <2>1. gp'[r].type = "weight"
    BY <1>0, <1>5 DEF PushWeight, WeightMsg
  <2> QED
    BY <1>3, <2>1
<1>6. CASE AskDelete(r)
  <2>1. gp[r].type # "weight" /\ Free(r) <= 1
    <3>1. gp[r] = Idle
      BY <1>6 DEF AskDelete, HeadReady
    <3>2. Free(r) <= 1
      BY <1>6 DEF AskDelete
    <3> QED
      BY <3>1, <3>2 DEF Idle
  <2>2. /\ IsFiniteSet(ParentsDue(r)) /\ Cardinality(ParentsDue(r)) \in Nat
        /\ Cardinality(ParentsDue(r)) + 2 <= CacheSlots /\ CacheSlots \in Nat
    BY <2>1, ParentsFit
  <2>3. Cardinality(held[r]) \in Nat /\ Cardinality(held[r]) <= Cardinality(ParentsDue(r))
    <3>1. held[r] \in SUBSET ParentsDue(r)
      BY <1>2 DEF InCache
    <3>2. IsFiniteSet(held[r])
      BY DEF SlotsUsed
    <3> QED
      BY <2>2, <3>1, <3>2, FS_Subset, FS_CardinalityType
  <2> QED
    BY <2>1, <2>2, <2>3 DEF Free
<1>7. CASE AskPrefetch(r)
  <2>1. gp[r] = Idle /\ head[r] = AfterWeight
    BY <1>0, <1>7 DEF AskPrefetch, HeadReady, AtRest
  <2> QED
    BY <1>2, <2>1 DEF Idle
<1>8. CASE ReadReply(r)
  BY <1>2, <1>8 DEF ReadReply
<1>9. CASE StartFetch(r) \/ FinishFetch(r)
  <2>1. gp' = gp /\ gp[r] = Idle
    BY <1>9 DEF StartFetch, FinishFetch, HeadReady, channels
  <2>2. head'[r] # AfterWeight
    <3>1. AtRest # AfterWeight /\ \A s : Fetching(s) # AfterWeight
      BY DEF AtRest, AfterWeight, Fetching
    <3>2. head'[r] = AtRest \/ \E s : head'[r] = Fetching(s)
      BY <1>0, <1>9 DEF StartFetch, FinishFetch
    <3> QED
      BY <3>1, <3>2
  <2> QED
    BY <1>2, <1>3, <2>1, <2>2
<1> QED
  BY <1>4, <1>5, <1>6, <1>7, <1>8, <1>9 DEF HeadStep

(* What a runner does keeps its cache within bounds. *)
LEMMA RunnerStepFrugal ==
  ASSUME TypeOK, Ledger, ParentsPast, Dues, EnoughSlots, NEW r \in Runners, RunnerStep(r),
         \A q \in Runners : Frugal(q)
  PROVE  \A q \in Runners : Frugal(q)'
<1>0. UNCHANGED server
  BY RunnerStepLeavesServer
<1>1. StartRunner(r) \/ RunnerDies(r) \/ AppStep(r) \/ HeadStep(r)
  BY DEF RunnerStep
<1>2. /\ \A s \in State : Weighted(s)' = Weighted(s)
      /\ \A q \in Runners : /\ DueDatesOf(q)' = DueDatesOf(q)
                            /\ HadDueDate(q)' = HadDueDate(q)
      /\ cr' = cr /\ faulty_runners' = faulty_runners
  BY <1>0 DEF server, Weighted, DueDatesOf, HadDueDate
<1>3. ASSUME NEW q \in Runners, q # r PROVE Frugal(q)'
  <2>1. /\ gp'[q] = gp[q] /\ jobs'[q] = jobs[q] /\ app'[q] = app[q] /\ posted'[q] = posted[q]
        /\ head'[q] = head[q] /\ held'[q] = held[q] /\ pulls'[q] = pulls[q]
    BY <1>1, <1>3 DEF TypeOK, RunnerTypeOK, StartRunner, RunnerDies, AppStep, HeadStep, Load, Expose,
       ReadJob, PushWeight, AskDelete, AskPrefetch, ReadReply, StartFetch, FinishFetch, channels, runner
  <2>2. Frugal(q)
    OBVIOUS
  <2> QED
    BY <1>2, <2>1, <2>2, FrugalLeft
<1>4. Frugal(r)'
  <2>1. Frugal(r)
    OBVIOUS
  <2>2. SlotsUsed(r)'
    BY <1>1, <2>1, SlotsStayUsed DEF Frugal
  <2>3. ASSUME r \notin faulty_runners
        PROVE  OwnStates(r)' /\ LoadsDue(r)' /\ CachedLate(r)' /\ Unheard(r)'
    <3>1. SlotsUsed(r) /\ OwnStates(r) /\ LoadsDue(r) /\ CachedLate(r) /\ Unheard(r)
      BY <2>1, <2>3 DEF Frugal
    <3>2. /\ AllStates(r)' \subseteq AllStates(r)
          /\ InCache(r)' \subseteq InCache(r) \cup ({app[r].parent} \ {None})
      BY <1>1, StatesMove
    <3>3. OwnStates(r)'
      BY <1>2, <3>1, <3>2 DEF OwnStates
    <3>4. LoadsDue(r)'
      BY <1>0, <1>1, <3>1, LoadsStayDue
    <3>5. CachedLate(r)'
      <4>1. InCache(r) \subseteq State
        BY CachedStates
      <4>2. ASSUME app[r].parent # None PROVE app[r].parent \in State /\ Weighted(app[r].parent)
        <5>1. PICK d \in DueDatesOf(r) : d.parent = app[r].parent
          BY <3>1, <4>2 DEF LoadsDue
        <5>2. GoodParent(d.parent, r)
          BY <5>1 DEF DueDatesOf, ParentsPast
        <5>3. d.parent.t < assimilation_cycle
          BY <5>2 DEF GoodParent, BaseState, TypeOK, ServerTypeOK
        <5>4. app[r].parent \in State
          BY <4>2 DEF TypeOK, RunnerTypeOK
        <5> QED
          BY <5>1, <5>3, <5>4 DEF Weighted
      <4> QED
        BY <1>2, <3>1, <3>2, <4>1, <4>2 DEF CachedLate
    <3>6. Unheard(r)'
      BY <1>0, <1>1, <2>3, <3>1, StaysUnheard DEF Dues
    <3> QED
      BY <3>3, <3>4, <3>5, <3>6
  <2> QED
    BY <1>2, <2>2, <2>3 DEF Frugal
<1> QED
  BY <1>3, <1>4

(* Nothing is cached at the start. *)
LEMMA FreshFrugal ==
  ASSUME due_dates = {}, gp = Silent, jobs = Silent, app = BaseJobs,
         posted = Nothing, head = HeadsAtRest, held = Nothing, pulls = Nothing,
         NEW r \in Runners
  PROVE  Frugal(r)
<1>0. Backlog \in Nat
  BY BoundsAssumption
<1>1. /\ gp[r] = Idle /\ jobs[r] = Idle /\ app[r].job = BaseState(r) /\ app[r].parent = None
      /\ posted[r] = {} /\ head[r] = AtRest /\ held[r] = {} /\ pulls[r] = {}
  BY DEF Silent, BaseJobs, Nothing, HeadsAtRest, Order
<1>2. Idle.type = "idle" /\ AtRest.at = "rest" /\ AtRest # AfterWeight
  BY DEF Idle, AtRest, AfterWeight
<1>3. SlotsUsed(r)
  BY <1>0, <1>1, <1>2, FS_EmptySet DEF SlotsUsed
<1>4. InCache(r) = {} /\ ToLoad(r) = {} /\ JobsHeld(r) \subseteq {BaseState(r)}
  BY <1>1, <1>2 DEF InCache, Acked, FetchList, ToLoad, JobsHeld
<1>5. OwnStates(r)
  BY <1>4 DEF OwnStates, AllStates
<1>6. LoadsDue(r) /\ CachedLate(r) /\ Unheard(r)
  BY <1>1, <1>2, <1>4 DEF LoadsDue, CachedLate, Unheard
<1> QED
  BY <1>3, <1>5, <1>6 DEF Frugal

(* Every step keeps the caches within bounds. *)
LEMMA NextFrugal ==
  ASSUME Everything, Everything', ParentsPast, ParentsPast', Caches, EnoughSlots,
         AllFrugal, [Next]_vars
  PROVE  AllFrugal'
<1>0. TypeOK /\ Ledger /\ Dues /\ TypeOK' /\ Ledger'
  BY DEF Everything, Invariants
<1>1. CASE ServerStep
  <2>1. UNCHANGED <<restarts, runner>>
    BY <1>1 DEF ServerStep
  <2>2. ASSUME ~ Serving' PROVE AllFrugal'
    BY <2>2 DEF AllFrugal
  <2>3. ASSUME Serving PROVE /\ \A q \in Runners : Frugal(q)
                             /\ \A q \in Runners : Cached(q)
    <3>1. CheckpointExists
      BY <2>3 DEF Serving, CheckpointExists
    <3> QED
      BY <2>3, <3>1 DEF AllFrugal, Caches
  <2>4. CASE stop
    BY <2>2, <2>4 DEF stop, Serving
  <2>5. CASE check_violations
    <3>1. Serving
      BY <2>5 DEF check_violations
    <3>2. CASE Runners = {}
      BY <3>2 DEF AllFrugal
    <3>3. ASSUME NEW r \in Runners PROVE AllFrugal'
      <4>1. \A q \in Runners : Frugal(q)'
        BY <1>0, <2>1, <2>3, <2>5, <3>1, FaultyFrugal
      <4> QED
        BY <4>1 DEF AllFrugal
    <3> QED
      BY <3>2, <3>3
  <2>6. ASSUME NEW r \in Runners, raises(r) PROVE AllFrugal'
    <3>1. PICK e \in Raised(r) : Fault(e)
      BY <2>6 DEF raises
    <3>2. e \in Faults
      BY <3>1, RaisedAreFaults
    <3> QED
      BY <2>2, <3>1, <3>2 DEF Fault, Faults, Serving
  <2>7. ASSUME NEW r \in Runners,
               handle_general_purpose(r) \/ handle_job_requests(r) \/ ignore_faulty(r)
        PROVE  AllFrugal'
    <3>1. Serving
      BY <2>7 DEF handle_general_purpose, accept_weight, accept_delete, accept_prefetch,
         handle_job_requests, give_scheduled_job, give_new_job, give_no_job, AsksForJob,
         ignore_faulty, Heard
    <3>2. \A q \in Runners : Frugal(q)
      BY <2>3, <3>1
    <3>3. Cached(r)
      BY <2>3, <3>1
    <3>4. CASE accept_weight(r)
      <4>1. \A q \in Runners : Frugal(q)'
        BY <1>0, <2>1, <3>2, <3>4, AcceptWeightFrugal
      <4> QED
        BY <4>1 DEF AllFrugal
    <3>5. CASE accept_delete(r)
      <4>1. \A q \in Runners : Frugal(q)'
        BY <1>0, <2>1, <3>2, <3>3, <3>5, AcceptDeleteFrugal
      <4> QED
        BY <4>1 DEF AllFrugal
    <3>6. CASE accept_prefetch(r)
      <4>1. \A q \in Runners : Frugal(q)'
        BY <1>0, <2>1, <3>2, <3>6, AcceptPrefetchFrugal
      <4> QED
        BY <4>1 DEF AllFrugal
    <3>7. CASE handle_job_requests(r)
      <4>1. \A q \in Runners : Frugal(q)'
        BY <1>0, <2>1, <3>2, <3>7, HandleJobRequestsFrugal
      <4> QED
        BY <4>1 DEF AllFrugal
    <3>8. CASE ignore_faulty(r)
      <4>1. \A q \in Runners : Frugal(q)'
        BY <1>0, <2>1, <3>2, <3>8, FaultyFrugal
      <4> QED
        BY <4>1 DEF AllFrugal
    <3> QED
      BY <2>7, <3>4, <3>5, <3>6, <3>7, <3>8 DEF handle_general_purpose
  <2> QED
    BY <1>1, <2>4, <2>5, <2>6, <2>7 DEF ServerStep
<1>2. ASSUME NEW r \in Runners, RunnerStep(r) PROVE AllFrugal'
  <2>1. \A q \in Runners : Frugal(q)
    BY <1>2 DEF RunnerStep, Goes, AllFrugal
  <2>2. \A q \in Runners : Frugal(q)'
    BY <1>0, <1>2, <2>1, RunnerStepFrugal
  <2> QED
    BY <2>2 DEF AllFrugal
<1>3. CASE restart
  <2>1. CASE status' = "no_checkpoint"
    BY <2>1 DEF AllFrugal, Serving
  <2>2. CASE status' # "no_checkpoint"
    <3>1. (/\ due_dates = {} /\ gp = Silent /\ jobs = Silent /\ app = BaseJobs
           /\ posted = Nothing /\ head = HeadsAtRest /\ held = Nothing /\ pulls = Nothing)'
      BY <1>3, <2>2 DEF restart, StartsWith, Fault
    <3>2. ASSUME NEW r \in Runners PROVE Frugal(r)'
      BY <3>1, FreshFrugal, PTL
    <3> QED
      BY <3>2 DEF AllFrugal
  <2> QED
    BY <2>1, <2>2
<1>4. CASE UNCHANGED vars
  <2>1. /\ UNCHANGED <<gp, jobs, app, posted, head, held, pulls, faulty_runners, due_dates,
                       scheduled_jobs, runners_last, cr, state_weights, assimilation_cycle, status>>
    BY <1>4 DEF vars, server, channels, runner
  <2>2. \A r \in Runners : Frugal(r)' = Frugal(r)
    BY <2>1 DEF Frugal, SlotsUsed, OwnStates, LoadsDue, CachedLate, Unheard, AllStates, InCache, Acked,
       FetchList, ToLoad, JobsHeld, ParentsDue, DueDatesOf, HadDueDate, Weighted
  <2> QED
    BY <2>1, <2>2 DEF AllFrugal, Serving
<1> QED
  BY <1>1, <1>2, <1>3, <1>4 DEF Next

(* A request that the cache brings forth does not abort the server. *)
LEMMA RaisesOther ==
  ASSUME Everything, ParentsPast, Caches, EnoughSlots, AllFrugal,
         NEW r \in Runners, raises(r)
  PROVE  status' \notin {"key_error", "nothing_to_delete"}
<1>1. PICK e \in Raised(r) : Fault(e)
  BY DEF raises
<1>2. SUFFICES e \notin {"key_error", "nothing_to_delete"}
  BY <1>1 DEF Fault
<1>3. r \notin faulty_runners /\ Serving
  BY DEF raises, Heard
<1>4. TypeOK /\ Ledger /\ Matched(r) /\ Frugal(r) /\ Cached(r)
  BY <1>3 DEF Everything, Invariants, Dues, AllFrugal, Caches, CheckpointExists, Serving
<1>6. gp[r].type = "delete" => e \notin accept_delete_raises(r)
  <2> SUFFICES ASSUME gp[r].type = "delete" PROVE accept_delete_raises(r) = {}
    OBVIOUS
  <2>1. /\ r \in DOMAIN cr /\ HadDueDate(r)
        /\ DeleteChoices(gp[r].cached \ Blacklist(r, gp[r].cached)) # {}
    BY <1>3, <1>4, DeleteFinds
  <2> QED
    BY <2>1 DEF accept_delete_raises
<1>7. gp[r].type = "prefetch" => e \notin accept_prefetch_raises(r) \ {"unregistered", "no_parent"}
  <2> SUFFICES ASSUME gp[r].type = "prefetch"
               PROVE  accept_prefetch_raises(r) \subseteq {"unregistered", "no_parent"}
    OBVIOUS
  <2>1. r \in DOMAIN cr
    BY <1>3, <1>4 DEF Frugal, Unheard
  <2> QED
    BY <2>1 DEF accept_prefetch_raises
<1>8. handle_job_requests_raises(r) \subseteq {"due_missing", "no_parent"}
  BY DEF handle_job_requests_raises
<1>9. accept_weight_raises(r) \subseteq {"due_missing"}
  BY DEF accept_weight_raises
<1> QED
  BY <1>1, <1>6, <1>7, <1>8, <1>9 DEF Raised

(* Only a handler that raises, and a restart, fail. *)
LEMMA OtherStepsServe ==
  ASSUME status \notin {"key_error", "nothing_to_delete"}, [Next]_vars,
         \A r \in Runners : ~ raises(r)
  PROVE  status' \notin {"key_error", "nothing_to_delete"}
<1>1. CASE ServerStep
  <2>1. ASSUME NEW r \in Runners, accept_weight(r)
        PROVE  status' \notin {"key_error", "nothing_to_delete"}
    <3>1. status' \in {status, "up", "stopping"}
      BY <2>1 DEF accept_weight, maybe_update, do_update_step
    <3> QED
      BY <3>1
  <2>2. ASSUME NEW r \in Runners, ~ accept_weight(r), handle_general_purpose(r) \/ handle_job_requests(r)
                                  \/ ignore_faulty(r)
        PROVE  status' = status
    BY <2>2 DEF handle_general_purpose, accept_delete, accept_prefetch, handle_job_requests,
       give_scheduled_job, give_new_job, give_no_job, GiveJob, ignore_faulty, server
  <2>3. CASE check_violations \/ stop
    BY <2>3 DEF check_violations, stop
  <2> QED
    BY <1>1, <2>1, <2>2, <2>3 DEF ServerStep
<1>2. ASSUME NEW r \in Runners, RunnerStep(r) PROVE status' = status
  BY <1>2, RunnerStepLeavesServer DEF server
<1>3. CASE restart
  BY <1>3 DEF restart, StartsWith, Fault
<1>4. CASE UNCHANGED vars
  BY <1>4 DEF vars, server
<1> QED
  BY <1>1, <1>2, <1>3, <1>4 DEF Next

(***************************************************************************)
(* Neither the dictionaries of accept_delete and accept_prefetch nor the   *)
(* assertions of accept_delete and DueDates.remove abort the server: the   *)
(* cache of a runner that asks what to delete holds more states than its   *)
(* due dates need, and the server has heard of it.  For this the cache has *)
(* to have two slots more than a runner can have parents due at once; with *)
(* fewer, a late prefetch instruction can fill it with parents only.       *)
(***************************************************************************)
THEOREM BookkeepingAlwaysHolds ==
  ASSUME EnoughSlots
  PROVE  Spec => []BookkeepingHolds
<1> DEFINE Good == status \notin {"key_error", "nothing_to_delete"}
           Inv == Everything /\ ParentsPast /\ Caches
<1>1. Init => ParentsPast /\ AllFrugal /\ Good
  <2> SUFFICES ASSUME Init PROVE AllFrugal /\ Good
    BY InitParents
  <2> QED
    BY FreshFrugal DEF Init, AllFrugal
<1>2. Everything /\ Everything' /\ ParentsPast /\ [Next]_vars => ParentsPast'
  BY NextParents DEF Everything, Invariants
<1>3. Inv /\ Inv' /\ AllFrugal /\ [Next]_vars => AllFrugal'
  BY NextFrugal
<1>4. Inv /\ AllFrugal /\ Good /\ [Next]_vars => Good'
  <2> SUFFICES ASSUME Inv, AllFrugal, Good, [Next]_vars PROVE Good'
    OBVIOUS
  <2>1. ASSUME NEW r \in Runners, raises(r) PROVE Good'
    BY <2>1, RaisesOther
  <2> QED
    BY <2>1, OtherStepsServe
<1>5. Good /\ NoneMissing => BookkeepingHolds
  BY DEF BookkeepingHolds, NoneMissing
<1> QED
  BY <1>1, <1>2, <1>3, <1>4, <1>5, EverythingHolds, CachesHold, NoDueDateMissing, PTL DEF Spec
=============================================================================
