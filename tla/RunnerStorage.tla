---------------------------- MODULE RunnerStorage ----------------------------
(***************************************************************************)
(* The storage side of a P2P study: the weight server of WeightServer, and *)
(* the runners as their code has them (src/api/p2p/app_core.cxx and        *)
(* src/api/p2p/StorageController).                                         *)
(*                                                                         *)
(* A runner stores each state in its local storage (level 1) and its head  *)
(* rank copies it to the parallel file system (level 2), which all runners *)
(* share, before it reports the weight.  The head rank keeps a pool of     *)
(* local states, asks the server what to delete when the pool is full,     *)
(* fetches states that were prefetched or that the application misses, and *)
(* removes its own old states from level 2.  The application reads the     *)
(* local storage behind the head rank's back.                              *)
(*                                                                         *)
(* The variables of WeightServer keep their meaning: held is               *)
(* m_cached_states, pulls is m_state_pull_requests.                        *)
(***************************************************************************)
EXTENDS WeightServer, Sequences

CONSTANTS
  Slots,         \* capacity of a runner's local storage, in states
  MaxPrefetch,   \* STORAGE_MAX_PREFETCH
  SizeT          \* bound: number of values of size_t

VARIABLES
  l1,            \* states in each runner's local storage
  l2,            \* states on the parallel file system
  used,          \* state_pool.m_used_slots
  del_q,         \* own states on level 2, oldest first
  own_cycle,     \* the head rank's last_assimilation_cycle
  staged,        \* the state the head rank stored on level 2, or None
  load,          \* how far the application is with the load of its parent
  dirty,         \* dirty loads of the current parent
  failed         \* why the runner was aborted, or None

storage == <<l1, l2, used, del_q, own_cycle, staged, load, dirty, failed>>
study == <<vars, storage>>

-----------------------------------------------------------------------------
(* The pool's size, computed when the head rank starts.  Two slots are for *)
(* states of the model and for peers, and the same number is subtracted    *)
(* once more; the difference is a size_t.                                  *)

MinimumSlots == 3
MinimumReservation == 2

PoolCapacity ==
  LET capacity == Slots - MinimumReservation
      prefetch == (capacity - MinimumReservation) % SizeT
  IN IF prefetch < MaxPrefetch THEN prefetch ELSE MaxPrefetch

(* Why a runner aborts. *)
Failures == {"global_exists", "not_global", "not_local", "not_removed", "overflow"}

ASSUME StorageAssumption ==
  /\ Slots \in Nat /\ Slots >= MinimumSlots
  /\ MaxPrefetch \in Nat /\ SizeT \in Nat \ {0}
  /\ CacheSlots = PoolCapacity
  /\ None \notin Failures

pool_free(r) == CacheSlots - used[r]

-----------------------------------------------------------------------------
(***************************************************************************)
(* The application.  A load starts with a look at the local storage; a     *)
(* state that is missing, there or when it is read, is asked from the head *)
(* rank.                                                                   *)
(*   idle      nothing to load, or the look is still to come               *)
(*   read      the state was local, FTI_Load comes next                    *)
(*   ask       LOAD was sent to the head rank after a miss                 *)
(*   again     LOAD was sent after FTI_Load failed: a dirty load           *)
(*   fetching, refetching   the head rank fetches the state for a LOAD     *)
(*   answered  the head rank answered the LOAD of a miss                   *)
(***************************************************************************)
Asking == {"ask", "again"}
LoadStates == {"idle", "read", "answered", "fetching", "refetching"} \cup Asking

Runs(r) == up[r] = "up" /\ failed[r] = None

Aborts(r, reason) == failed' = [failed EXCEPT ![r] = reason]

NextState(r) == app[r].job
Computing(r) == jobs[r] = Idle /\ app[r].parent = None

(* Store the finished state in the local storage. *)
StoreState(r) ==
  /\ Runs(r)
  /\ Computing(r)
  /\ NextState(r) \notin l1[r]
  /\ l1' = [l1 EXCEPT ![r] = @ \cup {NextState(r)}]
  /\ UNCHANGED <<vars, l2, used, del_q, own_cycle, staged, load, dirty, failed>>

(* Send its weight to the head rank, which MPI may buffer, and ask the     *)
(* server for a job.                                                       *)
PostState(r) ==
  /\ Runs(r)
  /\ Computing(r)
  /\ NextState(r) \in l1[r]
  /\ Cardinality(posted[r]) < Backlog
  /\ posted' = [posted EXCEPT ![r] = @ \cup {NextState(r)}]
  /\ jobs' = [jobs EXCEPT ![r] = JobRequest]
  /\ UNCHANGED <<server, restarts, gp, app, head, held, pulls, up, storage>>

ReceiveJob(r) == failed[r] = None /\ ReadJob(r) /\ UNCHANGED storage

(* m_load_user: is the parent local? *)
LookUp(r) ==
  /\ Runs(r)
  /\ app[r].parent # None
  /\ load[r] = "idle"
  /\ load' = [load EXCEPT ![r] = IF app[r].parent \in l1[r] THEN "read" ELSE "ask"]
  /\ UNCHANGED <<vars, l1, l2, used, del_q, own_cycle, staged, dirty, failed>>

(* After a miss the state has to be local now. *)
CheckAnswer(r) ==
  /\ Runs(r)
  /\ load[r] = "answered"
  /\ IF app[r].parent \in l1[r]
     THEN load' = [load EXCEPT ![r] = "read"] /\ UNCHANGED failed
     ELSE Aborts(r, "not_local") /\ UNCHANGED load
  /\ UNCHANGED <<vars, l1, l2, used, del_q, own_cycle, staged, dirty>>

(* FTI_Load, which fails if the head rank has deleted the state. *)
ReadState(r) ==
  /\ Runs(r)
  /\ load[r] = "read"
  /\ IF app[r].parent \in l1[r]
     THEN /\ app' = [app EXCEPT ![r].parent = None]
          /\ load' = [load EXCEPT ![r] = "idle"]
          /\ dirty' = [dirty EXCEPT ![r] = 0]
     ELSE /\ load' = [load EXCEPT ![r] = "again"]
          /\ dirty' = [dirty EXCEPT ![r] = @ + 1]
          /\ UNCHANGED app
  /\ UNCHANGED <<server, restarts, channels, posted, head, held, pulls, up,
                 l1, l2, used, del_q, own_cycle, staged, failed>>

-----------------------------------------------------------------------------
(***************************************************************************)
(* The head rank handles one event at a time.  It looks for a posted       *)
(* state, then for a LOAD, then at its queue of states to prefetch, each   *)
(* at its own instant, so that any of them may come first.                 *)
(***************************************************************************)
HeadIdle(r) == Runs(r) /\ gp[r] = Idle /\ head[r] = AtRest /\ staged[r] = None

AnyOf(S) == S
Oldest(S) == First(S)

(* m_request_post: copy the state to level 2, where it must be new. *)
StageToGlobal(r) ==
  /\ HeadIdle(r)
  /\ \E s \in Oldest(posted[r]) :
       IF s \in l2
       THEN Aborts(r, "global_exists") /\ UNCHANGED <<l2, staged>>
       ELSE /\ l2' = l2 \cup {s}
            /\ staged' = [staged EXCEPT ![r] = s]
            /\ UNCHANGED failed
  /\ UNCHANGED <<vars, l1, used, del_q, own_cycle, load, dirty>>

(* Then report the weight. *)
ReportWeight(r) ==
  /\ Runs(r)
  /\ staged[r] # None
  /\ posted' = [posted EXCEPT ![r] = @ \ {staged[r]}]
  /\ gp' = [gp EXCEPT ![r] = WeightMsg(staged[r])]
  /\ head' = [head EXCEPT ![r] = AfterWeight]
  /\ staged' = [staged EXCEPT ![r] = None]
  /\ UNCHANGED <<server, restarts, jobs, app, held, pulls, up,
                 l1, l2, used, del_q, own_cycle, load, dirty, failed>>

(* A state that becomes local is entered into the pool, which may overflow.*)
EnterPool(r, s) ==
  /\ held' = [held EXCEPT ![r] = @ \cup {s}]
  /\ used' = [used EXCEPT ![r] = @ + 1]
  /\ IF used[r] < CacheSlots THEN UNCHANGED failed ELSE Aborts(r, "overflow")

(* if (t > last_assimilation_cycle) last_assimilation_cycle = t; *)
Latest(t, cycle) == IF t > cycle THEN t ELSE cycle

ReadAck(r) ==
  /\ Runs(r)
  /\ gp[r].type = "ack"
  /\ LET s == gp[r].state IN
     /\ own_cycle' = [own_cycle EXCEPT ![r] = Latest(s.t, @)]
     /\ del_q' = [del_q EXCEPT ![r] = Append(@, s)]
     /\ EnterPool(r, s)
  /\ gp' = [gp EXCEPT ![r] = Idle]
  /\ UNCHANGED <<server, restarts, jobs, app, posted, head, pulls, up,
                 l1, l2, staged, load, dirty>>

(* When a state is to be deleted: after a post the pool must keep one free *)
(* slot, for a fetch two.                                                  *)
NeedsRoomWhenFull(r) == pool_free(r) = 0
NeedsRoom(r) ==
  \/ head[r].at = "post" /\ pool_free(r) = 0
  \/ head[r].at = "fetch" /\ pool_free(r) <= 1

delete_request(r) ==
  /\ Runs(r)
  /\ gp[r] = Idle
  /\ NeedsRoom(r)
  /\ gp' = [gp EXCEPT ![r] = DeleteMsg(held[r])]
  /\ UNCHANGED <<server, restarts, jobs, runner, storage>>

(* The end of m_request_post. *)
prefetch_request(r) ==
  /\ Runs(r)
  /\ gp[r] = Idle
  /\ head[r].at = "post" /\ ~NeedsRoom(r)
  /\ gp' = [gp EXCEPT ![r] = PrefetchMsg(held[r])]
  /\ UNCHANGED <<server, restarts, jobs, runner, storage>>

(* The state is removed from the local storage and from the pool. *)
LocalKept(r, s) == l1
LocalWithout(r, s) == [l1 EXCEPT ![r] = @ \ {s}]

ReadDelete(r) ==
  /\ Runs(r)
  /\ gp[r].type = "deleted"
  /\ LET s == gp[r].state IN
     /\ l1' = LocalWithout(r, s)
     /\ held' = [held EXCEPT ![r] = @ \ {s}]
     /\ used' = [used EXCEPT ![r] = @ - 1]
     /\ IF s \in l1[r] THEN UNCHANGED failed ELSE Aborts(r, "not_removed")
  /\ gp' = [gp EXCEPT ![r] = Idle]
  /\ UNCHANGED <<server, restarts, jobs, app, posted, head, pulls, up,
                 l2, del_q, own_cycle, staged, load, dirty>>

(* What to prefetch, or the empty reply to a faulty runner. *)
ReadOther(r) ==
  /\ Runs(r)
  /\ gp[r].type \in {"pull", "empty"}
  /\ ReadReply(r)
  /\ UNCHANGED storage

(* The answer to LOAD. *)
AnswerIfLocal(state) ==
  CASE state = "ask" -> "answered" [] state = "again" -> "read" [] OTHER -> state
Answer(state) ==
  CASE state \in {"ask", "fetching"} -> "answered"
    [] state \in {"again", "refetching"} -> "read"
    [] OTHER -> state
Fetched(state) ==
  CASE state = "ask" -> "fetching" [] state = "again" -> "refetching"

(* m_request_load: a state that is local is answered at once. *)
TakeLoad(r) ==
  /\ HeadIdle(r)
  /\ load[r] \in Asking
  /\ IF app[r].parent \in l1[r]
     THEN /\ load' = [load EXCEPT ![r] = Answer(@)]
          /\ UNCHANGED head
     ELSE /\ load' = [load EXCEPT ![r] = Fetched(@)]
          /\ head' = [head EXCEPT ![r] = Fetching(app[r].parent)]
  /\ UNCHANGED <<server, restarts, channels, app, posted, held, pulls, up,
                 l1, l2, used, del_q, own_cycle, staged, dirty, failed>>

(* m_request_pull *)
TakePull(r) ==
  /\ HeadIdle(r)
  /\ \E s \in pulls[r] :
       /\ pulls' = [pulls EXCEPT ![r] = @ \ {s}]
       /\ head' = IF s \in l1[r] THEN head
                  ELSE [head EXCEPT ![r] = Fetching(s)]
  /\ UNCHANGED <<server, restarts, channels, app, posted, held, up, storage>>

(***************************************************************************)
(* m_pull_head, once two slots are free: copy the state from level 2,      *)
(* enter it into the pool, and answer the LOAD this is for.  A state that  *)
(* is not on level 2 leaves nothing behind, and an assertion fails.        *)
(***************************************************************************)
FetchState(r) ==
  /\ Runs(r)
  /\ gp[r] = Idle
  /\ head[r].at = "fetch" /\ ~NeedsRoom(r)
  /\ LET s == head[r].state IN
     IF s \in l2
     THEN /\ l1' = [l1 EXCEPT ![r] = @ \cup {s}]
          /\ EnterPool(r, s)
          /\ head' = [head EXCEPT ![r] = AtRest]
          /\ load' = IF load[r] \in Asking THEN load
                     ELSE [load EXCEPT ![r] = Answer(@)]
     ELSE /\ Aborts(r, "not_global")
          /\ UNCHANGED <<l1, held, used, head, load>>
  /\ UNCHANGED <<server, restarts, channels, app, posted, pulls, up,
                 l2, del_q, own_cycle, staged, dirty>>

(* Nobody starts from a state of two cycles ago. *)
OlderThanThis(s, cycle) == s.t < cycle
TooOld(s, cycle) == s.t < cycle - 1

(* Every ten seconds, when no event waits, the head rank removes its too   *)
(* old states from level 2, one after the other.                           *)
RemoveOldest(r) ==
  /\ HeadIdle(r)
  /\ pulls[r] = {}
  /\ del_q[r] # << >>
  /\ TooOld(Head(del_q[r]), own_cycle[r])
  /\ l2' = l2 \ {Head(del_q[r])}
  /\ del_q' = [del_q EXCEPT ![r] = Tail(@)]
  /\ UNCHANGED <<vars, l1, used, own_cycle, staged, load, dirty, failed>>

-----------------------------------------------------------------------------
(* What every runner starts with, its application and its head rank. *)
Zero == [r \in Runners |-> 0]
NoneYet == [r \in Runners |-> None]
Unwritten == [r \in Runners |-> << >>]
FirstCycle == [r \in Runners |-> 1]
NoLoad == [r \in Runners |-> "idle"]

StudyInit ==
  /\ Init
  /\ l1 = Nothing
  /\ l2 = {}
  /\ used = Zero
  /\ del_q = Unwritten
  /\ own_cycle = FirstCycle
  /\ staged = NoneYet
  /\ load = NoLoad
  /\ dirty = Zero
  /\ failed = NoneYet

ServerMoves == ServerStep /\ UNCHANGED storage

(* A runner's first state is its base state, which has its id. *)
Begins(r) == StartRunner(r) /\ UNCHANGED storage
Dies(r) == RunnerDies(r) /\ UNCHANGED storage

AppMoves(r) ==
  \/ StoreState(r)
  \/ PostState(r)
  \/ ReceiveJob(r)
  \/ LookUp(r)
  \/ CheckAnswer(r)
  \/ ReadState(r)

HeadMoves(r) ==
  \/ StageToGlobal(r)
  \/ ReportWeight(r)
  \/ ReadAck(r)
  \/ delete_request(r)
  \/ prefetch_request(r)
  \/ ReadDelete(r)
  \/ ReadOther(r)
  \/ TakeLoad(r)
  \/ TakePull(r)
  \/ FetchState(r)
  \/ RemoveOldest(r)

(* A new server finds level 2 as it was; the local storage is gone with    *)
(* the runners.                                                            *)
StudyRestart ==
  /\ restart
  /\ l1' = Nothing
  /\ used' = Zero
  /\ del_q' = Unwritten
  /\ own_cycle' = FirstCycle
  /\ staged' = NoneYet
  /\ load' = NoLoad
  /\ dirty' = Zero
  /\ failed' = NoneYet
  /\ UNCHANGED l2

StudyNext ==
  \/ ServerMoves
  \/ \E r \in Runners :
       Goes(r) /\ (Begins(r) \/ Dies(r) \/ AppMoves(r) \/ HeadMoves(r))
  \/ StudyRestart

StudySpec == StudyInit /\ [][StudyNext]_study

(* As in WeightServer: the server polls, applications and head ranks go on.*)
FairStudySpec ==
  /\ StudySpec
  /\ WF_study(Stops /\ UNCHANGED storage)
  /\ \A r \in Runners :
       /\ WF_study(Answers(r) /\ UNCHANGED storage)
       /\ WF_study(GivesJobs(r) /\ UNCHANGED storage)
       /\ WF_study(Goes(r) /\ Begins(r))
       /\ WF_study(Goes(r) /\ AppMoves(r))
       /\ WF_study(Goes(r) /\ HeadMoves(r))

-----------------------------------------------------------------------------
(* Properties *)

(* A state that nobody waits for any more is fetched after it was removed  *)
(* from level 2: an instruction to prefetch is taken only when neither a   *)
(* post nor a LOAD is there.                                               *)
LateFetch(r) ==
  /\ failed[r] = "not_global"
  /\ r \notin faulty_runners => \A d \in DueDatesOf(r) : d.parent # head[r].state

(* After a restart a job id is used again, and its state may be on level 2.*)
StoredAgain(r) == failed[r] = "global_exists" /\ restarts > 0

(* No other assertion and no other IO_TRY of a runner fails: a parent is   *)
(* on level 2 when it is fetched, a state was never there when it is       *)
(* stored, it is local after a LOAD and when it is deleted, and the pool   *)
(* does not overflow.                                                      *)
OnlyKnownAborts ==
  \A r \in Runners : failed[r] = None \/ LateFetch(r) \/ StoredAgain(r)

(* The counter of used slots, the list of cached states that is sent to    *)
(* the server and the local storage are kept by different functions and    *)
(* agree: what is local and not in the pool was not yet reported.          *)
PoolAgrees ==
  \A r \in Runners :
    /\ used[r] = Cardinality(held[r])
    /\ up[r] = "up" =>
         l1[r] = held[r] \cup (JobsHeld(r) \cap l1[r])
                  \cup (IF gp[r].type = "ack" THEN {gp[r].state} ELSE {})
    /\ held[r] \subseteq l1[r]

(* The pool leaves enough room in the local storage for the states that    *)
(* the application stores before the head rank has reported them.          *)
LocalStorageFits ==
  \A r \in Runners : Cardinality(l1[r]) <= Slots

(* A state that may still have to be loaded is on level 2, whoever wrote   *)
(* it and whatever that runner removed or died of: the parents in alpha,   *)
(* and those of jobs that are reserved or handed out.                      *)
ParentsStored ==
  /\ assimilation_cycle > 1 => DOMAIN alpha \subseteq l2
  /\ \A d \in due_dates : d.parent.t > 0 => d.parent \in l2

(* The server may choose to delete a state before it makes it the parent   *)
(* of a job of the same runner, and the application may then miss it while *)
(* it reads it.  Once the head rank has fetched it again it stays until    *)
(* the job is done: a load is dirty at most once.                          *)
OneDirtyLoad == \A r \in Runners : dirty[r] <= 1

(* The runners do no more than WeightServer allows its environment: what   *)
(* is checked and proved there holds of the study.                         *)
ImplementsWeightServer == Spec

(* A load ends, as long as the server goes on. *)
LoadsEnd ==
  \A r \in Runners : load[r] # "idle" ~> (load[r] = "idle" \/ ~Serving)
=============================================================================
