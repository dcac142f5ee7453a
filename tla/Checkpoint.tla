----------------------------- MODULE Checkpoint -----------------------------
(***************************************************************************)
(* Checkpoints of the classic server (src/server/FTmodule.cxx and          *)
(* FTthreadManager.cxx).  While the parts of the ensemble come in, a rank  *)
(* hands each to FTI, in a thread of its own if built so; in the update    *)
(* step the ranks finish the checkpoint together, and a restarted server   *)
(* goes on from the last that was finished.  FTI is external: a checkpoint *)
(* counts when all ranks have finalized it.                                *)
(***************************************************************************)
EXTENDS Integers, FiniteSets, Sequences

CONSTANTS
  ServerRanks,
  Members,
  RunnerRanks,  \* runner ranks that a server rank exchanges parts with
  Builds,       \* values of WITH_FTI_THREADS
  TotalSteps,   \* the assimilator ends the study after this step
  MaxRetries,   \* bound: members propagated once more, by another runner
  MaxCrashes,   \* bound: crashes of the server
  None

ASSUME CheckpointAssumption ==
  /\ IsFiniteSet(ServerRanks) /\ IsFiniteSet(Members) /\ IsFiniteSet(RunnerRanks)
  /\ Builds \subseteq BOOLEAN
  /\ TotalSteps \in Nat \ {0} /\ MaxRetries \in Nat /\ MaxCrashes \in Nat
  /\ \A does \in {"AddVarICP", "FinalizeICP"}, id \in (Members \X RunnerRanks) \cup {None} :
       None # [does |-> does, id |-> id]

Subsets == Members \X RunnerRanks

VARIABLES
  threads,      \* whether the server is built WITH_FTI_THREADS
  at,           \* where each rank is in its main loop
  current_step,
  background,   \* state_background of each rank: the propagation of each part
  stored,       \* parts of the step that each rank has
  tries,        \* propagations of each member in this step
  checkpointing,\* m_checkpointing
  id_check,
  restart,      \* m_restart
  pending,      \* m_task_queue_pending
  requests,     \* m_requests
  running,      \* the task of the thread, or None
  ready,        \* whether the task of the thread is done
  open_cp,      \* the checkpoint that each rank writes, or None
  finalized,    \* ranks that have called FTI_FinalizeICP for it
  last_cp,      \* the last checkpoint finished, or None
  retries, crashes

loop == <<at, current_step, tries>>
ensemble == <<background, stored>>
module == <<checkpointing, id_check, restart>>
scheduler == <<pending, requests, running, ready>>
fti == <<open_cp, finalized, last_cp>>
bounds == <<threads, retries, crashes>>
vars == <<loop, ensemble, module, scheduler, fti, bounds>>

Blank == [step |-> 0, try |-> 0]
Everywhere(v) == [s \in ServerRanks |-> v]

-----------------------------------------------------------------------------
(***************************************************************************)
(* FTI, as far as the server uses it.                                      *)
(***************************************************************************)
InitICP(epoch) == [epoch |-> epoch, subsets |-> <<>>]

AddVarICP(s, id, values) ==
  LET subsets == open_cp[s].subsets IN
  open_cp' = [open_cp EXCEPT ![s].subsets =
    [i \in DOMAIN subsets \cup {id} |-> IF i = id THEN values[id] ELSE subsets[i]]]

(* The last rank to come makes the checkpoint count. *)
FinalizeICP(s) ==
  /\ finalized' = finalized \cup {s}
  /\ last_cp' = IF finalized' = ServerRanks THEN open_cp ELSE last_cp

NonePending(s) == pending[s] = <<>>
Idle(s) == pending[s] = <<>> /\ requests[s] = 0

(***************************************************************************)
(* The scheduler thread, which has one thread to run tasks in.             *)
(***************************************************************************)
Task(does, id) == [does |-> does, id |-> id]

submit(s, task) ==
  /\ pending' = [pending EXCEPT ![s] = Append(@, task)]
  /\ requests' = [requests EXCEPT ![s] = @ + 1]

StartTask(s) ==
  /\ running[s] = None /\ pending[s] # <<>>
  /\ running' = [running EXCEPT ![s] = Head(pending[s])]
  /\ ready' = [ready EXCEPT ![s] = FALSE]
  /\ pending' = [pending EXCEPT ![s] = Tail(@)]
  /\ UNCHANGED <<loop, ensemble, module, requests, fti, bounds>>

JoinUncounted(s) ==
  /\ running[s] # None /\ ready[s]
  /\ running' = [running EXCEPT ![s] = None]
  /\ UNCHANGED <<loop, ensemble, module, pending, requests, ready, fti, bounds>>

JoinTask(s) ==
  /\ running[s] # None /\ ready[s]
  /\ running' = [running EXCEPT ![s] = None]
  /\ requests' = [requests EXCEPT ![s] = @ - 1]
  /\ UNCHANGED <<loop, ensemble, module, pending, ready, fti, bounds>>

RunTask(s) ==
  /\ running[s] # None /\ ~ ready[s]
  /\ \/ /\ running[s].does = "AddVarICP"
        /\ AddVarICP(s, running[s].id, background[s])
        /\ ready' = [ready EXCEPT ![s] = TRUE]
        /\ UNCHANGED <<finalized, last_cp>>
     \/ /\ running[s].does = "FinalizeICP" /\ s \notin finalized
        /\ FinalizeICP(s)
        /\ UNCHANGED <<open_cp, ready>>
     \/ /\ running[s].does = "FinalizeICP" /\ finalized = ServerRanks
        /\ ready' = [ready EXCEPT ![s] = TRUE]
        /\ UNCHANGED fti
  /\ UNCHANGED <<loop, ensemble, module, pending, requests, running, bounds>>

SchedulerStep(s) == StartTask(s) \/ JoinTask(s) \/ RunTask(s)

-----------------------------------------------------------------------------
(***************************************************************************)
(* Parts come in.                                                          *)
(***************************************************************************)
(* The background is stored, and is given to FTI if it is the first part   *)
(* of this member and runner rank in this step.                            *)
store_subset(s, id) ==
  IF checkpointing[s] /\ id \notin id_check[s]
  THEN /\ id_check' = [id_check EXCEPT ![s] = @ \cup {id}]
       /\ IF threads
          THEN submit(s, Task("AddVarICP", id)) /\ UNCHANGED open_cp
          ELSE AddVarICP(s, id, background'[s]) /\ UNCHANGED <<pending, requests>>
  ELSE UNCHANGED <<id_check, pending, requests, open_cp>>

StorePart(s) ==
  /\ at[s] = "loop"
  /\ \E id \in Subsets \ stored[s] :
       /\ stored' = [stored EXCEPT ![s] = @ \cup {id}]
       /\ background' = [background EXCEPT ![s][id] =
            [step |-> current_step[s], try |-> tries[id[1]]]]
       /\ store_subset(s, id)
  /\ UNCHANGED <<loop, checkpointing, restart, running, ready, finalized, last_cp, bounds>>

(* A runner is faulty: its member is propagated by another one. *)
Retry(m) ==
  /\ retries < MaxRetries
  /\ \A s \in ServerRanks : at[s] = "loop"
  /\ retries' = retries + 1
  /\ tries' = [tries EXCEPT ![m] = @ + 1]
  /\ stored' = [s \in ServerRanks |-> {id \in stored[s] : id[1] # m}]
  /\ UNCHANGED <<at, current_step, background, module, scheduler, fti, threads, crashes>>

-----------------------------------------------------------------------------
(***************************************************************************)
(* The update step.                                                        *)
(***************************************************************************)
NeverRecovers(s) == FALSE
Recovers(s) == restart[s] /\ last_cp # None

OwnStep(s) == current_step[s]
RecoveredStep(s) == IF Recovers(s) THEN last_cp[s].epoch ELSE current_step[s]

(* FTI_Recover gives a rank its background and its epoch counter back. *)
BeginUpdate ==
  /\ \A s \in ServerRanks : at[s] = "loop" /\ stored[s] = Subsets
  /\ at' = Everywhere("update")
  /\ restart' = Everywhere(FALSE)
  /\ current_step' = [s \in ServerRanks |-> RecoveredStep(s)]
  /\ background' = [s \in ServerRanks |-> [id \in Subsets |->
       IF Recovers(s) THEN last_cp[s].subsets[id] ELSE background[s][id]]]
  /\ UNCHANGED <<tries, stored, checkpointing, id_check, scheduler, fti, bounds>>

(* do_update_step only reads the background; then the checkpoint is to be  *)
(* finished, which has to wait for the parts.                              *)
flushCP(s) ==
  /\ at[s] = "update"
  /\ (checkpointing[s] /\ threads) => Idle(s)
  /\ at' = [at EXCEPT ![s] = "finalize"]
  /\ IF checkpointing[s] /\ threads THEN submit(s, Task("FinalizeICP", None)) ELSE UNCHANGED <<pending, requests>>
  /\ UNCHANGED <<current_step, tries, ensemble, module, running, ready, fti, bounds>>

Finalizes(s) == checkpointing[s] /\ ~ threads /\ s \notin finalized

finalizeCP(s) ==
  /\ at[s] = "finalize"
  /\ IF Finalizes(s) THEN FinalizeICP(s) /\ UNCHANGED <<at, checkpointing>>
     ELSE /\ checkpointing[s] => (IF threads THEN Idle(s) ELSE finalized = ServerRanks)
          /\ checkpointing' = [checkpointing EXCEPT ![s] = FALSE]
          /\ at' = [at EXCEPT ![s] = "next"]
          /\ UNCHANGED <<finalized, last_cp>>
  /\ UNCHANGED <<current_step, tries, ensemble, id_check, restart, scheduler, open_cp, bounds>>

(* The ranks learn from rank 0 how many steps follow; initCP. *)
NextStep ==
  /\ \A s \in ServerRanks : at[s] = "next"
  /\ IF \E s \in ServerRanks : current_step[s] >= TotalSteps
     THEN /\ at' = Everywhere("ended")
          /\ UNCHANGED <<current_step, stored, tries, checkpointing, id_check, open_cp, finalized>>
     ELSE /\ at' = Everywhere("loop")
          /\ current_step' = [s \in ServerRanks |-> current_step[s] + 1]
          /\ stored' = Everywhere({})
          /\ tries' = [m \in Members |-> 1]
          /\ checkpointing' = Everywhere(TRUE)
          /\ id_check' = Everywhere({})
          /\ open_cp' = [s \in ServerRanks |-> InitICP(current_step'[s])]
          /\ finalized' = {}
  /\ UNCHANGED <<background, restart, scheduler, last_cp, bounds>>

-----------------------------------------------------------------------------
Init ==
  /\ threads \in Builds
  /\ at = Everywhere("loop")
  /\ current_step = Everywhere(1)
  /\ background = Everywhere([id \in Subsets |-> Blank])
  /\ stored = Everywhere({})
  /\ tries = [m \in Members |-> 1]
  /\ checkpointing = Everywhere(FALSE)
  /\ id_check = Everywhere({})
  /\ pending = Everywhere(<<>>)
  /\ requests = Everywhere(0)
  /\ running = Everywhere(None)
  /\ ready = Everywhere(FALSE)
  /\ open_cp = Everywhere(None)
  /\ finalized = {}
  /\ restart = Everywhere(FALSE)
  /\ last_cp = None
  /\ retries = 0 /\ crashes = 0

(* The launcher starts the server again, all ranks from the beginning; FTI *)
(* tells whether there is a checkpoint.                                    *)
CrashAndRestart ==
  /\ crashes < MaxCrashes
  /\ \E s \in ServerRanks : at[s] # "ended"
  /\ crashes' = crashes + 1
  /\ at' = Everywhere("loop")
  /\ current_step' = Everywhere(1)
  /\ background' = Everywhere([id \in Subsets |-> Blank])
  /\ stored' = Everywhere({})
  /\ tries' = [m \in Members |-> 1]
  /\ checkpointing' = Everywhere(FALSE)
  /\ id_check' = Everywhere({})
  /\ pending' = Everywhere(<<>>)
  /\ requests' = Everywhere(0)
  /\ running' = Everywhere(None)
  /\ ready' = Everywhere(FALSE)
  /\ open_cp' = Everywhere(None)
  /\ finalized' = {}
  /\ restart' = Everywhere(last_cp # None)
  /\ UNCHANGED <<last_cp, threads, retries>>

Next ==
  \/ \E s \in ServerRanks : StorePart(s) \/ flushCP(s) \/ finalizeCP(s) \/ SchedulerStep(s)
  \/ \E m \in Members : Retry(m)
  \/ BeginUpdate \/ NextStep \/ CrashAndRestart

Spec == Init /\ [][Next]_vars

(* Runners deliver, and the threads of a rank are scheduled. *)
Fairness ==
  /\ \A s \in ServerRanks :
       WF_vars(StorePart(s)) /\ WF_vars(flushCP(s)) /\ WF_vars(finalizeCP(s)) /\ WF_vars(SchedulerStep(s))
  /\ WF_vars(BeginUpdate) /\ WF_vars(NextStep)

FairSpec == Spec /\ Fairness

-----------------------------------------------------------------------------
(* A checkpoint that counts is one that a server can go on from: all ranks *)
(* have the same epoch and every part, each propagated in that step.       *)
CheckpointOfOneStep ==
  last_cp # None =>
    \E epoch \in 1 .. TotalSteps : \A s \in ServerRanks :
      /\ last_cp[s].epoch = epoch
      /\ DOMAIN last_cp[s].subsets = Subsets
      /\ \A id \in Subsets : last_cp[s].subsets[id].step = epoch

(* Every update step is done on the propagations of its own step.          *)
UpdatesItsStep ==
  \A s, u \in ServerRanks : at[s] = "update" =>
    /\ \A id \in Subsets : background[s][id].step = current_step[s]
    /\ at[u] = "update" => current_step[u] = current_step[s]

(* A restarted server never repeats a step whose checkpoint was finished.  *)
NoStepLost ==
  [][\A s \in ServerRanks : at[s] = "loop" /\ at'[s] = "update" /\ last_cp # None
       => current_step'[s] >= last_cp[s].epoch]_vars

(* The study ends: waiting for tasks and for the other ranks never blocks. *)
StudyEnds == <>[](\A s \in ServerRanks : at[s] = "ended")

(* The checkpoint has what the update step has worked on.                  *)
CheckpointIsBackground ==
  \A s \in ServerRanks : at[s] = "next" /\ last_cp # None /\ last_cp[s].epoch = current_step[s]
    => last_cp[s].subsets = background[s]
=============================================================================
