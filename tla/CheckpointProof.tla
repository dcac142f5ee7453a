--------------------------- MODULE CheckpointProof ---------------------------
(***************************************************************************)
(* What is proved of the checkpoints of the classic server, for all sets   *)
(* of ranks and members, any number of steps, retries and crashes, with    *)
(* and without threads: a checkpoint that counts has every part, of one    *)
(* step; an update step works on the propagations of its own step; and no  *)
(* step whose checkpoint was finished is done again.                       *)
(***************************************************************************)
EXTENDS Checkpoint, TLAPS

-----------------------------------------------------------------------------
(***************************************************************************)
(* The inductive invariant.                                                *)
(***************************************************************************)
Places == {"loop", "update", "finalize", "next", "ended"}
Results == [step : Nat, try : Nat]
Partial == UNION {[ids -> Results] : ids \in SUBSET Subsets}
Checkpoints == [epoch : 1 .. TotalSteps, subsets : Partial]
Additions == {Task("AddVarICP", id) : id \in Subsets}
Finalization == Task("FinalizeICP", None)
Tasks == Additions \cup {Finalization}

TypeOK ==
  /\ threads \in BOOLEAN
  /\ at \in [ServerRanks -> Places]
  /\ current_step \in [ServerRanks -> 1 .. TotalSteps]
  /\ background \in [ServerRanks -> [Subsets -> Results]]
  /\ stored \in [ServerRanks -> SUBSET Subsets]
  /\ tries \in [Members -> Nat]
  /\ checkpointing \in [ServerRanks -> BOOLEAN]
  /\ id_check \in [ServerRanks -> SUBSET Subsets]
  /\ restart \in [ServerRanks -> BOOLEAN]
  /\ pending \in [ServerRanks -> Seq(Tasks)]
  /\ requests \in [ServerRanks -> Nat]
  /\ running \in [ServerRanks -> Tasks \cup {None}]
  /\ ready \in [ServerRanks -> BOOLEAN]
  /\ open_cp \in [ServerRanks -> Checkpoints \cup {None}]
  /\ finalized \subseteq ServerRanks
  /\ last_cp \in [ServerRanks -> Checkpoints] \cup {None}

(* The ranks are in the same step, and all of them go on from a checkpoint *)
(* or none.                                                                *)
InStep ==
  /\ \A s, u \in ServerRanks : current_step[s] = current_step[u] /\ restart[s] = restart[u]
  /\ \/ \A s \in ServerRanks : at[s] = "loop"
     \/ \A s \in ServerRanks : at[s] \in {"update", "finalize", "next"}
     \/ \A s \in ServerRanks : at[s] = "ended"

(* requests counts the tasks of the queue and the one that runs. *)
Counted(s) ==
  /\ running[s] = None => requests[s] = Len(pending[s])
  /\ running[s] # None => requests[s] = Len(pending[s]) + 1

In(queue, task) == \E i \in 1 .. Len(queue) : queue[i] = task
Waiting(s, task) == In(pending[s], task)

(* Parts are stored while the epoch is open; when it is to be finished,    *)
(* the finalization is all that a thread may be busy with.                 *)
Scheduled(s) ==
  \A task \in Tasks : Waiting(s, task) \/ running[s] = task =>
    /\ threads /\ checkpointing[s]
    /\ task \in Additions => at[s] \in {"loop", "update"} /\ task.id \in id_check[s]
    /\ task = Finalization => at[s] = "finalize"

OfStep(s, results) == \A id \in DOMAIN results : results[id].step = current_step[s]

(* The background that is stored, or was until its runner failed, is of    *)
(* the step that the rank is in; the update works on all of it.            *)
Gathered(s) ==
  /\ \A id \in stored[s] : background[s][id].step = current_step[s]
  /\ at[s] \in {"update", "finalize", "next"} => stored[s] = Subsets /\ ~ restart[s]
  /\ checkpointing[s] =>
       /\ stored[s] \subseteq id_check[s]
       /\ \A id \in id_check[s] : background[s][id].step = current_step[s]

Written(s) ==
  /\ open_cp[s] \in Checkpoints
  /\ open_cp[s].epoch = current_step[s]
  /\ OfStep(s, open_cp[s].subsets)

(* What was handed to FTI is in the open checkpoint or waits for a thread. *)
Handed(s) ==
  checkpointing[s] =>
    /\ ~ restart[s]
    /\ Written(s)
    /\ \A id \in id_check[s] :
         \/ id \in DOMAIN open_cp[s].subsets
         \/ Waiting(s, Task("AddVarICP", id))
         \/ running[s] = Task("AddVarICP", id) /\ ~ ready[s]
    /\ at[s] = "finalize" => DOMAIN open_cp[s].subsets = Subsets

(* A rank calls FTI_FinalizeICP when its part of the checkpoint is complete. *)
Finished(s) ==
  s \in finalized =>
    /\ at[s] \notin {"loop", "update"}
    /\ Written(s)
    /\ DOMAIN open_cp[s].subsets = Subsets

NotAhead(s) == last_cp # None /\ ~ restart[s] => last_cp[s].epoch <= current_step[s]

RankInv(s) ==
  /\ Counted(s) /\ Scheduled(s) /\ Gathered(s) /\ Handed(s) /\ Finished(s) /\ NotAhead(s)

Inv ==
  /\ TypeOK /\ InStep /\ CheckpointOfOneStep
  /\ \A s \in ServerRanks : RankInv(s)

-----------------------------------------------------------------------------
(***************************************************************************)
(* Queues and the variables of a checkpoint.                               *)
(***************************************************************************)
(* What is in a queue after a task was added: the task and what was there. *)
LEMMA Appended ==
  ASSUME NEW queue \in Seq(Tasks), NEW added \in Tasks
  PROVE  /\ Append(queue, added) \in Seq(Tasks)
         /\ Len(Append(queue, added)) = Len(queue) + 1
         /\ \A task : In(Append(queue, added), task) <=> In(queue, task) \/ task = added
<1>1. /\ Append(queue, added) \in Seq(Tasks)
      /\ Len(Append(queue, added)) = Len(queue) + 1
      /\ Len(queue) \in Nat
  OBVIOUS
<1>2. \A i \in 1 .. Len(queue) : Append(queue, added)[i] = queue[i]
  OBVIOUS
<1>3. Append(queue, added)[Len(queue) + 1] = added
  OBVIOUS
<1> QED
  BY <1>1, <1>2, <1>3 DEF In

(* What is in a queue: its first task and what is behind it. *)
LEMMA Taken ==
  ASSUME NEW queue \in Seq(Tasks), queue # <<>>
  PROVE  /\ Head(queue) \in Tasks /\ Tail(queue) \in Seq(Tasks)
         /\ Len(queue) = Len(Tail(queue)) + 1
         /\ \A task : In(queue, task) <=> In(Tail(queue), task) \/ task = Head(queue)
<1>1. /\ Head(queue) \in Tasks /\ Tail(queue) \in Seq(Tasks)
      /\ Len(queue) = Len(Tail(queue)) + 1
      /\ Len(queue) \in Nat /\ Len(Tail(queue)) \in Nat /\ Head(queue) = queue[1]
  OBVIOUS
<1>2. \A i \in 1 .. Len(Tail(queue)) : Tail(queue)[i] = queue[i + 1]
  OBVIOUS
<1>3. ASSUME NEW task, In(queue, task) PROVE In(Tail(queue), task) \/ task = Head(queue)
  <2>1. PICK i \in 1 .. Len(queue) : queue[i] = task
    BY <1>3 DEF In
  <2>2. CASE i = 1
    BY <2>1, <2>2, <1>1
  <2>3. CASE i # 1
    <3>1. i - 1 \in 1 .. Len(Tail(queue)) /\ (i - 1) + 1 = i
      BY <2>1, <2>3, <1>1
    <3> QED
      BY <3>1, <2>1, <1>2 DEF In
  <2> QED
    BY <2>2, <2>3
<1>4. ASSUME NEW task, In(Tail(queue), task) \/ task = Head(queue) PROVE In(queue, task)
  BY <1>4, <1>1, <1>2 DEF In
<1> QED
  BY <1>1, <1>3, <1>4

(* A queue of length zero has nothing in it. *)
LEMMA NothingIn == \A task : ~ In(<<>>, task)
  BY DEF In

(* FTI_InitICP begins with no variable, and FTI_AddVarICP adds one. *)
LEMMA NothingAdded == <<>> \in Partial /\ DOMAIN <<>> = {}
<1>1. <<>> \in [{} -> Results] /\ DOMAIN <<>> = {}
  OBVIOUS
<1> QED
  BY <1>1 DEF Partial

LEMMA VariableAdded ==
  ASSUME NEW subsets \in Partial, NEW id \in Subsets, NEW v \in Results
  PROVE  [i \in DOMAIN subsets \cup {id} |-> IF i = id THEN v ELSE subsets[i]] \in Partial
<1>1. PICK ids \in SUBSET Subsets : subsets \in [ids -> Results]
  BY DEF Partial
<1>2. ids \cup {id} \in SUBSET Subsets
  OBVIOUS
<1>3. [i \in DOMAIN subsets \cup {id} |-> IF i = id THEN v ELSE subsets[i]] \in [ids \cup {id} -> Results]
  BY <1>1
<1> QED
  BY <1>2, <1>3 DEF Partial

(* A task is one or the other, and None is none. *)
LEMMA TaskKinds ==
  /\ None \notin Tasks
  /\ \A task \in Additions : task.does = "AddVarICP" /\ \E id \in Subsets : task = Task("AddVarICP", id)
  /\ Finalization.does = "FinalizeICP" /\ Finalization \notin Additions
  /\ \A id \in Subsets : Task("AddVarICP", id) \in Additions
  /\ \A id : Task("AddVarICP", id).id = id
<1>1. /\ \A task \in Additions : \E id \in Subsets : task = Task("AddVarICP", id)
      /\ \A id \in Subsets : Task("AddVarICP", id) \in Additions
  BY DEF Additions
<1>2. \A does, id : Task(does, id).does = does /\ Task(does, id).id = id
  BY DEF Task
<1>3. /\ \A id \in Subsets : None # Task("AddVarICP", id)
      /\ None # Finalization
  BY CheckpointAssumption DEF Finalization, Task, Subsets
<1>4. Finalization.does = "FinalizeICP"
  BY <1>2 DEF Finalization
<1> QED
  BY <1>1, <1>2, <1>3, <1>4 DEF Tasks

(* A rank whose variables do not change keeps its invariant. *)
LEMMA RankUntouched ==
  ASSUME NEW s \in ServerRanks, RankInv(s),
         threads' = threads, at'[s] = at[s], current_step'[s] = current_step[s],
         background'[s] = background[s], stored'[s] = stored[s],
         checkpointing'[s] = checkpointing[s], id_check'[s] = id_check[s],
         restart'[s] = restart[s], pending'[s] = pending[s], requests'[s] = requests[s],
         running'[s] = running[s], ready'[s] = ready[s], open_cp'[s] = open_cp[s],
         s \in finalized' <=> s \in finalized
  PROVE  (Counted(s) /\ Scheduled(s) /\ Gathered(s) /\ Handed(s) /\ Finished(s))'
<1>1. Counted(s)'
  BY DEF RankInv, Counted
<1>2. Scheduled(s)'
  BY DEF RankInv, Scheduled, Waiting
<1>3. Gathered(s)'
  BY DEF RankInv, Gathered
<1>4. Handed(s)'
  BY DEF RankInv, Handed, Written, OfStep, Waiting
<1>5. Finished(s)'
  BY DEF RankInv, Finished, Written, OfStep
<1> QED
  BY <1>1, <1>2, <1>3, <1>4, <1>5

-----------------------------------------------------------------------------
(***************************************************************************)
(* FTI's side of a checkpoint.                                             *)
(***************************************************************************)
(* When the last rank calls FTI_FinalizeICP every rank has its part, all   *)
(* are of the step that the ranks are in, and that is what then counts.    *)
LEMMA Finalizing ==
  ASSUME Inv, NEW s \in ServerRanks, checkpointing[s], DOMAIN open_cp[s].subsets = Subsets,
         FinalizeICP(s), UNCHANGED <<current_step, restart>>
  PROVE  /\ finalized' \subseteq ServerRanks
         /\ last_cp' \in [ServerRanks -> Checkpoints] \cup {None}
         /\ CheckpointOfOneStep'
         /\ \A u \in ServerRanks : NotAhead(u)'
<1>1. finalized' \subseteq ServerRanks
  BY DEF FinalizeICP, Inv, TypeOK
<1>2. CASE finalized' # ServerRanks
  <2>1. last_cp' = last_cp
    BY <1>2 DEF FinalizeICP
  <2>2. CheckpointOfOneStep'
    BY <2>1 DEF Inv, CheckpointOfOneStep
  <2>3. \A u \in ServerRanks : NotAhead(u)'
    BY <2>1 DEF Inv, RankInv, NotAhead
  <2> QED
    BY <1>1, <2>1, <2>2, <2>3 DEF Inv, TypeOK
<1>3. CASE finalized' = ServerRanks
  <2>1. last_cp' = open_cp
    BY <1>3 DEF FinalizeICP
  <2>2. \A u \in ServerRanks : u = s \/ u \in finalized
    BY <1>3 DEF FinalizeICP
  <2>3. \A u \in ServerRanks : Written(u) /\ DOMAIN open_cp[u].subsets = Subsets
    BY <2>2 DEF Inv, RankInv, Handed, Finished
  <2>4. \A u \in ServerRanks : current_step[u] = current_step[s]
    BY DEF Inv, InStep
  <2>5. current_step \in [ServerRanks -> 1 .. TotalSteps] /\ open_cp \in [ServerRanks -> Checkpoints]
    BY <2>3 DEF Inv, TypeOK, Written
  <2>6. \A u \in ServerRanks :
          /\ open_cp[u].epoch = current_step[s]
          /\ DOMAIN open_cp[u].subsets = Subsets
          /\ \A id \in Subsets : open_cp[u].subsets[id].step = current_step[s]
    BY <2>3, <2>4 DEF Written, OfStep
  <2>7. CheckpointOfOneStep'
    BY <2>1, <2>5, <2>6 DEF CheckpointOfOneStep
  <2>8. \A u \in ServerRanks : NotAhead(u)'
    BY <2>1, <2>4, <2>5, <2>6 DEF NotAhead
  <2> QED
    BY <1>1, <2>1, <2>5, <2>7, <2>8
<1> QED
  BY <1>2, <1>3

(* FTI_AddVarICP of a part of this step keeps the open checkpoint as it    *)
(* should be, and leaves those of other ranks alone.                       *)
LEMMA Adding ==
  ASSUME TypeOK, NEW s \in ServerRanks, NEW id \in Subsets, NEW values \in [Subsets -> Results],
         Written(s), values[id].step = current_step[s],
         AddVarICP(s, id, values), UNCHANGED current_step
  PROVE  /\ open_cp' \in [ServerRanks -> Checkpoints \cup {None}]
         /\ \A u \in ServerRanks \ {s} : open_cp'[u] = open_cp[u]
         /\ DOMAIN open_cp'[s].subsets = DOMAIN open_cp[s].subsets \cup {id}
         /\ Written(s)'
<1> DEFINE subsets == open_cp[s].subsets
           added == [i \in DOMAIN subsets \cup {id} |-> IF i = id THEN values[id] ELSE subsets[i]]
<1>1. open_cp[s] \in Checkpoints /\ subsets \in Partial
  BY DEF Written, Checkpoints
<1>2. added \in Partial
  BY <1>1, VariableAdded
<1>3. /\ open_cp' = [open_cp EXCEPT ![s].subsets = added]
      /\ open_cp \in [ServerRanks -> Checkpoints \cup {None}]
  BY DEF AddVarICP, TypeOK
<1>4. /\ open_cp'[s] = [open_cp[s] EXCEPT !.subsets = added]
      /\ \A u \in ServerRanks \ {s} : open_cp'[u] = open_cp[u]
  BY <1>3
<1>5. /\ open_cp'[s] \in Checkpoints
      /\ open_cp'[s].epoch = open_cp[s].epoch /\ open_cp'[s].subsets = added
  BY <1>1, <1>2, <1>4 DEF Checkpoints
<1>6. open_cp' \in [ServerRanks -> Checkpoints \cup {None}]
  BY <1>3, <1>4, <1>5
<1>7. \A i \in DOMAIN added : added[i].step = current_step[s]
  BY DEF Written, OfStep
<1>8. Written(s)'
  BY <1>5, <1>7 DEF Written, OfStep
<1> QED
  BY <1>4, <1>5, <1>6, <1>8

-----------------------------------------------------------------------------
(***************************************************************************)
(* Each step keeps the invariant.                                          *)
(***************************************************************************)
LEMMA InitInv == Init => Inv
<1> SUFFICES ASSUME Init PROVE Inv
  OBVIOUS
<1> USE DEF Init, Everywhere
<1>1. /\ 1 \in 1 .. TotalSteps /\ Blank \in Results /\ <<>> \in Seq(Tasks)
      /\ 0 \in Nat /\ 1 \in Nat /\ Len(<<>>) = 0
  BY CheckpointAssumption DEF Blank, Results
<1>2. TypeOK
  BY <1>1, CheckpointAssumption DEF TypeOK, Places
<1>3. InStep /\ CheckpointOfOneStep
  BY DEF InStep, CheckpointOfOneStep
<1>4. ASSUME NEW s \in ServerRanks PROVE RankInv(s)
  <2>1. Counted(s) /\ Gathered(s)
    BY <1>1 DEF Counted, Gathered
  <2>2. Scheduled(s)
    BY NothingIn, TaskKinds DEF Scheduled, Waiting
  <2>3. Handed(s) /\ Finished(s) /\ NotAhead(s)
    BY DEF Handed, Finished, NotAhead
  <2> QED
    BY <2>1, <2>2, <2>3 DEF RankInv
<1> QED
  BY <1>2, <1>3, <1>4 DEF Inv

(* A part comes in: it is stored, and handed to FTI if it is the first of  *)
(* its member and runner rank in this step.                                *)
LEMMA StorePartStep ==
  ASSUME Inv, NEW s \in ServerRanks, StorePart(s)
  PROVE  Inv'
<1> USE DEF Inv
<1>1. PICK id \in Subsets \ stored[s] :
        /\ stored' = [stored EXCEPT ![s] = @ \cup {id}]
        /\ background' = [background EXCEPT ![s][id] =
             [step |-> current_step[s], try |-> tries[id[1]]]]
        /\ store_subset(s, id)
  BY DEF StorePart
<1>2. /\ at[s] = "loop"
      /\ UNCHANGED <<threads, at, current_step, tries, checkpointing, restart, running, ready, finalized, last_cp>>
  BY DEF StorePart, loop, bounds
<1>3. [step |-> current_step[s], try |-> tries[id[1]]] \in Results
  <2>1. id[1] \in Members
    BY DEF Subsets
  <2> QED
    BY <2>1 DEF TypeOK, Results
<1>4. /\ background'[s] \in [Subsets -> Results]
      /\ background'[s][id].step = current_step[s]
      /\ \A i \in Subsets \ {id} : background'[s][i] = background[s][i]
      /\ \A u \in ServerRanks \ {s} : background'[u] = background[u]
      /\ background' \in [ServerRanks -> [Subsets -> Results]]
  BY <1>1, <1>3 DEF TypeOK
<1>5. /\ stored'[s] = stored[s] \cup {id}
      /\ \A u \in ServerRanks \ {s} : stored'[u] = stored[u]
      /\ stored' \in [ServerRanks -> SUBSET Subsets]
  BY <1>1 DEF TypeOK
<1>6. InStep'
  BY <1>2 DEF InStep
<1>7. CheckpointOfOneStep' /\ \A u \in ServerRanks : NotAhead(u)'
  BY <1>2 DEF CheckpointOfOneStep, RankInv, NotAhead
<1>8. Finished(s)'
  BY <1>2 DEF RankInv, Finished
<1>9. CASE ~ (checkpointing[s] /\ id \notin id_check[s])
  <2>1. UNCHANGED <<id_check, pending, requests, open_cp>>
    BY <1>1, <1>9 DEF store_subset
  <2>2. TypeOK'
    BY <1>2, <1>4, <1>5, <2>1 DEF TypeOK
  <2>3. Counted(s)' /\ Scheduled(s)'
    BY <1>2, <2>1 DEF RankInv, Counted, Scheduled, Waiting
  <2>4. Gathered(s)'
    <3>1. at'[s] = "loop" /\ stored[s] \subseteq Subsets /\ id_check[s] \subseteq Subsets /\ Gathered(s)
      BY <1>2 DEF RankInv, TypeOK
    <3>2. \A i \in Subsets : background[s][i].step = current_step[s] => background'[s][i].step = current_step'[s]
      BY <1>2, <1>4
    <3> QED
      BY <1>2, <1>4, <1>5, <1>9, <2>1, <3>1, <3>2 DEF Gathered
  <2>5. Handed(s)'
    BY <1>2, <2>1 DEF RankInv, Handed, Written, OfStep, Waiting
  <2>6. ASSUME NEW u \in ServerRanks, u # s PROVE (Counted(u) /\ Scheduled(u) /\ Gathered(u) /\ Handed(u) /\ Finished(u))'
    BY <1>2, <1>4, <1>5, <2>1, <2>6, RankUntouched
  <2> QED
    BY <1>6, <1>7, <1>8, <2>2, <2>3, <2>4, <2>5, <2>6 DEF RankInv
<1>10. CASE checkpointing[s] /\ id \notin id_check[s]
  <2>1. /\ id_check'[s] = id_check[s] \cup {id}
        /\ \A u \in ServerRanks \ {s} : id_check'[u] = id_check[u]
        /\ id_check' \in [ServerRanks -> SUBSET Subsets]
    <3>1. id_check' = [id_check EXCEPT ![s] = @ \cup {id}]
      BY <1>1, <1>10 DEF store_subset
    <3>2. id_check \in [ServerRanks -> SUBSET Subsets]
      BY DEF TypeOK
    <3> QED
      BY <3>1, <3>2
  <2>2. Gathered(s)'
    BY <1>2, <1>4, <1>5, <2>1 DEF RankInv, Gathered, TypeOK
  <2>3. CASE threads
    <3>1. submit(s, Task("AddVarICP", id)) /\ UNCHANGED open_cp
      BY <1>1, <1>10, <2>3 DEF store_subset
    <3>2. Task("AddVarICP", id) \in Tasks /\ Task("AddVarICP", id) \in Additions
      BY TaskKinds DEF Tasks
    <3>3. pending[s] \in Seq(Tasks) /\ requests[s] \in Nat /\ Len(pending[s]) \in Nat
      BY DEF TypeOK
    <3>4. /\ pending'[s] = Append(pending[s], Task("AddVarICP", id))
          /\ requests'[s] = requests[s] + 1
          /\ \A u \in ServerRanks \ {s} : pending'[u] = pending[u] /\ requests'[u] = requests[u]
      BY <3>1 DEF submit, TypeOK
    <3>5. /\ pending'[s] \in Seq(Tasks)
          /\ Len(pending'[s]) = Len(pending[s]) + 1
          /\ \A task : Waiting(s, task)' <=> Waiting(s, task) \/ task = Task("AddVarICP", id)
      BY <3>2, <3>3, <3>4, Appended DEF Waiting
    <3>6. pending' \in [ServerRanks -> Seq(Tasks)] /\ requests' \in [ServerRanks -> Nat]
      <4>1. /\ pending' = [pending EXCEPT ![s] = Append(pending[s], Task("AddVarICP", id))]
            /\ requests' = [requests EXCEPT ![s] = requests[s] + 1]
        BY <3>1 DEF submit
      <4>2. pending \in [ServerRanks -> Seq(Tasks)] /\ requests \in [ServerRanks -> Nat]
        BY DEF TypeOK
      <4> QED
        BY <4>1, <4>2, <3>3, <3>4, <3>5
    <3>7. TypeOK'
      BY <1>2, <1>4, <1>5, <2>1, <3>1, <3>6 DEF TypeOK
    <3>8. Counted(s)'
      <4>1. Counted(s)
        BY DEF RankInv
      <4>2. running'[s] = running[s]
        BY <1>2
      <4>3. requests'[s] = requests[s] + 1
        BY <3>4
      <4>4. Len(pending'[s]) = Len(pending[s]) + 1
        BY <3>5
      <4> QED
        BY <4>1, <4>2, <4>3, <4>4, <3>3 DEF Counted
    <3>9. Scheduled(s)'
      <4>1. Task("AddVarICP", id).id \in id_check'[s] /\ id_check[s] \subseteq id_check'[s]
        BY <2>1, TaskKinds
      <4>2. ASSUME NEW task \in Tasks, Waiting(s, task) \/ running[s] = task
            PROVE  /\ task \in Additions => at'[s] \in {"loop", "update"} /\ task.id \in id_check'[s]
                   /\ task = Finalization => at'[s] = "finalize"
        BY <1>2, <4>1, <4>2 DEF RankInv, Scheduled
      <4> QED
        BY <1>2, <1>10, <2>3, <3>2, <3>5, <4>1, <4>2, TaskKinds DEF Scheduled
    <3>10. Handed(s)'
      BY <1>2, <2>1, <3>1, <3>5 DEF RankInv, Handed, Written, OfStep
    <3>11. ASSUME NEW u \in ServerRanks, u # s PROVE (Counted(u) /\ Scheduled(u) /\ Gathered(u) /\ Handed(u) /\ Finished(u))'
      BY <1>2, <1>4, <1>5, <2>1, <3>1, <3>4, <3>11, RankUntouched
    <3> QED
      BY <1>6, <1>7, <1>8, <2>2, <3>7, <3>8, <3>9, <3>10, <3>11 DEF RankInv
  <2>4. CASE ~ threads
    <3>1. AddVarICP(s, id, background'[s]) /\ UNCHANGED <<pending, requests>>
      BY <1>1, <1>10, <2>4 DEF store_subset
    <3>2. Written(s)
      BY <1>10 DEF RankInv, Handed
    <3>3. /\ open_cp' \in [ServerRanks -> Checkpoints \cup {None}]
          /\ \A u \in ServerRanks \ {s} : open_cp'[u] = open_cp[u]
          /\ DOMAIN open_cp'[s].subsets = DOMAIN open_cp[s].subsets \cup {id}
          /\ Written(s)'
      BY <1>2, <1>4, <3>1, <3>2, Adding
    <3>4. TypeOK'
      BY <1>2, <1>4, <1>5, <2>1, <3>1, <3>3 DEF TypeOK
    <3>5. Counted(s)' /\ Scheduled(s)'
      BY <1>2, <2>4, <3>1 DEF RankInv, Counted, Scheduled, Waiting
    <3>6. Handed(s)'
      BY <1>2, <2>1, <3>1, <3>3 DEF RankInv, Handed, Waiting
    <3>7. ASSUME NEW u \in ServerRanks, u # s PROVE (Counted(u) /\ Scheduled(u) /\ Gathered(u) /\ Handed(u) /\ Finished(u))'
      BY <1>2, <1>4, <1>5, <2>1, <3>1, <3>3, <3>7, RankUntouched
    <3> QED
      BY <1>6, <1>7, <1>8, <2>2, <3>4, <3>5, <3>6, <3>7 DEF RankInv
  <2> QED
    BY <2>3, <2>4
<1> QED
  BY <1>9, <1>10

(* A thread takes the first task of the queue. *)
LEMMA StartTaskStep ==
  ASSUME Inv, NEW s \in ServerRanks, StartTask(s)
  PROVE  Inv'
<1> USE DEF Inv
<1>1. /\ running[s] = None /\ pending[s] # <<>>
      /\ running' = [running EXCEPT ![s] = Head(pending[s])]
      /\ ready' = [ready EXCEPT ![s] = FALSE]
      /\ pending' = [pending EXCEPT ![s] = Tail(pending[s])]
      /\ UNCHANGED <<loop, ensemble, module, requests, fti, bounds>>
  BY DEF StartTask
<1>2. UNCHANGED <<at, current_step, tries, background, stored, checkpointing, id_check, restart,
                  requests, open_cp, finalized, last_cp, threads>>
  BY <1>1 DEF loop, ensemble, module, fti, bounds
<1>3. pending[s] \in Seq(Tasks) /\ requests[s] \in Nat
  BY DEF TypeOK
<1>4. /\ Head(pending[s]) \in Tasks /\ Tail(pending[s]) \in Seq(Tasks)
      /\ Len(pending[s]) = Len(Tail(pending[s])) + 1
      /\ \A task : In(pending[s], task) <=> In(Tail(pending[s]), task) \/ task = Head(pending[s])
  BY <1>1, <1>3, Taken
<1>5. /\ running' \in [ServerRanks -> Tasks \cup {None}]
      /\ ready' \in [ServerRanks -> BOOLEAN]
      /\ pending' \in [ServerRanks -> Seq(Tasks)]
  <2>1. running \in [ServerRanks -> Tasks \cup {None}] /\ ready \in [ServerRanks -> BOOLEAN]
        /\ pending \in [ServerRanks -> Seq(Tasks)]
    BY DEF TypeOK
  <2> QED
    BY <1>1, <1>4, <2>1
<1>6. /\ running'[s] = Head(pending[s]) /\ ~ ready'[s] /\ pending'[s] = Tail(pending[s])
      /\ \A u \in ServerRanks \ {s} : running'[u] = running[u] /\ ready'[u] = ready[u] /\ pending'[u] = pending[u]
  BY <1>1 DEF TypeOK
<1>7. TypeOK'
  BY <1>2, <1>5 DEF TypeOK
<1>8. InStep' /\ CheckpointOfOneStep' /\ \A u \in ServerRanks : NotAhead(u)'
  BY <1>2 DEF InStep, CheckpointOfOneStep, RankInv, NotAhead
<1>9. Counted(s)'
  <2>1. requests[s] = Len(pending[s])
    BY <1>1 DEF RankInv, Counted
  <2>2. running'[s] # None
    BY <1>4, <1>6, TaskKinds
  <2>3. requests'[s] = requests[s] /\ Len(pending'[s]) = Len(Tail(pending[s]))
    BY <1>2, <1>6
  <2> QED
    BY <2>1, <2>2, <2>3, <1>4 DEF Counted
<1>10. \A task \in Tasks :
         Waiting(s, task) \/ running[s] = task <=> (Waiting(s, task) \/ running[s] = task)'
  BY <1>1, <1>4, <1>6, TaskKinds DEF Waiting
<1>11. Scheduled(s)'
  BY <1>2, <1>10 DEF RankInv, Scheduled
<1>12. Gathered(s)' /\ Finished(s)'
  BY <1>2 DEF RankInv, Gathered, Finished, Written, OfStep
<1>13. Handed(s)'
  <2>1. ASSUME NEW id \in Subsets, Waiting(s, Task("AddVarICP", id))
        PROVE  (Waiting(s, Task("AddVarICP", id)) \/ (running[s] = Task("AddVarICP", id) /\ ~ ready[s]))'
    BY <2>1, <1>4, <1>6 DEF Waiting
  <2>2. id_check[s] \subseteq Subsets /\ \A id \in Subsets : running[s] # Task("AddVarICP", id)
    BY <1>1, TaskKinds DEF TypeOK, Tasks
  <2> QED
    BY <1>2, <2>1, <2>2 DEF RankInv, Handed, Written, OfStep
<1>14. ASSUME NEW u \in ServerRanks, u # s PROVE (Counted(u) /\ Scheduled(u) /\ Gathered(u) /\ Handed(u) /\ Finished(u))'
  BY <1>2, <1>6, <1>14, RankUntouched
<1> QED
  BY <1>7, <1>8, <1>9, <1>11, <1>12, <1>13, <1>14 DEF RankInv

(* A task that is done leaves the thread. *)
LEMMA JoinTaskStep ==
  ASSUME Inv, NEW s \in ServerRanks, JoinTask(s)
  PROVE  Inv'
<1> USE DEF Inv
<1>1. /\ running[s] # None /\ ready[s]
      /\ running' = [running EXCEPT ![s] = None]
      /\ requests' = [requests EXCEPT ![s] = requests[s] - 1]
      /\ UNCHANGED <<loop, ensemble, module, pending, ready, fti, bounds>>
  BY DEF JoinTask
<1>2. UNCHANGED <<at, current_step, tries, background, stored, checkpointing, id_check, restart,
                  pending, ready, open_cp, finalized, last_cp, threads>>
  BY <1>1 DEF loop, ensemble, module, fti, bounds
<1>3. requests[s] = Len(pending[s]) + 1 /\ Len(pending[s]) \in Nat
  BY <1>1 DEF RankInv, Counted, TypeOK
<1>4. /\ running'[s] = None /\ requests'[s] = Len(pending[s])
      /\ \A u \in ServerRanks \ {s} : running'[u] = running[u] /\ requests'[u] = requests[u]
      /\ running' \in [ServerRanks -> Tasks \cup {None}]
      /\ requests' \in [ServerRanks -> Nat]
  <2>1. running \in [ServerRanks -> Tasks \cup {None}] /\ requests \in [ServerRanks -> Nat]
    BY DEF TypeOK
  <2>2. requests[s] - 1 = Len(pending[s])
    BY <1>3
  <2> QED
    BY <1>1, <1>3, <2>1, <2>2
<1>5. TypeOK'
  BY <1>2, <1>4 DEF TypeOK
<1>6. InStep' /\ CheckpointOfOneStep' /\ \A u \in ServerRanks : NotAhead(u)'
  BY <1>2 DEF InStep, CheckpointOfOneStep, RankInv, NotAhead
<1>7. Counted(s)'
  BY <1>2, <1>4 DEF Counted
<1>8. Scheduled(s)'
  BY <1>2, <1>4, TaskKinds DEF RankInv, Scheduled, Waiting
<1>9. Gathered(s)' /\ Finished(s)'
  BY <1>2 DEF RankInv, Gathered, Finished, Written, OfStep
<1>10. Handed(s)'
  BY <1>1, <1>2 DEF RankInv, Handed, Written, OfStep, Waiting
<1>11. ASSUME NEW u \in ServerRanks, u # s PROVE (Counted(u) /\ Scheduled(u) /\ Gathered(u) /\ Handed(u) /\ Finished(u))'
  BY <1>2, <1>4, <1>11, RankUntouched
<1> QED
  BY <1>5, <1>6, <1>7, <1>8, <1>9, <1>10, <1>11 DEF RankInv

(* A thread runs its task: it adds a part to the checkpoint, or finalizes  *)
(* it and waits for the other ranks.                                       *)
LEMMA RunTaskStep ==
  ASSUME Inv, NEW s \in ServerRanks, RunTask(s)
  PROVE  Inv'
<1> USE DEF Inv
<1>1. /\ running[s] # None /\ ~ ready[s]
      /\ UNCHANGED <<at, current_step, tries, background, stored, checkpointing, id_check, restart,
                     pending, requests, running, threads>>
  BY DEF RunTask, loop, ensemble, module, bounds
<1>2. running[s] \in Tasks /\ running \in [ServerRanks -> Tasks \cup {None}] /\ ready \in [ServerRanks -> BOOLEAN]
  BY <1>1 DEF TypeOK
<1>3. threads /\ checkpointing[s]
  BY <1>2 DEF RankInv, Scheduled
<1>4. InStep' /\ \A u \in ServerRanks : (Counted(u) /\ Scheduled(u) /\ Gathered(u))'
  BY <1>1 DEF InStep, RankInv, Counted, Scheduled, Gathered, Waiting
<1>5. CASE /\ running[s].does = "AddVarICP"
           /\ AddVarICP(s, running[s].id, background[s])
           /\ ready' = [ready EXCEPT ![s] = TRUE]
           /\ UNCHANGED <<finalized, last_cp>>
  <2>1. PICK id \in Subsets : running[s] = Task("AddVarICP", id) /\ running[s].id = id /\ running[s] \in Additions
    <3>1. running[s] \in Additions
      BY <1>2, <1>5, TaskKinds DEF Tasks
    <3> QED
      BY <3>1, TaskKinds
  <2>2. at[s] \in {"loop", "update"} /\ id \in id_check[s]
    BY <1>2, <2>1 DEF RankInv, Scheduled
  <2>3. Written(s) /\ background[s][id].step = current_step[s] /\ background[s] \in [Subsets -> Results]
    BY <1>3, <2>2 DEF RankInv, Handed, Gathered, TypeOK
  <2>4. /\ open_cp' \in [ServerRanks -> Checkpoints \cup {None}]
        /\ \A u \in ServerRanks \ {s} : open_cp'[u] = open_cp[u]
        /\ DOMAIN open_cp'[s].subsets = DOMAIN open_cp[s].subsets \cup {id}
        /\ Written(s)'
    BY <1>1, <1>5, <2>1, <2>3, Adding
  <2>5. /\ ready'[s] /\ ready' \in [ServerRanks -> BOOLEAN]
        /\ \A u \in ServerRanks \ {s} : ready'[u] = ready[u]
    BY <1>2, <1>5
  <2>6. TypeOK'
    BY <1>1, <1>5, <2>4, <2>5 DEF TypeOK
  <2>7. CheckpointOfOneStep' /\ \A u \in ServerRanks : NotAhead(u)'
    BY <1>1, <1>5 DEF CheckpointOfOneStep, RankInv, NotAhead
  <2>8. Finished(s)'
    BY <1>1, <1>5, <2>2 DEF RankInv, Finished
  <2>9. Handed(s)'
    <3>1. ASSUME NEW i \in id_check[s], i # id
          PROVE  \/ i \in DOMAIN open_cp'[s].subsets
                 \/ Waiting(s, Task("AddVarICP", i))'
      <4>1. running[s] # Task("AddVarICP", i)
        BY <3>1, <2>1, TaskKinds
      <4> QED
        BY <4>1, <1>1, <1>3, <2>4 DEF RankInv, Handed, Waiting
    <3>2. ~ restart'[s] /\ at'[s] # "finalize"
      BY <1>1, <1>3, <2>2 DEF RankInv, Handed
    <3> QED
      BY <1>1, <2>4, <3>1, <3>2 DEF Handed
  <2>10. ASSUME NEW u \in ServerRanks, u # s PROVE (Counted(u) /\ Scheduled(u) /\ Gathered(u) /\ Handed(u) /\ Finished(u))'
    BY <1>1, <1>5, <2>4, <2>5, <2>10, RankUntouched
  <2> QED
    BY <1>4, <2>6, <2>7, <2>8, <2>9, <2>10 DEF RankInv
<1>6. ASSUME running[s].does = "FinalizeICP"
      PROVE  /\ at[s] = "finalize" /\ DOMAIN open_cp[s].subsets = Subsets /\ Written(s) /\ ~ restart[s]
             /\ \A id \in Subsets : running[s] # Task("AddVarICP", id)
  <2>1. running[s] = Finalization
    BY <1>2, <1>6, TaskKinds DEF Tasks
  <2>2. at[s] = "finalize"
    BY <1>2, <2>1 DEF RankInv, Scheduled
  <2>3. DOMAIN open_cp[s].subsets = Subsets /\ Written(s) /\ ~ restart[s]
    BY <1>3, <2>2 DEF RankInv, Handed
  <2> QED
    BY <2>1, <2>2, <2>3, TaskKinds
<1>7. CASE /\ running[s].does = "FinalizeICP" /\ s \notin finalized
           /\ FinalizeICP(s)
           /\ UNCHANGED <<open_cp, ready>>
  <2>1. /\ finalized' \subseteq ServerRanks
        /\ last_cp' \in [ServerRanks -> Checkpoints] \cup {None}
        /\ CheckpointOfOneStep'
        /\ \A u \in ServerRanks : NotAhead(u)'
    BY <1>1, <1>3, <1>6, <1>7, Finalizing
  <2>2. TypeOK'
    BY <1>1, <1>7, <2>1 DEF TypeOK
  <2>3. Finished(s)' /\ Handed(s)'
    BY <1>1, <1>6, <1>7 DEF RankInv, Finished, Handed, Written, OfStep, Waiting
  <2>4. ASSUME NEW u \in ServerRanks, u # s PROVE (Counted(u) /\ Scheduled(u) /\ Gathered(u) /\ Handed(u) /\ Finished(u))'
    <3>1. u \in finalized' <=> u \in finalized
      BY <1>7, <2>4 DEF FinalizeICP
    <3> QED
      BY <1>1, <1>7, <2>4, <3>1, RankUntouched
  <2> QED
    BY <1>4, <2>1, <2>2, <2>3, <2>4 DEF RankInv
<1>8. CASE /\ running[s].does = "FinalizeICP" /\ finalized = ServerRanks
           /\ ready' = [ready EXCEPT ![s] = TRUE]
           /\ UNCHANGED fti
  <2>1. UNCHANGED <<open_cp, finalized, last_cp>>
    BY <1>8 DEF fti
  <2>2. /\ ready' \in [ServerRanks -> BOOLEAN]
        /\ \A u \in ServerRanks \ {s} : ready'[u] = ready[u]
    BY <1>2, <1>8
  <2>3. TypeOK'
    BY <1>1, <2>1, <2>2 DEF TypeOK
  <2>4. CheckpointOfOneStep' /\ \A u \in ServerRanks : NotAhead(u)'
    BY <1>1, <2>1 DEF CheckpointOfOneStep, RankInv, NotAhead
  <2>5. Finished(s)' /\ Handed(s)'
    BY <1>1, <1>6, <1>8, <2>1 DEF RankInv, Finished, Handed, Written, OfStep, Waiting, TypeOK
  <2>6. ASSUME NEW u \in ServerRanks, u # s PROVE (Counted(u) /\ Scheduled(u) /\ Gathered(u) /\ Handed(u) /\ Finished(u))'
    BY <1>1, <2>1, <2>2, <2>6, RankUntouched
  <2> QED
    BY <1>4, <2>3, <2>4, <2>5, <2>6 DEF RankInv
<1> QED
  BY <1>5, <1>7, <1>8 DEF RunTask

(* A member is propagated again: its parts are dropped from what is stored. *)
LEMMA RetryStep ==
  ASSUME Inv, NEW m \in Members, Retry(m)
  PROVE  Inv'
<1> USE DEF Inv
<1>1. /\ \A s \in ServerRanks : at[s] = "loop"
      /\ tries' = [tries EXCEPT ![m] = @ + 1]
      /\ stored' = [s \in ServerRanks |-> {id \in stored[s] : id[1] # m}]
      /\ UNCHANGED <<at, current_step, background, checkpointing, id_check, restart, pending, requests,
                     running, ready, open_cp, finalized, last_cp, threads>>
  BY DEF Retry, module, scheduler, fti
<1>2. \A s \in ServerRanks : stored'[s] \subseteq stored[s]
  BY <1>1
<1>3. TypeOK'
  <2>1. tries \in [Members -> Nat] /\ stored \in [ServerRanks -> SUBSET Subsets]
    BY DEF TypeOK
  <2>2. tries' \in [Members -> Nat] /\ stored' \in [ServerRanks -> SUBSET Subsets]
    BY <1>1, <1>2, <2>1
  <2> QED
    BY <1>1, <2>2 DEF TypeOK
<1>4. InStep' /\ CheckpointOfOneStep'
  BY <1>1 DEF InStep, CheckpointOfOneStep
<1>5. ASSUME NEW s \in ServerRanks PROVE RankInv(s)'
  <2>1. Counted(s)' /\ Scheduled(s)'
    BY <1>1 DEF RankInv, Counted, Scheduled, Waiting
  <2>2. Gathered(s)'
    BY <1>1, <1>2 DEF RankInv, Gathered
  <2>3. Handed(s)' /\ Finished(s)' /\ NotAhead(s)'
    BY <1>1 DEF RankInv, Handed, Finished, NotAhead, Written, OfStep, Waiting
  <2> QED
    BY <2>1, <2>2, <2>3 DEF RankInv
<1> QED
  BY <1>3, <1>4, <1>5

(* The update begins on all ranks, from the checkpoint if the server was   *)
(* restarted and has one.  A rank that recovers writes no checkpoint.      *)
LEMMA BeginUpdateStep ==
  ASSUME Inv, BeginUpdate
  PROVE  Inv'
<1> USE DEF Inv
<1>1. /\ \A s \in ServerRanks : at[s] = "loop" /\ stored[s] = Subsets
      /\ at' = [s \in ServerRanks |-> "update"]
      /\ restart' = [s \in ServerRanks |-> FALSE]
      /\ current_step' = [s \in ServerRanks |-> RecoveredStep(s)]
      /\ background' = [s \in ServerRanks |-> [id \in Subsets |->
           IF Recovers(s) THEN last_cp[s].subsets[id] ELSE background[s][id]]]
      /\ UNCHANGED <<tries, stored, checkpointing, id_check, pending, requests, running, ready,
                     open_cp, finalized, last_cp, threads>>
  BY DEF BeginUpdate, Everywhere, scheduler, fti, bounds
<1>2. ASSUME NEW s \in ServerRanks, Recovers(s)
      PROVE  /\ last_cp[s] \in Checkpoints /\ last_cp[s].subsets \in [Subsets -> Results]
             /\ \A id \in Subsets : last_cp[s].subsets[id].step = last_cp[s].epoch
             /\ ~ checkpointing[s]
             /\ \A u \in ServerRanks : Recovers(u) /\ last_cp[u].epoch = last_cp[s].epoch
  <2>1. last_cp # None /\ restart[s]
    BY <1>2 DEF Recovers
  <2>2. last_cp[s] \in Checkpoints
    BY <2>1 DEF TypeOK
  <2>3. PICK epoch \in 1 .. TotalSteps : \A u \in ServerRanks :
          /\ last_cp[u].epoch = epoch
          /\ DOMAIN last_cp[u].subsets = Subsets
          /\ \A id \in Subsets : last_cp[u].subsets[id].step = epoch
    BY <2>1 DEF CheckpointOfOneStep
  <2>4. last_cp[s].subsets \in [Subsets -> Results]
    <3>1. PICK ids \in SUBSET Subsets : last_cp[s].subsets \in [ids -> Results]
      BY <2>2 DEF Checkpoints, Partial
    <3>2. ids = Subsets
      BY <2>3, <3>1
    <3> QED
      BY <3>1, <3>2
  <2>5. ~ checkpointing[s]
    BY <2>1 DEF RankInv, Handed
  <2>6. \A u \in ServerRanks : Recovers(u)
    BY <2>1 DEF InStep, Recovers
  <2> QED
    BY <2>2, <2>3, <2>4, <2>5, <2>6
<1>3. ASSUME NEW s \in ServerRanks
      PROVE  /\ RecoveredStep(s) \in 1 .. TotalSteps
             /\ background'[s] \in [Subsets -> Results]
             /\ \A id \in Subsets : background'[s][id].step = current_step'[s]
             /\ last_cp # None => last_cp[s].epoch <= current_step'[s]
             /\ ~ Recovers(s) => current_step'[s] = current_step[s] /\ background'[s] = background[s]
  <2>1. background[s] \in [Subsets -> Results] /\ current_step[s] \in 1 .. TotalSteps
    BY DEF TypeOK
  <2>2. /\ current_step'[s] = RecoveredStep(s)
        /\ background'[s] = [id \in Subsets |-> IF Recovers(s) THEN last_cp[s].subsets[id] ELSE background[s][id]]
    BY <1>1
  <2>3. CASE Recovers(s)
    <3>1. RecoveredStep(s) = last_cp[s].epoch
      BY <2>3 DEF RecoveredStep
    <3>2. last_cp[s].epoch \in 1 .. TotalSteps
      BY <1>2, <2>3 DEF Checkpoints
    <3> QED
      BY <1>2, <2>2, <2>3, <3>1, <3>2
  <2>4. CASE ~ Recovers(s)
    <3>1. RecoveredStep(s) = current_step[s]
      BY <2>4 DEF RecoveredStep
    <3>2. background'[s] = background[s]
      BY <2>1, <2>2, <2>4
    <3>3. \A id \in Subsets : background[s][id].step = current_step[s]
      BY <1>1 DEF RankInv, Gathered
    <3>4. last_cp # None => last_cp[s].epoch <= current_step[s]
      BY <2>4 DEF RankInv, NotAhead, Recovers
    <3> QED
      BY <2>1, <2>2, <2>4, <3>1, <3>2, <3>3, <3>4
  <2> QED
    BY <2>3, <2>4
<1>4. TypeOK'
  <2>1. at' \in [ServerRanks -> Places] /\ restart' \in [ServerRanks -> BOOLEAN]
    BY <1>1 DEF Places
  <2>2. current_step' \in [ServerRanks -> 1 .. TotalSteps]
    BY <1>1, <1>3
  <2>3. background' \in [ServerRanks -> [Subsets -> Results]]
    BY <1>1, <1>3
  <2> QED
    BY <1>1, <2>1, <2>2, <2>3 DEF TypeOK
<1>5. InStep'
  <2>1. \A s, u \in ServerRanks : RecoveredStep(s) = RecoveredStep(u)
    BY <1>2 DEF InStep, RecoveredStep
  <2> QED
    BY <1>1, <2>1 DEF InStep
<1>6. CheckpointOfOneStep'
  BY <1>1 DEF CheckpointOfOneStep
<1>7. ASSUME NEW s \in ServerRanks PROVE RankInv(s)'
  <2>1. at'[s] = "update" /\ ~ restart'[s]
    BY <1>1
  <2>2. Counted(s)' /\ Scheduled(s)'
    BY <1>1, <2>1 DEF RankInv, Counted, Scheduled, Waiting
  <2>3. Gathered(s)'
    BY <1>1, <1>3 DEF RankInv, Gathered, TypeOK
  <2>4. checkpointing[s] => current_step'[s] = current_step[s]
    BY <1>2, <1>3
  <2>5. Handed(s)'
    BY <1>1, <2>1, <2>4 DEF RankInv, Handed, Written, OfStep, Waiting
  <2>6. Finished(s)'
    BY <1>1 DEF RankInv, Finished
  <2>7. NotAhead(s)'
    BY <1>1, <1>3 DEF NotAhead
  <2> QED
    BY <2>2, <2>3, <2>5, <2>6, <2>7 DEF RankInv
<1> QED
  BY <1>4, <1>5, <1>6, <1>7

(* A rank asks for its checkpoint to be finished, when no part waits. *)
LEMMA flushCPStep ==
  ASSUME Inv, NEW s \in ServerRanks, flushCP(s)
  PROVE  Inv'
<1> USE DEF Inv
<1>1. /\ at[s] = "update"
      /\ at' = [at EXCEPT ![s] = "finalize"]
      /\ UNCHANGED <<current_step, tries, background, stored, checkpointing, id_check, restart,
                     running, ready, open_cp, finalized, last_cp, threads>>
  BY DEF flushCP, ensemble, module, fti, bounds
<1>2. /\ at'[s] = "finalize" /\ \A u \in ServerRanks \ {s} : at'[u] = at[u]
      /\ at' \in [ServerRanks -> Places]
  BY <1>1 DEF TypeOK, Places
<1>3. requests[s] \in Nat /\ pending[s] \in Seq(Tasks) /\ Len(pending[s]) \in Nat /\ Len(<<>>) = 0
  BY DEF TypeOK
<1>4. running[s] = None /\ \A task \in Tasks : ~ Waiting(s, task)
  <2>1. CASE checkpointing[s] /\ threads
    <3>1. pending[s] = <<>> /\ requests[s] = 0
      BY <1>1, <2>1 DEF flushCP, Idle
    <3>2. running[s] = None
      BY <3>1, <1>3 DEF RankInv, Counted
    <3> QED
      BY <3>1, <3>2, NothingIn DEF Waiting
  <2>2. CASE ~ (checkpointing[s] /\ threads)
    BY <2>2 DEF RankInv, Scheduled, TypeOK
  <2> QED
    BY <2>1, <2>2
<1>5. InStep'
  BY <1>1, <1>2 DEF InStep
<1>6. CheckpointOfOneStep' /\ \A u \in ServerRanks : NotAhead(u)'
  BY <1>1 DEF CheckpointOfOneStep, RankInv, NotAhead
<1>7. stored[s] = Subsets /\ (checkpointing[s] => id_check[s] = Subsets)
  <2>1. stored[s] = Subsets /\ (checkpointing[s] => stored[s] \subseteq id_check[s])
    BY <1>1 DEF RankInv, Gathered
  <2>2. id_check[s] \subseteq Subsets
    BY DEF TypeOK
  <2> QED
    BY <2>1, <2>2
<1>8. Gathered(s)' /\ Finished(s)'
  BY <1>1, <1>2, <1>7 DEF RankInv, Gathered, Finished
<1>9. ASSUME checkpointing[s] PROVE DOMAIN open_cp[s].subsets = Subsets
  <2>1. \A id \in Subsets : id \in DOMAIN open_cp[s].subsets
    BY <1>4, <1>7, <1>9, TaskKinds DEF RankInv, Handed, Tasks
  <2>2. PICK ids \in SUBSET Subsets : open_cp[s].subsets \in [ids -> Results]
    BY <1>9 DEF RankInv, Handed, Written, Checkpoints, Partial
  <2>3. DOMAIN open_cp[s].subsets = ids
    BY <2>2
  <2> QED
    BY <2>1, <2>2, <2>3
<1>10. Handed(s)'
  BY <1>1, <1>2, <1>7, <1>9 DEF RankInv, Handed, Written, OfStep
<1>11. CASE checkpointing[s] /\ threads
  <2>1. submit(s, Finalization)
    BY <1>11 DEF flushCP, Finalization
  <2>2. Finalization \in Tasks
    BY DEF Tasks
  <2>3. /\ pending' = [pending EXCEPT ![s] = Append(pending[s], Finalization)]
        /\ requests' = [requests EXCEPT ![s] = requests[s] + 1]
    BY <2>1 DEF submit
  <2>4. /\ pending'[s] = Append(pending[s], Finalization)
        /\ requests'[s] = requests[s] + 1
        /\ \A u \in ServerRanks \ {s} : pending'[u] = pending[u] /\ requests'[u] = requests[u]
    BY <2>3 DEF TypeOK
  <2>5. /\ pending'[s] \in Seq(Tasks)
        /\ Len(pending'[s]) = Len(pending[s]) + 1
        /\ \A task : Waiting(s, task)' <=> Waiting(s, task) \/ task = Finalization
    BY <1>3, <2>2, <2>4, Appended DEF Waiting
  <2>6. pending' \in [ServerRanks -> Seq(Tasks)] /\ requests' \in [ServerRanks -> Nat]
    <3>1. pending \in [ServerRanks -> Seq(Tasks)] /\ requests \in [ServerRanks -> Nat]
      BY DEF TypeOK
    <3> QED
      BY <1>3, <2>3, <2>4, <2>5, <3>1
  <2>7. TypeOK'
    BY <1>1, <1>2, <2>6 DEF TypeOK
  <2>8. Counted(s)'
    <3>1. Counted(s)
      BY DEF RankInv
    <3>2. running'[s] = running[s]
      BY <1>1
    <3>3. requests'[s] = requests[s] + 1
      BY <2>4
    <3>4. Len(pending'[s]) = Len(pending[s]) + 1
      BY <2>5
    <3> QED
      BY <3>1, <3>2, <3>3, <3>4, <1>3 DEF Counted
  <2>9. Scheduled(s)'
    BY <1>1, <1>2, <1>4, <1>11, <2>5, TaskKinds DEF Scheduled
  <2>10. ASSUME NEW u \in ServerRanks, u # s PROVE (Counted(u) /\ Scheduled(u) /\ Gathered(u) /\ Handed(u) /\ Finished(u))'
    BY <1>1, <1>2, <2>4, <2>10, RankUntouched
  <2> QED
    BY <1>5, <1>6, <1>8, <1>10, <2>7, <2>8, <2>9, <2>10 DEF RankInv
<1>12. CASE ~ (checkpointing[s] /\ threads)
  <2>1. UNCHANGED <<pending, requests>>
    BY <1>12 DEF flushCP
  <2>2. TypeOK'
    BY <1>1, <1>2, <2>1 DEF TypeOK
  <2>3. Counted(s)' /\ Scheduled(s)'
    BY <1>1, <1>4, <2>1, TaskKinds DEF RankInv, Counted, Scheduled, Waiting
  <2>4. ASSUME NEW u \in ServerRanks, u # s PROVE (Counted(u) /\ Scheduled(u) /\ Gathered(u) /\ Handed(u) /\ Finished(u))'
    BY <1>1, <1>2, <2>1, <2>4, RankUntouched
  <2> QED
    BY <1>5, <1>6, <1>8, <1>10, <2>2, <2>3, <2>4 DEF RankInv
<1> QED
  BY <1>11, <1>12

(* A rank finishes its checkpoint: without threads it calls                *)
(* FTI_FinalizeICP, and goes on when all ranks have.                       *)
LEMMA finalizeCPStep ==
  ASSUME Inv, NEW s \in ServerRanks, finalizeCP(s)
  PROVE  Inv'
<1> USE DEF Inv
<1>1. /\ at[s] = "finalize"
      /\ UNCHANGED <<current_step, tries, background, stored, id_check, restart, pending, requests,
                     running, ready, open_cp, threads>>
  BY DEF finalizeCP, ensemble, scheduler, bounds
<1>2. CASE Finalizes(s)
  <2>1. /\ FinalizeICP(s) /\ UNCHANGED <<at, checkpointing>>
        /\ checkpointing[s] /\ s \notin finalized
    BY <1>2 DEF finalizeCP, Finalizes
  <2>2. DOMAIN open_cp[s].subsets = Subsets
    BY <1>1, <2>1 DEF RankInv, Handed
  <2>3. /\ finalized' \subseteq ServerRanks
        /\ last_cp' \in [ServerRanks -> Checkpoints] \cup {None}
        /\ CheckpointOfOneStep'
        /\ \A u \in ServerRanks : NotAhead(u)'
    BY <1>1, <2>1, <2>2, Finalizing
  <2>4. TypeOK' /\ InStep'
    BY <1>1, <2>1, <2>3 DEF TypeOK, InStep
  <2>5. \A u \in ServerRanks : (Counted(u) /\ Scheduled(u) /\ Gathered(u) /\ Handed(u))'
    BY <1>1, <2>1 DEF RankInv, Counted, Scheduled, Gathered, Handed, Written, OfStep, Waiting
  <2>6. Finished(s)'
    BY <1>1, <2>1, <2>2 DEF RankInv, Finished, Handed, Written, OfStep
  <2>7. ASSUME NEW u \in ServerRanks, u # s PROVE Finished(u)'
    <3>1. u \in finalized' <=> u \in finalized
      BY <2>1, <2>7 DEF FinalizeICP
    <3> QED
      BY <1>1, <2>1, <3>1 DEF RankInv, Finished, Written, OfStep
  <2> QED
    BY <2>3, <2>4, <2>5, <2>6, <2>7 DEF RankInv
<1>3. CASE ~ Finalizes(s)
  <2>1. /\ checkpointing[s] => (IF threads THEN Idle(s) ELSE finalized = ServerRanks)
        /\ checkpointing' = [checkpointing EXCEPT ![s] = FALSE]
        /\ at' = [at EXCEPT ![s] = "next"]
        /\ UNCHANGED <<finalized, last_cp>>
    BY <1>3 DEF finalizeCP
  <2>2. /\ at'[s] = "next" /\ ~ checkpointing'[s]
        /\ \A u \in ServerRanks \ {s} : at'[u] = at[u] /\ checkpointing'[u] = checkpointing[u]
        /\ at' \in [ServerRanks -> Places] /\ checkpointing' \in [ServerRanks -> BOOLEAN]
    BY <2>1 DEF TypeOK, Places
  <2>3. TypeOK' /\ InStep'
    BY <1>1, <2>1, <2>2 DEF TypeOK, InStep
  <2>4. CheckpointOfOneStep' /\ \A u \in ServerRanks : NotAhead(u)'
    BY <1>1, <2>1 DEF CheckpointOfOneStep, RankInv, NotAhead
  <2>5. Counted(s)' /\ Gathered(s)' /\ Handed(s)' /\ Finished(s)'
    BY <1>1, <2>1, <2>2 DEF RankInv, Counted, Gathered, Handed, Finished, Written, OfStep
  <2>6. running[s] = None /\ \A task \in Tasks : ~ Waiting(s, task)
    <3>1. CASE checkpointing[s] /\ threads
      <4>1. pending[s] = <<>> /\ requests[s] = 0
        BY <2>1, <3>1 DEF Idle
      <4>2. running[s] = None
        BY <4>1 DEF RankInv, Counted
      <4> QED
        BY <4>1, <4>2, NothingIn DEF Waiting
    <3>2. CASE ~ (checkpointing[s] /\ threads)
      BY <3>2 DEF RankInv, Scheduled, TypeOK
    <3> QED
      BY <3>1, <3>2
  <2>7. Scheduled(s)'
    BY <1>1, <2>6, TaskKinds DEF Scheduled, Waiting
  <2>8. ASSUME NEW u \in ServerRanks, u # s PROVE (Counted(u) /\ Scheduled(u) /\ Gathered(u) /\ Handed(u) /\ Finished(u))'
    BY <1>1, <2>1, <2>2, <2>8, RankUntouched
  <2> QED
    BY <2>3, <2>4, <2>5, <2>7, <2>8 DEF RankInv
<1> QED
  BY <1>2, <1>3

(* The next step: no thread is busy any more, and each rank opens a        *)
(* checkpoint with the number of that step.                                *)
LEMMA NextStepStep ==
  ASSUME Inv, NextStep
  PROVE  Inv'
<1> USE DEF Inv
<1>1. /\ \A s \in ServerRanks : at[s] = "next"
      /\ UNCHANGED <<background, restart, pending, requests, running, ready, last_cp, threads>>
  BY DEF NextStep, scheduler, bounds
<1>2. CASE \E s \in ServerRanks : current_step[s] >= TotalSteps
  <2>1. /\ at' = [s \in ServerRanks |-> "ended"]
        /\ UNCHANGED <<current_step, stored, tries, checkpointing, id_check, open_cp, finalized>>
    BY <1>2 DEF NextStep, Everywhere
  <2>2. TypeOK' /\ InStep' /\ CheckpointOfOneStep'
    BY <1>1, <2>1 DEF TypeOK, Places, InStep, CheckpointOfOneStep
  <2>3. ASSUME NEW s \in ServerRanks PROVE RankInv(s)'
    <3>1. at'[s] = "ended"
      BY <2>1
    <3>2. Counted(s)' /\ Scheduled(s)'
      BY <1>1, <2>1 DEF RankInv, Counted, Scheduled, Waiting
    <3>3. Gathered(s)' /\ Handed(s)' /\ Finished(s)' /\ NotAhead(s)'
      BY <1>1, <2>1, <3>1 DEF RankInv, Gathered, Handed, Finished, NotAhead, Written, OfStep, Waiting
    <3> QED
      BY <3>2, <3>3 DEF RankInv
  <2> QED
    BY <2>2, <2>3
<1>3. CASE \A s \in ServerRanks : ~ (current_step[s] >= TotalSteps)
  <2>1. /\ at' = [s \in ServerRanks |-> "loop"]
        /\ current_step' = [s \in ServerRanks |-> current_step[s] + 1]
        /\ stored' = [s \in ServerRanks |-> {}]
        /\ tries' = [m \in Members |-> 1]
        /\ checkpointing' = [s \in ServerRanks |-> TRUE]
        /\ id_check' = [s \in ServerRanks |-> {}]
        /\ open_cp' = [s \in ServerRanks |-> InitICP(current_step'[s])]
        /\ finalized' = {}
    BY <1>3 DEF NextStep, Everywhere
  <2>2. \A s \in ServerRanks : current_step'[s] \in 1 .. TotalSteps /\ current_step'[s] = current_step[s] + 1
    BY <1>3, <2>1, CheckpointAssumption DEF TypeOK
  <2>3. ASSUME NEW s \in ServerRanks
        PROVE  /\ open_cp'[s] \in Checkpoints /\ open_cp'[s].epoch = current_step'[s]
               /\ DOMAIN open_cp'[s].subsets = {}
    <3>1. open_cp'[s] = [epoch |-> current_step'[s], subsets |-> <<>>]
      BY <2>1 DEF InitICP
    <3> QED
      BY <2>2, <3>1, NothingAdded DEF Checkpoints
  <2>4. TypeOK'
    <3>1. current_step' \in [ServerRanks -> 1 .. TotalSteps] /\ open_cp' \in [ServerRanks -> Checkpoints \cup {None}]
      BY <2>1, <2>2, <2>3
    <3> QED
      BY <1>1, <2>1, <3>1 DEF TypeOK, Places
  <2>5. InStep'
    BY <1>1, <2>1 DEF InStep
  <2>6. CheckpointOfOneStep'
    BY <1>1 DEF CheckpointOfOneStep
  <2>7. ASSUME NEW s \in ServerRanks PROVE RankInv(s)'
    <3>1. \A task \in Tasks : ~ Waiting(s, task) /\ running[s] # task
      BY <1>1, TaskKinds DEF RankInv, Scheduled, Tasks
    <3>2. Counted(s)' /\ Scheduled(s)'
      BY <1>1, <3>1 DEF RankInv, Counted, Scheduled, Waiting
    <3>3. Gathered(s)' /\ Finished(s)'
      BY <2>1 DEF Gathered, Finished
    <3>4. ~ restart[s]
      BY <1>1 DEF RankInv, Gathered
    <3>5. Handed(s)'
      BY <1>1, <2>1, <2>3, <3>4 DEF Handed, Written, OfStep
    <3>6. NotAhead(s)'
      <4>1. current_step[s] \in Nat /\ last_cp' = last_cp /\ current_step'[s] = current_step[s] + 1
        BY <1>1, <2>2 DEF TypeOK
      <4>2. last_cp # None => last_cp[s].epoch <= current_step[s] /\ last_cp[s].epoch \in Nat
        BY <3>4 DEF RankInv, NotAhead, TypeOK, Checkpoints
      <4> QED
        BY <4>1, <4>2 DEF NotAhead
    <3> QED
      BY <3>2, <3>3, <3>5, <3>6 DEF RankInv
  <2> QED
    BY <2>4, <2>5, <2>6, <2>7
<1> QED
  BY <1>2, <1>3

(* A restarted server has nothing but the last finished checkpoint. *)
LEMMA RestartStep ==
  ASSUME Inv, CrashAndRestart
  PROVE  Inv'
<1> USE DEF Inv
<1>1. /\ at' = [s \in ServerRanks |-> "loop"]
      /\ current_step' = [s \in ServerRanks |-> 1]
      /\ background' = [s \in ServerRanks |-> [id \in Subsets |-> Blank]]
      /\ stored' = [s \in ServerRanks |-> {}]
      /\ tries' = [m \in Members |-> 1]
      /\ checkpointing' = [s \in ServerRanks |-> FALSE]
      /\ id_check' = [s \in ServerRanks |-> {}]
      /\ pending' = [s \in ServerRanks |-> <<>>]
      /\ requests' = [s \in ServerRanks |-> 0]
      /\ running' = [s \in ServerRanks |-> None]
      /\ ready' = [s \in ServerRanks |-> FALSE]
      /\ open_cp' = [s \in ServerRanks |-> None]
      /\ finalized' = {}
      /\ restart' = [s \in ServerRanks |-> last_cp # None]
      /\ UNCHANGED <<last_cp, threads>>
  BY DEF CrashAndRestart, Everywhere
<1>2. /\ 1 \in 1 .. TotalSteps /\ Blank \in Results /\ <<>> \in Seq(Tasks)
      /\ 0 \in Nat /\ 1 \in Nat /\ Len(<<>>) = 0
  BY CheckpointAssumption DEF Blank, Results
<1>3. TypeOK'
  <2>1. /\ background' \in [ServerRanks -> [Subsets -> Results]]
        /\ pending' \in [ServerRanks -> Seq(Tasks)]
        /\ restart' \in [ServerRanks -> BOOLEAN]
    BY <1>1, <1>2
  <2> QED
    BY <1>1, <1>2, <2>1 DEF TypeOK, Places
<1>4. InStep' /\ CheckpointOfOneStep'
  BY <1>1 DEF InStep, CheckpointOfOneStep
<1>5. ASSUME NEW s \in ServerRanks PROVE RankInv(s)'
  <2>1. Counted(s)' /\ Gathered(s)'
    BY <1>1, <1>2 DEF Counted, Gathered
  <2>2. Scheduled(s)'
    BY <1>1, NothingIn, TaskKinds DEF Scheduled, Waiting
  <2>3. Handed(s)' /\ Finished(s)' /\ NotAhead(s)'
    BY <1>1 DEF Handed, Finished, NotAhead
  <2> QED
    BY <2>1, <2>2, <2>3 DEF RankInv
<1> QED
  BY <1>3, <1>4, <1>5

LEMMA NextInv == Inv /\ [Next]_vars => Inv'
<1> SUFFICES ASSUME Inv, [Next]_vars PROVE Inv'
  OBVIOUS
<1>1. CASE Next
  <2>1. ASSUME NEW s \in ServerRanks, StorePart(s) \/ flushCP(s) \/ finalizeCP(s) PROVE Inv'
    BY <2>1, StorePartStep, flushCPStep, finalizeCPStep
  <2>2. ASSUME NEW s \in ServerRanks, SchedulerStep(s) PROVE Inv'
    BY <2>2, StartTaskStep, JoinTaskStep, RunTaskStep DEF SchedulerStep
  <2> QED
    BY <1>1, <2>1, <2>2, RetryStep, BeginUpdateStep, NextStepStep, RestartStep DEF Next
<1>2. CASE UNCHANGED vars
  <2>1. UNCHANGED <<at, current_step, tries, background, stored, checkpointing, id_check, restart,
                    pending, requests, running, ready, open_cp, finalized, last_cp, threads>>
    BY <1>2 DEF vars, loop, ensemble, module, scheduler, fti, bounds
  <2>2. TypeOK' /\ InStep' /\ CheckpointOfOneStep'
    BY <2>1 DEF Inv, TypeOK, InStep, CheckpointOfOneStep
  <2>3. ASSUME NEW s \in ServerRanks PROVE RankInv(s)'
    BY <2>1 DEF Inv, RankInv, Counted, Scheduled, Gathered, Handed, Finished, NotAhead, Written, OfStep, Waiting
  <2> QED
    BY <2>2, <2>3 DEF Inv
<1> QED
  BY <1>1, <1>2

-----------------------------------------------------------------------------
(***************************************************************************)
(* What follows for every behaviour.                                       *)
(***************************************************************************)
LEMMA InvHolds == Spec => []Inv
  BY InitInv, NextInv, PTL DEF Spec

(* Whatever crashes, fails or is done by threads, the checkpoint that      *)
(* FTI_Recover would restore has every part of one and the same step.      *)
THEOREM CheckpointsAreSound == Spec => []CheckpointOfOneStep
<1>1. Inv => CheckpointOfOneStep
  BY DEF Inv
<1> QED
  BY <1>1, InvHolds, PTL

(* do_update_step works on propagations of the step it is counted as, on   *)
(* all ranks, after a recovery too.                                        *)
THEOREM UpdatesAreOfTheirStep == Spec => []UpdatesItsStep
<1>1. Inv => UpdatesItsStep
  BY DEF Inv, InStep, RankInv, Gathered, UpdatesItsStep
<1> QED
  BY <1>1, InvHolds, PTL

(* A restarted server goes on from the last finished checkpoint or behind  *)
(* it.                                                                     *)
THEOREM RestartsGoOn == Spec => NoStepLost
<1> DEFINE Kept == \A s \in ServerRanks : at[s] = "loop" /\ at'[s] = "update" /\ last_cp # None
                     => current_step'[s] >= last_cp[s].epoch
<1>1. Inv /\ Inv' /\ [Next]_vars => [Kept]_vars
  <2> SUFFICES ASSUME Inv, Inv', Next, NEW s \in ServerRanks,
                      at[s] = "loop", at'[s] = "update", last_cp # None
               PROVE  current_step'[s] >= last_cp[s].epoch
    OBVIOUS
  <2>1. BeginUpdate
    BY DEF Next, StorePart, flushCP, finalizeCP, SchedulerStep, StartTask, JoinTask, RunTask,
           Retry, NextStep, CrashAndRestart, Everywhere, loop, Inv, TypeOK
  <2>2. last_cp' = last_cp /\ ~ restart'[s]
    BY <2>1 DEF BeginUpdate, fti, Everywhere
  <2>3. last_cp[s].epoch <= current_step'[s]
    BY <2>2 DEF Inv, RankInv, NotAhead
  <2>4. last_cp[s] \in Checkpoints /\ current_step'[s] \in 1 .. TotalSteps
    BY DEF Inv, TypeOK
  <2> QED
    BY <2>3, <2>4 DEF Checkpoints
<1> QED
  BY <1>1, InvHolds, PTL DEF Spec, NoStepLost
=============================================================================
