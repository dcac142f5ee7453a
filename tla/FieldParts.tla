----------------------------- MODULE FieldParts -----------------------------
(***************************************************************************)
(* The n-to-m redistribution of a field: runner ranks that hold its bytes  *)
(* in blocks of any size exchange them with server ranks that hold blocks  *)
(* as equal as can be.  Both sides cut the field into parts on their own,  *)
(* with src/common/Part.cxx; hidden state is cut on its own and sent along *)
(* with the part at the same place in the list.  One member goes from the  *)
(* runner to the server, through an update step, and back.                 *)
(*                                                                         *)
(* The model of a rank has its state in one vector, or in chunks that      *)
(* src/api/chunk_based.cxx copies to a vector of bytes and back.           *)
(***************************************************************************)
EXTENDS Integers, FiniteSets, Sequences, SequencesExt

CONSTANTS
  CommSize,       \* server ranks
  RunnerSize,     \* runner ranks
  Layouts,        \* elements of the assimilated state on each runner rank
  HiddenLayouts,  \* elements of the hidden state on each runner rank
  ElementSizes    \* sizes of the elements of the model, in bytes

ServerRanks == 0 .. CommSize - 1
RunnerRanks == 0 .. RunnerSize - 1

ASSUME FieldAssumption ==
  /\ CommSize \in Nat \ {0} /\ RunnerSize \in Nat \ {0}
  /\ Layouts \cup HiddenLayouts \subseteq [RunnerRanks -> Nat]
  /\ ElementSizes \subseteq Nat \ {0}

-----------------------------------------------------------------------------
(* values[0] + ... + values[n - 1] *)
PartialSum(values, n) ==
  LET sum[i \in 0 .. n] == IF i = 0 THEN 0 ELSE sum[i - 1] + values[i - 1] IN sum[n]

Before(sizes, rank) == PartialSum(sizes, rank)
sum_vec(sizes) == PartialSum(sizes, RunnerSize)

calculate_local_vect_sizes_server(global_vect_size, bytes_per_element) ==
  LET elements == global_vect_size \div bytes_per_element
      n_rest == elements - (elements \div CommSize) * CommSize
  IN [s \in ServerRanks |->
        bytes_per_element * (elements \div CommSize + IF s < n_rest THEN 1 ELSE 0)]

BehindBorder(index, size) == index > size

(* index > size - 1 for numbers of type size_t. *)
AtBorder(index, size) == size > 0 /\ index >= size

(* One byte more: it starts a part of its own behind a border. *)
NextByte(sizes, sizes_server, walk) ==
  LET last == Last(walk.parts)
      next_runner == AtBorder(walk.index_in_runner, sizes[last.rank_runner])
      next_server == AtBorder(walk.index_in_server, sizes_server[last.rank_server])
      runner == IF next_runner THEN 0 ELSE walk.index_in_runner
      server == IF next_server THEN 0 ELSE walk.index_in_server
  IN [parts |->
        IF next_runner \/ next_server
        THEN Append(walk.parts,
               [rank_runner |-> last.rank_runner + IF next_runner THEN 1 ELSE 0,
                local_offset_runner |-> runner,
                rank_server |-> last.rank_server + IF next_server THEN 1 ELSE 0,
                local_offset_server |-> server,
                send_count |-> 1])
        ELSE [walk.parts EXCEPT ![Len(walk.parts)].send_count = @ + 1],
      index_in_runner |-> runner + 1,
      index_in_server |-> server + 1]

Start ==
  [parts |-> <<[rank_runner |-> 0, local_offset_runner |-> 0,
                rank_server |-> 0, local_offset_server |-> 0, send_count |-> 0]>>,
   index_in_runner |-> 0,
   index_in_server |-> 0]

(* What the first n bytes have made of the list. *)
Walk(sizes, sizes_server, n) ==
  LET walk[i \in 0 .. n] == IF i = 0 THEN Start ELSE NextByte(sizes, sizes_server, walk[i - 1])
  IN walk[n]

calculate_n_to_m(sizes, bytes_per_element) ==
  LET global_vect_size == sum_vec(sizes)
      sizes_server == calculate_local_vect_sizes_server(global_vect_size, bytes_per_element)
  IN IF global_vect_size = 0 THEN <<>> ELSE Walk(sizes, sizes_server, global_vect_size).parts

-----------------------------------------------------------------------------
VARIABLES
  layout,     \* what the runner ranks have told each other and the server
  field,      \* the parts that the server ranks have calculated, or NoField
  connected_server_ranks, \* the parts of each runner rank
  failed,     \* assertions that have failed
  memory,     \* the chunks of the model on each runner rank
  member,     \* the member of the ensemble on each server rank
  stored,     \* parts of the background that the server has
  wire,       \* parts on their way to or from the server
  at          \* what each runner rank does next

vars == <<layout, field, connected_server_ranks, failed, memory, member, stored, wire, at>>

NoField == <<>>
NoPart == [local_offset_runner |-> 0, local_offset_server |-> 0, send_count |-> 0]

(* A byte has the element and the place in it where it belongs.  The model *)
(* has written it, or the assimilator, or nobody.                          *)
Byte(element, place, by) == [element |-> element, place |-> place, by |-> by]
Fresh(size) == [i \in 0 .. size - 1 |-> Byte(<<>>, 0, "nobody")]

SliceOfStart(block, offset, count) == [i \in 0 .. count - 1 |-> block[i]]

Slice(block, offset, count) == [i \in 0 .. count - 1 |-> block[offset + i]]
Paste(block, offset, values) ==
  [i \in DOMAIN block |-> IF i - offset \in DOMAIN values THEN values[i - offset] ELSE block[i]]

-----------------------------------------------------------------------------
(***************************************************************************)
(* The model of a runner rank.  With the vector interface it is one array  *)
(* of assimilated and one of hidden state, whose elements keep their size; *)
(* chunks are sent as bytes, with one entry of the index map for each.     *)
(***************************************************************************)
Elements(c) == [i \in DOMAIN c.values |-> c.values[i].element]

Chunk(rank, varid, is_assimilated, size_per_element, count) ==
  [is_assimilated |-> is_assimilated,
   size_per_element |-> size_per_element,
   values |-> [i \in 1 .. size_per_element * count |->
                 Byte(<<rank, varid, (i - 1) \div size_per_element>>, (i - 1) % size_per_element, "model")]]

AsVector(rank, size, count, size_hidden, count_hidden) ==
  <<Chunk(rank, 1, TRUE, size, count), Chunk(rank, 2, FALSE, size_hidden, count_hidden)>>

melissa_add_chunk(rank, size, count, size_hidden, count_hidden) ==
  <<Chunk(rank, 1, TRUE, size, count \div 2),
    Chunk(rank, 2, FALSE, size_hidden, count_hidden),
    Chunk(rank, 3, TRUE, size, count - count \div 2)>>

OfKind(chunks, is_assimilated) ==
  SelectSeq(chunks, LAMBDA c : c.is_assimilated = is_assimilated)

Bytes(chunks) == FlattenSeq([i \in DOMAIN chunks |-> chunks[i].values])

(* Bytes of the chunks of a kind, the first chunk at 0. *)
ChunkSizes(chunks, is_assimilated) ==
  [j \in 0 .. Len(chunks) - 1 |->
     IF chunks[j + 1].is_assimilated = is_assimilated THEN Len(chunks[j + 1].values) ELSE 0]
VectSize(chunks, is_assimilated) == PartialSum(ChunkSizes(chunks, is_assimilated), Len(chunks))

(* The sizes and the index map that melissa_init_with_index_map is given.  *)
InitWithVector(bytes, bytes_hidden, chunks) ==
  [bytes |-> bytes, bytes_hidden |-> bytes_hidden,
   sizes |-> [k \in RunnerRanks |-> VectSize(chunks[k], TRUE)],
   hidden |-> [k \in RunnerRanks |-> VectSize(chunks[k], FALSE)],
   index_map |-> [k \in RunnerRanks |->
     LET elements == Elements(OfKind(chunks[k], TRUE)[1]) IN
     [i \in 1 .. Len(elements) \div bytes |-> elements[bytes * i]]]]

melissa_commit_chunks(chunks) ==
  [bytes |-> 1, bytes_hidden |-> 1,
   sizes |-> [k \in RunnerRanks |-> VectSize(chunks[k], TRUE)],
   hidden |-> [k \in RunnerRanks |-> VectSize(chunks[k], FALSE)],
   index_map |-> [k \in RunnerRanks |->
     LET ofKind == OfKind(chunks[k], TRUE) IN
     FlattenSeq([i \in DOMAIN ofKind |-> Elements(ofKind[i])])]]

(* Model -> buffer. *)
Buffer(chunks, is_assimilated) ==
  LET bytes == Bytes(OfKind(chunks, is_assimilated)) IN [i \in 0 .. Len(bytes) - 1 |-> bytes[i + 1]]

(* buffer -> model *)
Position(chunks, i) == PartialSum(ChunkSizes(chunks, chunks[i].is_assimilated), i - 1)

CopyBack(chunks, values, hidden) ==
  [i \in DOMAIN chunks |-> [chunks[i] EXCEPT !.values = [b \in DOMAIN @ |->
     (IF chunks[i].is_assimilated THEN values ELSE hidden)[Position(chunks, i) + b - 1]]]]

Init ==
  /\ \E bytes, bytes_hidden \in ElementSizes, sizes \in Layouts, hidden \in HiddenLayouts :
       \/ /\ memory = [k \in RunnerRanks |-> AsVector(k, bytes, sizes[k], bytes_hidden, hidden[k])]
          /\ layout = InitWithVector(bytes, bytes_hidden, memory)
       \/ /\ memory = [k \in RunnerRanks |-> melissa_add_chunk(k, bytes, sizes[k], bytes_hidden, hidden[k])]
          /\ layout = melissa_commit_chunks(memory)
  /\ field = NoField
  /\ connected_server_ranks = [k \in RunnerRanks |-> {}]
  /\ failed = {}
  /\ member = <<>>
  /\ stored = {}
  /\ wire = {}
  /\ at = [k \in RunnerRanks |-> "init"]

-----------------------------------------------------------------------------
(***************************************************************************)
(* Both sides calculate the parts.  Each rank asserts that its parts and   *)
(* the hidden parts at the same places go together.                        *)
(***************************************************************************)
Parts == calculate_n_to_m(layout.sizes, layout.bytes)
PartsHidden == calculate_n_to_m(layout.hidden, layout.bytes_hidden)

HiddenOf(parts_hidden, i) == IF parts_hidden = <<>> THEN NoPart ELSE parts_hidden[i]

SameLength(parts, parts_hidden) == parts_hidden = <<>> \/ Len(parts_hidden) = Len(parts)
Mine(parts, side, rank) == {i \in DOMAIN parts : parts[i][side] = rank}
GoTogether(parts, parts_hidden, side, rank) ==
  parts_hidden # <<>> => \A i \in Mine(parts, side, rank) : parts_hidden[i][side] = rank

SendCounts(parts, indices) == SumFunctionOnSet([i \in DOMAIN parts |-> parts[i].send_count], indices)

(* The index map is gathered from the runner ranks and scattered to the    *)
(* server ranks.                                                           *)
gather_global_index_map == FlattenSeq([r \in 1 .. RunnerSize |-> layout.index_map[r - 1]])

ScatterEvenly(s) ==
  LET scounts == calculate_local_vect_sizes_server(sum_vec(layout.sizes), layout.bytes)
      count == scounts[s] \div layout.bytes
  IN SubSeq(gather_global_index_map, s * count + 1, (s + 1) * count)

scatter_index_map(s) ==
  LET scounts == calculate_local_vect_sizes_server(sum_vec(layout.sizes), layout.bytes)
      displ == Before(scounts, s) \div layout.bytes
  IN SubSeq(gather_global_index_map, displ + 1, displ + scounts[s] \div layout.bytes)

calculate_parts(parts, parts_hidden) ==
  LET count(s) == SendCounts(parts, Mine(parts, "rank_server", s))
      count_hidden(s) == IF parts_hidden = <<>> THEN 0
                         ELSE SendCounts(parts_hidden, Mine(parts, "rank_server", s))
  IN /\ field' = [parts |-> parts, parts_hidden |-> parts_hidden,
                  index_map |-> [s \in ServerRanks |-> scatter_index_map(s)]]
     /\ member' = [s \in ServerRanks |->
          [background |-> Fresh(count(s)), analysis |-> Fresh(count(s)), hidden |-> Fresh(count_hidden(s))]]

broadcast_field_information_and_calculate_parts ==
  /\ failed = {} /\ field = NoField
  /\ LET parts == Parts
         parts_hidden == PartsHidden
     IN IF /\ SameLength(parts, parts_hidden)
           /\ \A s \in ServerRanks : /\ GoTogether(parts, parts_hidden, "rank_server", s)
                                     /\ Mine(parts, "rank_server", s) # {}
        THEN calculate_parts(parts, parts_hidden) /\ UNCHANGED failed
        ELSE failed' = {"server"} /\ UNCHANGED <<field, member>>
  /\ UNCHANGED <<layout, connected_server_ranks, memory, stored, wire, at>>

initConnections(k) ==
  /\ failed = {} /\ at[k] = "init"
  /\ LET parts == Parts
         parts_hidden == PartsHidden
         mine == Mine(parts, "rank_runner", k)
     IN IF SameLength(parts, parts_hidden) /\ GoTogether(parts, parts_hidden, "rank_runner", k)
        THEN /\ connected_server_ranks' = [connected_server_ranks EXCEPT ![k] =
                  {[part |-> parts[i], hidden |-> HiddenOf(parts_hidden, i)] : i \in mine}]
             /\ at' = [at EXCEPT ![k] = "put"]
             /\ UNCHANGED failed
        ELSE failed' = {"runner"} /\ UNCHANGED <<connected_server_ranks, at>>
  /\ UNCHANGED <<layout, field, memory, member, stored, wire>>

-----------------------------------------------------------------------------
(***************************************************************************)
(* The member goes to the server and back.                                 *)
(***************************************************************************)
Message(to, s, k, values, hidden) ==
  [to |-> to, rank_server |-> s, rank_runner |-> k, values |-> values, hidden |-> hidden]

putState(k) ==
  /\ failed = {} /\ at[k] = "put"
  /\ wire' = wire \cup
       {Message("server", csr.part.rank_server, k,
                Slice(Buffer(memory[k], TRUE), csr.part.local_offset_runner, csr.part.send_count),
                Slice(Buffer(memory[k], FALSE), csr.hidden.local_offset_runner, csr.hidden.send_count)) :
          csr \in connected_server_ranks[k]}
  /\ at' = [at EXCEPT ![k] = "get"]
  /\ UNCHANGED <<layout, field, connected_server_ranks, failed, memory, member, stored>>

FirstOf(parts, s, k) ==
  LET found == Mine(parts, "rank_server", s) \cap Mine(parts, "rank_runner", k) IN
  IF found = {} THEN NoPart ELSE parts[Min(found)]

getPart(s, k) == FirstOf(field.parts, s, k)
FirstHidden(s, k) ==
  IF field.parts_hidden = <<>> THEN NoPart
  ELSE field.parts_hidden[Min(Mine(field.parts_hidden, "rank_server", s))]

getPartHidden(s, k) == FirstOf(field.parts_hidden, s, k)

Fits(part, values) == DOMAIN values = 0 .. part.send_count - 1

store_background_state_part(m) ==
  LET part == getPart(m.rank_server, m.rank_runner)
      hidden_part == getPartHidden(m.rank_server, m.rank_runner)
  IN /\ failed = {} /\ field # NoField
     /\ m \in wire /\ m.to = "server"
     /\ wire' = wire \ {m}
     /\ IF Fits(part, m.values) /\ Fits(hidden_part, m.hidden)
        THEN /\ member' = [member EXCEPT
                  ![m.rank_server].background = Paste(@, part.local_offset_server, m.values),
                  ![m.rank_server].hidden = Paste(@, hidden_part.local_offset_server, m.hidden)]
             /\ stored' = stored \cup {<<m.rank_server, m.rank_runner>>}
             /\ UNCHANGED failed
        ELSE failed' = {"part"} /\ UNCHANGED <<member, stored>>
     /\ UNCHANGED <<layout, field, connected_server_ranks, memory, at>>

(* The assimilator, which may use the index map, changes each byte of the  *)
(* background in its place.                                                *)
do_update_step ==
  [s \in ServerRanks |-> [member[s] EXCEPT !.analysis =
     [i \in DOMAIN member[s].background |-> [member[s].background[i] EXCEPT !.by = "assimilator"]]]]

launch_sub_task(updated, s, k) ==
  LET part == getPart(s, k)
      hidden_part == getPartHidden(s, k)
  IN Message("runner", s, k,
             Slice(updated[s].analysis, part.local_offset_server, part.send_count),
             Slice(updated[s].hidden, hidden_part.local_offset_server, hidden_part.send_count))

AllStored ==
  field # NoField /\ stored = {<<field.parts[i].rank_server, field.parts[i].rank_runner>> : i \in DOMAIN field.parts}

Update ==
  /\ failed = {} /\ AllStored
  /\ member' = do_update_step
  /\ wire' = wire \cup {launch_sub_task(do_update_step, p[1], p[2]) : p \in stored}
  /\ stored' = {}
  /\ UNCHANGED <<layout, field, connected_server_ranks, failed, memory, at>>

Received(k, csr) ==
  CHOOSE m \in wire : m.to = "runner" /\ m.rank_runner = k /\ m.rank_server = csr.part.rank_server

getState(k) ==
  LET csrs == connected_server_ranks[k] IN
  /\ failed = {} /\ at[k] = "get"
  /\ \A csr \in csrs : \E m \in wire :
       m.to = "runner" /\ m.rank_runner = k /\ m.rank_server = csr.part.rank_server
  /\ wire' = wire \ {Received(k, csr) : csr \in csrs}
  /\ IF \A csr \in csrs : Fits(csr.part, Received(k, csr).values) /\ Fits(csr.hidden, Received(k, csr).hidden)
     THEN /\ LET received == FoldSet(LAMBDA csr, now :
                    [values |-> Paste(now.values, csr.part.local_offset_runner, Received(k, csr).values),
                     hidden |-> Paste(now.hidden, csr.hidden.local_offset_runner, Received(k, csr).hidden)],
                    [values |-> Buffer(memory[k], TRUE), hidden |-> Buffer(memory[k], FALSE)], csrs)
             IN memory' = [memory EXCEPT ![k] = CopyBack(@, received.values, received.hidden)]
          /\ at' = [at EXCEPT ![k] = "run"]
          /\ UNCHANGED failed
     ELSE failed' = {"answer"} /\ UNCHANGED <<memory, at>>
  /\ UNCHANGED <<layout, field, connected_server_ranks, member, stored>>

Next ==
  \/ broadcast_field_information_and_calculate_parts
  \/ \E k \in RunnerRanks : initConnections(k) \/ putState(k) \/ getState(k)
  \/ \E m \in wire : store_background_state_part(m)
  \/ Update

Spec == Init /\ [][Next]_vars

-----------------------------------------------------------------------------
(* The parts of both lists are what the blocks of the two sides have in    *)
(* common, each with its offsets.                                          *)
Overlaps(sizes, bytes_per_element) ==
  LET servers == calculate_local_vect_sizes_server(sum_vec(sizes), bytes_per_element)
      end(block, rank) == Before(block, rank) + block[rank]
      from(k, s) == Max({Before(sizes, k), Before(servers, s)})
      to(k, s) == Min({end(sizes, k), end(servers, s)})
  IN {[rank_runner |-> p[1], local_offset_runner |-> from(p[1], p[2]) - Before(sizes, p[1]),
       rank_server |-> p[2], local_offset_server |-> from(p[1], p[2]) - Before(servers, p[2]),
       send_count |-> to(p[1], p[2]) - from(p[1], p[2])] :
        p \in {p \in RunnerRanks \X ServerRanks : from(p[1], p[2]) < to(p[1], p[2])}}

PartsAreOverlaps ==
  field # NoField =>
    /\ ToSet(field.parts) = Overlaps(layout.sizes, layout.bytes)
    /\ ToSet(field.parts_hidden) = Overlaps(layout.hidden, layout.bytes_hidden)

(* Whatever passes the assertions about hidden state can be exchanged:     *)
(* what one side sends is as long as the other side expects.               *)
SizesAgree == failed \cap {"part", "answer"} = {}

(* When the server has all parts, the background holds each element where  *)
(* the index map of the rank says.                                         *)
BackgroundFollowsIndexMap ==
  AllStored => \A s \in ServerRanks : \A i \in DOMAIN member[s].background :
    LET byte == member[s].background[i] IN
    /\ byte.element = field.index_map[s][i \div layout.bytes + 1]
    /\ layout.bytes > 1 => byte.place = i % layout.bytes

(* A runner that goes on has the analysis and its own hidden state, each   *)
(* byte in its place.                                                      *)
RoundTrip ==
  \A k \in RunnerRanks : at[k] = "run" =>
    \A i \in DOMAIN memory[k] : \A b \in DOMAIN memory[k][i].values :
      LET c == memory[k][i] IN
      c.values[b] = Byte(<<k, i, (b - 1) \div c.size_per_element>>, (b - 1) % c.size_per_element,
                         IF c.is_assimilated THEN "assimilator" ELSE "model")

(* The condition for the assertion on hidden parts that the comment of     *)
(* initConnections gives: as much hidden state as server ranks.            *)
HiddenLargeEnough ==
  sum_vec(layout.hidden) >= CommSize * layout.bytes_hidden => "runner" \notin failed
=============================================================================
