-------------------------------- MODULE Eplb --------------------------------
(***************************************************************************)
(* Expert-parallel load balancing (distributed/eplb): every so many steps  *)
(* the ranks agree on a new placement of the logical experts in the        *)
(* physical slots, exchange the weights and commit the new maps.  In sync  *)
(* mode the main threads do this between two forward passes.  In async     *)
(* mode a worker thread of each rank brings one layer at a time into a     *)
(* buffer, and the main thread moves it into place after a forward pass,   *)
(* when the workers of all ranks have theirs.                              *)
(*                                                                         *)
(* The main thread puts forward passes, copies and events on its rank's    *)
(* stream, which runs them later; the worker's stream waits for events.    *)
(* Weights are the logical expert they belong to.  What the policy returns *)
(* is any placement of the plan's.                                         *)
(*                                                                         *)
(* The back ends of the communicator transfer the weights in two ways.     *)
(* With torch_nccl, pynccl and torch_gloo a receive takes what the source  *)
(* sends, on the worker's stream or after it was synchronised.  With nixl  *)
(* the receiver reads the weights of the source in place, on no stream,    *)
(* and a barrier after the reads keeps them from being overwritten.        *)
(***************************************************************************)
EXTENDS Integers, Sequences, FiniteSets

CONSTANTS
  Plans,
  PlacementsOf,    \* [a plan's placements]: those the policy may return, [model][layer][slot]
  MaxInFlight      \* bound: forward passes a main thread is ahead of its GPU

ASSUME PlansAssumption ==
  /\ MaxInFlight \in Nat \ {0}
  /\ \A p \in Plans :
       /\ {"is_async", "ranks", "local", "experts", "layers", "models", "interval", "placements",
           "dies", "nixl"} = DOMAIN p
       \* in sync mode nixl may read a layer into the buffer while the layer before
       \* is copied out of it, which is left out
       /\ p.nixl => p.is_async
       /\ p.placements \in DOMAIN PlacementsOf
       /\ \A n \in {"ranks", "local", "experts", "layers", "models", "interval"} : p[n] \in Nat \ {0}
       /\ p.experts <= p.ranks * p.local
       \* every logical expert keeps a slot
       /\ \A f \in PlacementsOf[p.placements], m \in 0 .. p.models - 1, l \in 0 .. p.layers - 1 :
            /\ DOMAIN f[m][l] = 0 .. p.ranks * p.local - 1
            /\ {f[m][l][s] : s \in DOMAIN f[m][l]} = 0 .. p.experts - 1

VARIABLES
  plan,
  main,        \* [rank]: where the main thread is
  model,       \* [rank]: the model step() looks at
  step,        \* [rank]: expert_rearrangement_step, counted up to the interval
  has_result,  \* [rank]: the flag given to _all_ranks_result_ready
  rebalanced,  \* [rank][model]
  stats,       \* [rank][model]: eplb_stats, as the placement the policy makes of it, per layer
  pending,     \* [rank][model]: pending_result
  rearrange_event, consumed_event,  \* [rank]: CpuGpuEvent._recorded
  worker,      \* [rank]: where the async worker is
  job,         \* [rank]: its model, layer, snapshots of both maps and posts (sync: the posts)
  stream,      \* [rank]: what the GPU has still to do for the main thread
  map,         \* [rank][model][layer]: physical_to_logical_map, as the GPU has it
  weights,     \* [rank][model][layer][row]
  buffer,      \* [rank][model][row]: expert_buffer
  failed       \* an assertion or the check in CpuGpuEvent.record has failed

vars == <<plan, main, model, step, has_result, rebalanced, stats, pending, rearrange_event,
          consumed_event, worker, job, stream, map, weights, buffer, failed>>

Rank == 0 .. plan.ranks - 1
Row == 0 .. plan.local - 1
Model == 0 .. plan.models - 1
Layer == 0 .. plan.layers - 1
Expert == 0 .. plan.experts - 1
Slot == 0 .. plan.ranks * plan.local - 1

None == <<>>
Garbage == -1      \* a row of a buffer that was not written for the layer in hand

slot(r, i) == r * plan.local + i

\* build_initial_global_physical_to_logical_map.
initial_map == [s \in Slot |-> s % plan.experts]

-----------------------------------------------------------------------------
(* rebalance_execute.py: one layer, from the placement old to new. *)

least(S) == CHOOSE x \in S : \A y \in S : x <= y

\* Place of x in the ascending order of S, and the element at a place.
position(S, x) == Cardinality({y \in S : y < x})
at_position(S, n) == CHOOSE x \in S : position(S, x) = n

Held(p, r) == {p[slot(r, i)] : i \in Row}

is_unchanged(old, new, r, i) == old[slot(r, i)] = new[slot(r, i)]

is_received_locally(old, new, r, i) == new[slot(r, i)] \in Held(old, r)

\* Rows that need an expert from another rank, and the first of those for it.
remote_rows(old, new, r) == {i \in Row : ~is_received_locally(old, new, r, i)}

recv_row(old, new, r, e) == least({i \in remote_rows(old, new, r) : new[slot(r, i)] = e})

send_row(old, r, e) == least({i \in Row : old[slot(r, i)] = e})

\* The row that set_transfer_context of the nixl back end keeps for e: the last.
src_row(old, r, e) ==
  CHOOSE i \in Row : old[slot(r, i)] = e /\ \A j \in Row : old[slot(r, j)] = e => j <= i

ranks_to_send(old, e) == {r \in Rank : e \in Held(old, r)}

ranks_to_recv(old, new, e) == {r \in Rank : e \in Held(new, r) /\ e \notin Held(old, r)}

num_dst_per_sender(old, new, e) ==
  Cardinality(ranks_to_recv(old, new, e)) \div Cardinality(ranks_to_send(old, e))

\* The ranks that s sends e to: an even share, and one of the remainder.
recv_ranks(old, new, s, e) ==
  LET n == num_dst_per_sender(old, new, e)
      first == position(ranks_to_send(old, e), s) * n
      rest == Cardinality(ranks_to_send(old, e)) * n + position(ranks_to_send(old, e), s)
  IN {r \in ranks_to_recv(old, new, e) :
        position(ranks_to_recv(old, new, e), r) \in (first .. first + n - 1) \cup {rest}}

\* The rank that r receives e from.
send_rank(old, new, r, e) ==
  LET n == num_dst_per_sender(old, new, e)
      place == position(ranks_to_recv(old, new, e), r)
      remainder_start == Cardinality(ranks_to_send(old, e)) * n
  IN at_position(ranks_to_send(old, e),
                 IF place < remainder_start THEN place \div n ELSE place - remainder_start)

\* What s posts for r and what r posts for s, each in the order of the experts.
sends(old, new, s, r) == {e \in Held(old, s) : r \in recv_ranks(old, new, s, e)}

recvs(old, new, r, s) ==
  {e \in {new[slot(r, i)] : i \in remote_rows(old, new, r)} : send_rank(old, new, r, e) = s}

\* What move_to_buffer posts on rank r, by the other rank.
posts(old, new, r) ==
  [send |-> [s \in Rank |-> sends(old, new, r, s)],
   recv |-> [s \in Rank |-> recvs(old, new, r, s)]]

\* The posts p of a rank and q of s pair on the way from s to r; one without a
\* counterpart is waited for without end.
pair(p, q, r, s) == Cardinality(p.recv[s]) = Cardinality(q.send[r])

\* The expert that arrives for e: between two ranks the n-th receive takes the
\* n-th send.
arrives(p, q, r, s, e) == at_position(q.send[r], position(p.recv[s], e))

\* The transfer into the buffer of r, where p(s) is what s has posted and w(s)
\* its weights: rows that change are copied here or, once for each expert,
\* received, with nixl by a read of the row the source has it in.
execute(old, new, r, p(_), w(_)) ==
  [i \in Row |->
    LET e == new[slot(r, i)] IN
    IF is_unchanged(old, new, r, i) THEN Garbage
    ELSE IF is_received_locally(old, new, r, i) THEN w(r)[send_row(old, r, e)]
    ELSE IF i = recv_row(old, new, r, e)
    THEN LET s == CHOOSE s \in Rank : e \in p(r).recv[s]
         IN IF plan.nixl THEN w(s)[src_row(old, s, e)]
            ELSE w(s)[send_row(old, s, arrives(p(r), p(s), r, s, e))]
    ELSE Garbage]

\* move_from_buffer: w is the layer's weights of r.
move_from_buffer(old, new, r, b, w) ==
  [i \in Row |->
    IF is_unchanged(old, new, r, i) THEN w[i]
    ELSE IF is_received_locally(old, new, r, i) THEN b[i]
    ELSE b[recv_row(old, new, r, new[slot(r, i)])]]

-----------------------------------------------------------------------------
Init ==
  /\ plan \in Plans
  /\ main = [r \in Rank |-> "forward"]
  /\ model = [r \in Rank |-> 0]
  /\ step = [r \in Rank |-> plan.interval - plan.interval \div 4]
  /\ has_result = [r \in Rank |-> FALSE]
  /\ rebalanced = [r \in Rank |-> [m \in Model |-> FALSE]]
  /\ stats = [r \in Rank |-> [m \in Model |-> None]]
  /\ pending = [r \in Rank |-> [m \in Model |-> None]]
  /\ rearrange_event = [r \in Rank |-> FALSE]
  /\ consumed_event = [r \in Rank |-> FALSE]
  /\ worker = [r \in Rank |-> IF plan.is_async THEN "idle" ELSE "none"]
  /\ job = [r \in Rank |-> None]
  /\ stream = [r \in Rank |-> <<>>]
  /\ map = [r \in Rank |-> [m \in Model |-> [l \in Layer |-> initial_map]]]
  /\ weights = [r \in Rank |-> [m \in Model |-> [l \in Layer |->
                 [i \in Row |-> initial_map[slot(r, i)]]]]]
  /\ buffer = [r \in Rank |-> [m \in Model |-> [i \in Row |-> Garbage]]]
  /\ failed = FALSE

Goto(r, where) == main' = [main EXCEPT ![r] = where]
GotoW(r, where) == worker' = [worker EXCEPT ![r] = where]
Issue(r, ops) == stream' = [stream EXCEPT ![r] = @ \o ops]

-----------------------------------------------------------------------------
(* The main thread of a rank: a forward pass, then EplbState.step. *)

\* Operations of the main thread, events too, that its stream has not reached.
unreached(r, o) == \E n \in 1 .. Len(stream[r]) : stream[r][n].op = o

forwards(r) == Cardinality({n \in 1 .. Len(stream[r]) : stream[r][n].op = "forward"})

may_rearrange(r) == ~plan.is_async \/ \A m \in Model : ~rebalanced[r][m]

\* step() from its model m on, at step n: in async mode the next model that is
\* being rebalanced asks whether all ranks have a result; after the last one a
\* rearrangement may be due.
continue(r, m, n) ==
  LET asking == {k \in Model : plan.is_async /\ k >= m /\ rebalanced[r][k]} IN
  IF asking # {}
  THEN /\ Goto(r, "reduce")
       /\ model' = [model EXCEPT ![r] = least(asking)]
       /\ has_result' = [has_result EXCEPT ![r] = pending[r][least(asking)] # None]
       /\ step' = [step EXCEPT ![r] = n]
  ELSE /\ IF n >= plan.interval /\ may_rearrange(r)
          THEN Goto(r, "rearrange") /\ step' = [step EXCEPT ![r] = 0]
          ELSE Goto(r, "forward") /\ step' = [step EXCEPT ![r] = n]
       /\ model' = [model EXCEPT ![r] = 0]
       /\ UNCHANGED has_result

\* A forward pass and the beginning of step().
forward(r) ==
  /\ main[r] = "forward"
  /\ forwards(r) < MaxInFlight
  /\ Issue(r, <<[op |-> "forward"]>>)
  /\ continue(r, 0, IF step[r] < plan.interval THEN step[r] + 1 ELSE step[r])
  /\ UNCHANGED <<plan, rebalanced, stats, pending, rearrange_event, consumed_event,
                 worker, job, map, weights, buffer, failed>>

\* Fault: step() asks until there is a result.
next_model_polls(r) ==
  /\ main[r] = "models"
  /\ continue(r, model[r], step[r])
  /\ UNCHANGED <<plan, rebalanced, stats, pending, rearrange_event, consumed_event, worker, job,
                 stream, map, weights, buffer, failed>>

\* The models after the one that asked.
next_model(r) ==
  /\ main[r] = "models"
  /\ continue(r, model[r] + 1, step[r])
  /\ UNCHANGED <<plan, rebalanced, stats, pending, rearrange_event, consumed_event, worker, job,
                 stream, map, weights, buffer, failed>>

result_ready(r) == \A s \in Rank : has_result[s]

\* The all_reduce of _all_ranks_result_ready.
all_ranks_result_ready ==
  /\ \A r \in Rank : main[r] = "reduce"
  /\ main' = [r \in Rank |-> IF result_ready(r) THEN "move" ELSE "models"]
  /\ has_result' = [r \in Rank |-> FALSE]
  /\ UNCHANGED <<plan, model, step, rebalanced, stats, pending, rearrange_event,
                 consumed_event, worker, job, stream, map, weights, buffer, failed>>

pending_after_move(r) == [pending EXCEPT ![r][model[r]] = None]

\* Fault: the layers are counted from one.
last_layer_one(l) == l = plan.layers

last_layer(l) == l = plan.layers - 1

\* _move_to_workspace until it unblocks the worker: the copies and the commit of
\* the maps go on the main stream.
move_to_workspace(r) ==
  /\ main[r] = "move"
  /\ LET m == model[r]
         result == pending[r][m]
     IN IF result = None
        THEN /\ failed' = TRUE
             /\ Goto(r, "dead")
             /\ UNCHANGED <<stream, rebalanced, pending>>
        ELSE /\ Issue(r, <<[op |-> "move", model |-> m, result |-> result]>>)
             /\ rebalanced' = [rebalanced EXCEPT ![r][m] = @ /\ ~last_layer(result.layer)]
             /\ pending' = pending_after_move(r)
             /\ Goto(r, "record")
             /\ UNCHANGED failed
  /\ UNCHANGED <<plan, model, step, has_result, stats, rearrange_event, consumed_event, worker, job,
                 map, weights, buffer>>

\* Its last statement, consumed_event.record().  Before it, _pad_out_tensor copies
\* from the host and blocks until the stream has done the copies out of the
\* buffer.  Only nixl needs that: for the others the stream may be behind.
record_consumed(r) ==
  /\ main[r] = "record"
  /\ plan.nixl => ~unreached(r, "move")
  /\ consumed_event' = [consumed_event EXCEPT ![r] = TRUE]
  /\ Issue(r, <<[op |-> "consumed"]>>)
  /\ failed' = (failed \/ consumed_event[r])
  /\ Goto(r, "models")
  /\ UNCHANGED <<plan, model, step, has_result, rebalanced, stats, pending, rearrange_event, worker, job,
                 map, weights, buffer>>

\* rearrange(): the load is all-reduced, so that the policy gives every rank the
\* same placements.
all_reduce_load ==
  /\ \A r \in Rank : main[r] = "rearrange"
  /\ main' = [r \in Rank |-> IF plan.is_async THEN "signal" ELSE "exchange"]
  /\ \E new \in PlacementsOf[plan.placements] : stats' = [r \in Rank |-> new]
  /\ UNCHANGED <<plan, model, step, has_result, rebalanced, pending, rearrange_event,
                 consumed_event, worker, job, stream, map, weights, buffer, failed>>

\* In async mode each rank sets its flags and signals its worker.
signal_worker(r) ==
  /\ main[r] = "signal"
  /\ rebalanced' = [rebalanced EXCEPT ![r] = [m \in Model |-> TRUE]]
  /\ failed' = (failed \/ rearrange_event[r])
  /\ rearrange_event' = [rearrange_event EXCEPT ![r] = TRUE]
  /\ Issue(r, <<[op |-> "rearrange"]>>)
  /\ Goto(r, "forward")
  /\ UNCHANGED <<plan, model, step, has_result, stats, pending, consumed_event, worker, job, map,
                 weights, buffer>>

\* In sync mode rearrange_expert_weights_inplace takes every layer through the
\* buffer.  A rank posts ...
post_exchange(r) ==
  /\ main[r] = "exchange"
  /\ stream[r] = <<>>
  /\ job' = [job EXCEPT ![r] = [m \in Model |-> [l \in Layer |->
               posts(map[r][m][l], stats[r][m][l], r)]]]
  /\ Goto(r, "exchanging")
  /\ UNCHANGED <<plan, model, step, has_result, rebalanced, stats, pending, rearrange_event,
                 consumed_event, worker, stream, map, weights, buffer, failed>>

\* ... and when all have, the weights are exchanged and the maps committed.  The
\* code does so layer by layer and the maps last; no forward pass is on the stream
\* or put there before all is done.
rearrange_expert_weights_inplace ==
  /\ \A r \in Rank : main[r] = "exchanging"
  /\ \A r, s \in Rank, m \in Model, l \in Layer : pair(job[r][m][l], job[s][m][l], r, s)
  /\ weights' = [r \in Rank |-> [m \in Model |-> [l \in Layer |->
       LET old == map[r][m][l]
           new == stats[r][m][l]
           p(s) == job[s][m][l]
           w(s) == weights[s][m][l]
       IN move_from_buffer(old, new, r, execute(old, new, r, p, w), w(r))]]]
  /\ job' = [r \in Rank |-> None]
  /\ map' = stats
  /\ main' = [r \in Rank |-> "forward"]
  /\ UNCHANGED <<plan, model, step, has_result, rebalanced, stats, pending, rearrange_event,
                 consumed_event, worker, stream, buffer, failed>>

-----------------------------------------------------------------------------
(* transfer_run_periodically: the async worker of a rank. *)

\* rearrange_event.wait: the flag is seen, and cleared a moment later.
wake_worker(r) ==
  /\ worker[r] = "idle"
  /\ rearrange_event[r]
  /\ GotoW(r, "woken")
  /\ UNCHANGED <<plan, main, model, step, has_result, rebalanced, stats, pending, rearrange_event,
                 consumed_event, job, stream, map, weights, buffer, failed>>

clear_event(r) ==
  /\ worker[r] = "woken"
  /\ rearrange_event' = [rearrange_event EXCEPT ![r] = FALSE]
  /\ job' = [job EXCEPT ![r] = [model |-> 0, layer |-> 0, old |-> None, new |-> None,
                                posted |-> None]]
  /\ GotoW(r, "snapshot")
  /\ UNCHANGED <<plan, main, model, step, has_result, rebalanced, stats, pending, consumed_event,
                 stream, map, weights, buffer, failed>>

\* Fault: the worker's stream does not wait for the main stream.
reached_at_once(r, event) == TRUE

reached(r, event) == ~unreached(r, event)

\* The snapshot of the map, on a stream that has waited for the event, and
\* run_rebalance_experts.
snapshot(r) ==
  /\ worker[r] = "snapshot"
  /\ reached(r, "rearrange")
  /\ job' = [job EXCEPT ![r].old = map[r][job[r].model], ![r].new = stats[r][job[r].model],
                        ![r].layer = 0]
  /\ GotoW(r, "loop")
  /\ UNCHANGED <<plan, main, model, step, has_result, rebalanced, stats, pending, rearrange_event,
                 consumed_event, stream, map, weights, buffer, failed>>

Old(r) == job[r].old[job[r].layer]
New(r) == job[r].new[job[r].layer]

\* The loop over the layers.  move_to_buffer posts the transfer on a stream that
\* has waited for consumed_event; the reads of nixl are on no stream.
next_layer(r) ==
  /\ worker[r] = "loop"
  /\ IF rebalanced[r][job[r].model] /\ job[r].layer \in Layer
     THEN /\ plan.nixl \/ reached(r, "consumed")
          /\ job' = [job EXCEPT ![r].posted = posts(Old(r), New(r), r)]
          /\ GotoW(r, "posted")
     ELSE IF job[r].model + 1 \in Model
     THEN /\ job' = [job EXCEPT ![r].model = @ + 1]
          /\ GotoW(r, "snapshot")
     ELSE /\ job' = [job EXCEPT ![r] = None]
          /\ GotoW(r, "idle")
  /\ UNCHANGED <<plan, main, model, step, has_result, rebalanced, stats, pending, rearrange_event,
                 consumed_event, stream, map, weights, buffer, failed>>

same_layer(r, s) == job[s].model = job[r].model /\ job[s].layer = job[r].layer

\* The posts of r and s for the same layer pair.
meet(r, s) == same_layer(r, s) /\ pair(job[r].posted, job[s].posted, r, s)

\* communicator.execute(): what a rank receives is there once its sources have
\* posted, with nixl whatever they do; ...
receive(r) ==
  /\ worker[r] = "posted"
  /\ plan.nixl \/ \A s \in Rank : job[r].posted.recv[s] # {} =>
                    worker[s] \in {"posted", "received"} /\ meet(r, s)
  /\ LET m == job[r].model
         p(s) == job[s].posted
         w(s) == weights[s][m][job[r].layer]
     IN buffer' = [buffer EXCEPT ![r][m] = execute(Old(r), New(r), r, p, w)]
  /\ GotoW(r, "received")
  /\ UNCHANGED <<plan, main, model, step, has_result, rebalanced, stats, pending, rearrange_event,
                 consumed_event, job, stream, map, weights, failed>>

\* ... it returns when the rank's own sends have been received, with nixl when all
\* ranks are at the barrier.
executed(r) ==
  IF plan.nixl
  THEN \A s \in Rank : worker[s] \in {"received", "published"} /\ same_layer(r, s)
  ELSE \A s \in Rank : job[r].posted.send[s] # {} =>
         worker[s] \in {"received", "published"} /\ meet(s, r)

\* The result becomes visible to the main thread, with a new event.
publish(r) ==
  /\ worker[r] = "received"
  /\ executed(r)
  /\ pending' = [pending EXCEPT ![r][job[r].model] =
                   [layer |-> job[r].layer, old |-> Old(r), new |-> New(r)]]
  /\ consumed_event' = [consumed_event EXCEPT ![r] = FALSE]
  /\ GotoW(r, "published")
  /\ UNCHANGED <<plan, main, model, step, has_result, rebalanced, stats, rearrange_event, job,
                 stream, map, weights, buffer, failed>>

\* consumed_event.wait and the assertion after it.
wait_consumed(r) ==
  /\ worker[r] = "published"
  /\ consumed_event[r]
  /\ consumed_event' = [consumed_event EXCEPT ![r] = FALSE]
  /\ failed' = (failed \/ pending[r][job[r].model] # None)
  /\ job' = [job EXCEPT ![r].layer = @ + 1, ![r].posted = None]
  /\ GotoW(r, "loop")
  /\ UNCHANGED <<plan, main, model, step, has_result, rebalanced, stats, pending, rearrange_event,
                 stream, map, weights, buffer>>

\* An exception in the worker is logged and ends it (start_async_worker): also
\* when the barrier of nixl times out.
worker_dies(r) ==
  /\ plan.dies
  /\ worker[r] \in {"snapshot", "posted"} \/ (plan.nixl /\ worker[r] = "received")
  /\ GotoW(r, "dead")
  /\ UNCHANGED <<plan, main, model, step, has_result, rebalanced, stats, pending, rearrange_event,
                 consumed_event, job, stream, map, weights, buffer, failed>>

-----------------------------------------------------------------------------
(* The GPU. *)

Head_is(r, o) == stream[r] # <<>> /\ Head(stream[r]).op = o

\* The copies out of the buffer and _commit_eplb_maps_for_layer.
gpu_move(r) ==
  /\ Head_is(r, "move")
  /\ LET m == Head(stream[r]).model
         res == Head(stream[r]).result
     IN /\ weights' = [weights EXCEPT ![r][m][res.layer] =
                         move_from_buffer(res.old, res.new, r, buffer[r][m], @)]
        /\ map' = [map EXCEPT ![r][m][res.layer] = res.new]
        /\ buffer' = [buffer EXCEPT ![r][m] = [i \in Row |-> Garbage]]
  /\ stream' = [stream EXCEPT ![r] = Tail(@)]
  /\ UNCHANGED <<plan, main, model, step, has_result, rebalanced, stats, pending, rearrange_event,
                 consumed_event, worker, job, failed>>

gpu_event(r) ==
  /\ Head_is(r, "consumed") \/ Head_is(r, "rearrange")
  /\ stream' = [stream EXCEPT ![r] = Tail(@)]
  /\ UNCHANGED <<plan, main, model, step, has_result, rebalanced, stats, pending, rearrange_event,
                 consumed_event, worker, job, map, weights, buffer, failed>>

\* A forward pass dispatches tokens between all ranks.
gpu_forward ==
  /\ \A r \in Rank : Head_is(r, "forward")
  /\ stream' = [r \in Rank |-> Tail(stream[r])]
  /\ UNCHANGED <<plan, main, model, step, has_result, rebalanced, stats, pending, rearrange_event,
                 consumed_event, worker, job, map, weights, buffer, failed>>

-----------------------------------------------------------------------------
MainThread ==
  \/ \E r \in Rank : \/ forward(r) \/ next_model(r) \/ move_to_workspace(r) \/ record_consumed(r)
                     \/ signal_worker(r) \/ post_exchange(r)
  \/ all_ranks_result_ready \/ all_reduce_load \/ rearrange_expert_weights_inplace

Worker ==
  \E r \in Rank : \/ wake_worker(r) \/ clear_event(r) \/ snapshot(r) \/ next_layer(r)
                  \/ receive(r) \/ publish(r) \/ wait_consumed(r)

Gpu == gpu_forward \/ \E r \in Rank : gpu_move(r) \/ gpu_event(r)

Next == MainThread \/ Worker \/ Gpu \/ \E r \in Rank : worker_dies(r)

\* The threads are scheduled and the GPU works; a worker need not die.
Fairness == WF_vars(MainThread) /\ WF_vars(Worker) /\ WF_vars(Gpu)

Spec == Init /\ [][Next]_vars
FairSpec == Spec /\ Fairness

-----------------------------------------------------------------------------
(* Properties. *)

\* Type invariant.
TypeOK ==
  /\ \A r \in Rank :
       /\ main[r] \in {"forward", "models", "reduce", "move", "record", "rearrange", "signal",
                       "exchange", "exchanging", "dead"}
       /\ model[r] \in 0 .. plan.models
       /\ step[r] \in 0 .. plan.interval
       /\ worker[r] \in {"none", "idle", "woken", "snapshot", "loop", "posted", "received",
                         "published", "dead"}
       /\ plan.is_async /\ job[r] # None =>
            job[r].model \in 0 .. plan.models /\ job[r].layer \in 0 .. plan.layers
       /\ \A m \in Model :
            /\ pending[r][m] # None => pending[r][m].layer \in Layer
            /\ \A l \in Layer, i \in Row : weights[r][m][l][i] \in Expert
            /\ \A i \in Row : buffer[r][m][i] \in Expert \cup {Garbage}
  /\ failed \in BOOLEAN

\* compute_logical_maps: the slots a logical expert's tokens are sent to.
logical_to_physical(p, e) == {s \in Slot : p[s] = e}

\* Whenever the ranks run a forward pass, every rank's map sends the tokens of an
\* expert, in every layer, to slots that hold that expert's weights, of which
\* there is one: in the middle of an asynchronous rearrangement, while workers
\* write buffers, and after a worker has died.  _move_to_workspace has a result,
\* a worker whose result was consumed finds it reset, and no CpuGpuEvent is
\* recorded before the last record was waited for.
TokensFindTheirExpert ==
  /\ TypeOK
  /\ ~failed
  /\ (\A r \in Rank : Head_is(r, "forward")) =>
       \A r \in Rank, m \in Model, l \in Layer, e \in Expert :
         LET slots == logical_to_physical(map[r][m][l], e) IN
         /\ slots # {}
         /\ \A s \in slots : weights[s \div plan.local][m][l][s % plan.local] = e

\* The main threads never hang: not in the all_reduce of _all_ranks_result_ready,
\* which needs the flags to agree on all ranks, nor in an exchange of weights
\* whose sends and receives do not pair, nor behind a worker that died.
MainThreadsGoOn == []<>(main[0] = "forward" /\ forwards(0) < MaxInFlight)

\* A rearrangement that was started is committed to its last layer, unless a
\* worker dies.
RearrangementCompletes ==
  rebalanced[0][0] ~> (~rebalanced[0][0] \/ \E r \in Rank : worker[r] = "dead")

=============================================================================
