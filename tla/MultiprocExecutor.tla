------------------------- MODULE MultiprocExecutor -------------------------
(***************************************************************************)
(* MultiprocExecutor: the engine thread broadcasts calls to the worker     *)
(* processes and takes their replies from one response queue per worker.   *)
(* A reply carries no call id: call and reply match by their position.     *)
(* Futures of calls that do not block are resolved in the order of the     *)
(* calls, whichever result() is asked for first.                           *)
(*                                                                         *)
(* A queue is what MessageQueue implements, with MaxChunks slots.  Two     *)
(* kinds of calls are made: a "step" (execute_model, sample_tokens), whose *)
(* failure ends the engine, and a "utility" call (collective_rpc of a      *)
(* client), whose failure is reported to the client while the engine goes  *)
(* on.                                                                     *)
(***************************************************************************)
EXTENDS Integers, Sequences

CONSTANTS
    WorldSize,
    OutputRank,
    MaxCalls,           \* bound on the calls made
    Configs             \* configurations and faults, one of which is run

ASSUME MultiprocExecutorAssumption ==
    /\ WorldSize \in Nat \ {0}
    /\ MaxCalls \in Nat
    /\ OutputRank \in 0 .. WorldSize - 1
    /\ \A c \in Configs :
          c \in [kv_aggregator : BOOLEAN,       \* every worker replies to a step
                 async_scheduling : BOOLEAN,    \* a thread of the worker enqueues the replies
                 max_chunks : Nat \ {0},
                 outstanding : Nat \ {0},       \* steps issued and not yet waited for
                 calls : 0 .. MaxCalls,
                 faults : SUBSET {"failure", "timeout", "death"}]

Worker == 0 .. WorldSize - 1
Call == 1 .. MaxCalls

VARIABLES
    config,             \* never changes
    pc,                 \* of the engine thread: "idle", "enqueue", "result", "dead"
    calls,              \* how many calls have been made
    kind,               \* Call -> "step" or "utility"
    futures_queue,
    target,             \* the call whose result() is running
    current,            \* the future it drains, 0 for none
    outcome,            \* Call -> "none", "pending", "ok" or "error"
    got,                \* Call -> the replies, as calls, that get_response took
    rpc_broadcast_mq,   \* Worker -> the calls it has still to read
    outputs,            \* Worker -> replies it has made and not yet enqueued
    response_mqs,
    alive,
    is_failed,
    shutting_down

engineVars == <<pc, calls, kind, futures_queue, target, current, outcome, got>>
queueVars == <<rpc_broadcast_mq, outputs, response_mqs>>
vars == <<config, engineVars, queueVars, alive, is_failed, shutting_down>>

Init ==
    /\ config \in Configs
    /\ pc = "idle" /\ calls = 0 /\ target = 0 /\ current = 0
    /\ kind = [c \in Call |-> "none"]
    /\ futures_queue = <<>>
    /\ outcome = [c \in Call |-> "none"]
    /\ got = [c \in Call |-> <<>>]
    /\ rpc_broadcast_mq = [w \in Worker |-> <<>>]
    /\ outputs = [w \in Worker |-> <<>>]
    /\ response_mqs = [w \in Worker |-> <<>>]
    /\ alive = [w \in Worker |-> TRUE]
    /\ is_failed = FALSE
    /\ shutting_down = FALSE

\* The workers that reply to a call, in the order in which they are asked.
reply_ranks(k) ==
    IF k = "step" /\ ~config.kv_aggregator THEN <<OutputRank>> ELSE [i \in 1 .. WorldSize |-> i - 1]

-----------------------------------------------------------------------------
\* The engine thread

\* Fault: nothing bounds the batches in flight.
may_call_unbounded(k) == TRUE

\* step_with_batch_queue keeps no more than batch_queue_size batches.
may_call(k) == k = "step" => Len(futures_queue) < config.outstanding

collective_rpc(k) ==
    /\ pc = "idle"
    /\ calls < config.calls
    /\ may_call(k)
    /\ ~is_failed
    /\ calls' = calls + 1
    /\ kind' = [kind EXCEPT ![calls + 1] = k]
    /\ pc' = "enqueue"
    /\ UNCHANGED <<config, futures_queue, target, current, outcome, got, queueVars, alive,
                   is_failed,
                   shutting_down>>

chunk_free == \A w \in Worker : Len(rpc_broadcast_mq[w]) < config.max_chunks

\* enqueue waits for a chunk that every worker has read; nothing, not even
\* shutdown(), ends that wait.  A utility call then waits for its result.
enqueue ==
    /\ pc = "enqueue"
    /\ chunk_free
    /\ ~shutting_down
    /\ rpc_broadcast_mq' = [w \in Worker |-> Append(rpc_broadcast_mq[w], calls)]
    /\ futures_queue' = Append(futures_queue, calls)
    /\ outcome' = [outcome EXCEPT ![calls] = "pending"]
    /\ IF kind[calls] = "utility"
       THEN target' = calls /\ pc' = "result"
       ELSE pc' = "idle" /\ UNCHANGED target
    /\ UNCHANGED <<config, calls, kind, current, got, outputs, response_mqs, alive, is_failed,
                   shutting_down>>

\* shutdown() has emptied response_mqs by the time it is read, after enqueue:
\* there is no queue to index and a step raises, or there is none to wait for
\* and a utility call returns no replies; EXECUTOR_FAILED is what the engine
\* handles next.  No worker is left to read the call.
enqueue_late ==
    /\ pc = "enqueue"
    /\ chunk_free
    /\ shutting_down
    /\ pc' = "dead"
    /\ UNCHANGED <<config, calls, kind, futures_queue, target, current, outcome, got, queueVars,
                   alive, is_failed, shutting_down>>

\* The failure callback has queued EXECUTOR_FAILED: the engine ends.
executor_failed ==
    /\ pc = "idle"
    /\ shutting_down
    /\ pc' = "dead"
    /\ UNCHANGED <<config, calls, kind, futures_queue, target, current, outcome, got, queueVars,
                   alive,
                   is_failed, shutting_down>>

\* The engine asks for the result of a batch: as sampling is a call of its
\* own, that is not always the oldest future.  One that was drained with
\* success before needs no step here.
result(c) ==
    /\ pc = "idle"
    /\ kind[c] = "step"
    /\ outcome[c] \in {"pending", "error"}
    /\ target' = c
    /\ pc' = "result"
    /\ UNCHANGED <<config, calls, kind, futures_queue, current, outcome, got, queueVars, alive,
                   is_failed,
                   shutting_down>>

\* Fault: only the own future is taken from the queue.
drain_next_own_only ==
    /\ pc = "result"
    /\ current = 0
    /\ outcome[target] = "pending"
    /\ current' = target
    /\ futures_queue' = SelectSeq(futures_queue, LAMBDA c : c # target)
    /\ UNCHANGED <<config, pc, calls, kind, target, outcome, got, queueVars, alive, is_failed,
                   shutting_down>>

\* FutureWrapper.result drains the futures ahead of its own.
drain_next ==
    /\ pc = "result"
    /\ current = 0
    /\ outcome[target] = "pending"
    /\ current' = Head(futures_queue)
    /\ futures_queue' = Tail(futures_queue)
    /\ UNCHANGED <<config, pc, calls, kind, target, outcome, got, queueVars, alive, is_failed,
                   shutting_down>>

\* The mq that get_response of the current future reads next.
next_rank == reply_ranks(kind[current])[Len(got[current]) + 1]

\* The reply of the next worker is taken; a FAILURE raises at once.
get_response ==
    /\ pc = "result"
    /\ current # 0
    /\ response_mqs[next_rank] # <<>>
    /\ LET reply == Head(response_mqs[next_rank])
           replies == Append(got[current], reply.call)
       IN /\ response_mqs' = [response_mqs EXCEPT ![next_rank] = Tail(@)]
          /\ got' = [got EXCEPT ![current] = replies]
          /\ IF ~reply.success
             THEN outcome' = [outcome EXCEPT ![current] = "error"] /\ current' = 0
             ELSE IF Len(replies) = Len(reply_ranks(kind[current]))
             THEN outcome' = [outcome EXCEPT ![current] = "ok"] /\ current' = 0
             ELSE UNCHANGED <<outcome, current>>
    /\ UNCHANGED <<config, pc, calls, kind, futures_queue, target, rpc_broadcast_mq, outputs,
                   alive, is_failed, shutting_down>>

\* dequeue raises: the deadline has passed, or the queue was shut down.
get_response_raises ==
    /\ pc = "result"
    /\ current # 0
    /\ response_mqs[next_rank] = <<>>
    /\ "timeout" \in config.faults \/ shutting_down
    /\ outcome' = [outcome EXCEPT ![current] = "error"]
    /\ current' = 0
    /\ UNCHANGED <<config, pc, calls, kind, futures_queue, target, got, queueVars, alive, is_failed,
                   shutting_down>>

\* result() returns or raises.
result_done ==
    /\ pc = "result"
    /\ current = 0
    /\ outcome[target] # "pending"
    /\ pc' = IF outcome[target] = "error" /\ kind[target] = "step" THEN "dead" ELSE "idle"
    /\ target' = 0
    /\ UNCHANGED <<config, calls, kind, futures_queue, current, outcome, got, queueVars, alive,
                   is_failed,
                   shutting_down>>

-----------------------------------------------------------------------------
\* The worker processes

replies(w, c) == \E i \in DOMAIN reply_ranks(kind[c]) : reply_ranks(kind[c])[i] = w

\* One iteration of worker_busy_loop, up to handle_output: without a thread
\* for the outputs the loop goes on when its last reply is enqueued.
worker_busy_loop(w) ==
    /\ alive[w]
    /\ config.async_scheduling \/ outputs[w] = <<>>
    /\ rpc_broadcast_mq[w] # <<>>
    /\ rpc_broadcast_mq' = [rpc_broadcast_mq EXCEPT ![w] = Tail(@)]
    /\ LET c == Head(rpc_broadcast_mq[w])
       IN IF replies(w, c)
          THEN \E success \in (IF "failure" \in config.faults THEN BOOLEAN ELSE {TRUE}) :
                 outputs' = [outputs EXCEPT ![w] = Append(@, [call |-> c, success |-> success])]
          ELSE UNCHANGED outputs
    /\ UNCHANGED <<config, engineVars, response_mqs, alive, is_failed, shutting_down>>

\* The reply is enqueued when a chunk is free.
enqueue_output(w) ==
    /\ alive[w]
    /\ outputs[w] # <<>>
    /\ Len(response_mqs[w]) < config.max_chunks
    /\ response_mqs' = [response_mqs EXCEPT ![w] = Append(@, Head(outputs[w]))]
    /\ outputs' = [outputs EXCEPT ![w] = Tail(@)]
    /\ UNCHANGED <<config, engineVars, rpc_broadcast_mq, alive, is_failed, shutting_down>>

die(w) ==
    /\ "death" \in config.faults
    /\ alive[w]
    /\ alive' = [alive EXCEPT ![w] = FALSE]
    /\ UNCHANGED <<config, engineVars, queueVars, is_failed, shutting_down>>

-----------------------------------------------------------------------------
\* The monitor thread: a worker that dies fails the executor ...

monitor_workers ==
    /\ \E w \in Worker : ~alive[w]
    /\ ~is_failed
    /\ is_failed' = TRUE
    /\ UNCHANGED <<config, engineVars, queueVars, alive, shutting_down>>

\* Fault: shutdown() leaves the response queues alone.
shutdown_keeps_queues ==
    /\ is_failed
    /\ \E w \in Worker : alive[w]
    /\ alive' = [w \in Worker |-> FALSE]
    /\ UNCHANGED <<config, engineVars, queueVars, is_failed, shutting_down>>

\* ... which ends the other workers and wakes whoever waits for a reply.
shutdown ==
    /\ is_failed
    /\ ~shutting_down
    /\ alive' = [w \in Worker |-> FALSE]
    /\ shutting_down' = TRUE
    /\ UNCHANGED <<config, engineVars, queueVars, is_failed>>

-----------------------------------------------------------------------------

Engine ==
    \/ enqueue \/ enqueue_late \/ executor_failed
    \/ drain_next \/ get_response \/ get_response_raises \/ result_done

Workers == \E w \in Worker : worker_busy_loop(w) \/ enqueue_output(w)

Monitor == monitor_workers \/ shutdown

Next ==
    \/ Engine \/ Workers \/ Monitor
    \/ \E k \in {"step", "utility"} : collective_rpc(k)
    \/ \E c \in Call : result(c)
    \/ \E w \in Worker : die(w)

Spec == Init /\ [][Next]_vars

\* Threads and processes keep running.  The engine makes no promise to call.
Fairness ==
    /\ WF_vars(Engine) /\ WF_vars(Monitor)
    /\ \A w \in Worker : WF_vars(worker_busy_loop(w)) /\ WF_vars(enqueue_output(w))

FairSpec == Spec /\ Fairness

-----------------------------------------------------------------------------

\* The rings of calls and of replies never hold more than their chunks, and
\* calls, futures and workers are in a known state.
TypeOK ==
    /\ pc \in {"idle", "enqueue", "result", "dead"}
    /\ calls \in 0 .. MaxCalls
    /\ kind \in [Call -> {"none", "step", "utility"}]
    /\ futures_queue \in Seq(Call)
    /\ {target, current} \subseteq 0 .. MaxCalls
    /\ outcome \in [Call -> {"none", "pending", "ok", "error"}]
    /\ got \in [Call -> Seq(Call)]
    /\ rpc_broadcast_mq \in [Worker -> Seq(Call)]
    /\ \A w \in Worker : Len(rpc_broadcast_mq[w]) <= config.max_chunks /\ Len(response_mqs[w]) <= config.max_chunks
    /\ alive \in [Worker -> BOOLEAN]
    /\ {is_failed, shutting_down} \subseteq BOOLEAN

\* The replies a call returns are the replies to that call, from every worker
\* that was asked: none is left over from an earlier call, none is taken by
\* the future of another one, although results are asked for in any order.
\* After a call that failed or timed out this does not hold: its other replies
\* stay in their queues.  Futures are resolved in the order of the calls.
RepliesMatchCalls ==
    /\ TypeOK
    /\ \A c \in Call : (\A d \in 1 .. c - 1 : outcome[d] # "error") =>
         \A i \in DOMAIN got[c] : got[c][i] = c
    /\ \A c, d \in Call : (c < d /\ outcome[d] \in {"ok", "error"}) => outcome[c] \in {"ok", "error"}

\* The engine waits for a chunk that a dead worker has not read.
waits_for_the_dead ==
    pc = "enqueue" /\ \E w \in Worker : ~alive[w] /\ Len(rpc_broadcast_mq[w]) = config.max_chunks

\* A call returns or raises: full queues never make the engine and the
\* workers wait for each other, as long as no more than 2 * max_chunks steps
\* are outstanding and no dead worker has to read first.
EveryCallReturns == (pc \in {"enqueue", "result"}) ~> (pc \in {"idle", "dead"} \/ waits_for_the_dead)

\* No call returns without the reply of every worker, and the ring of calls has
\* room for one more than the steps outstanding.
dead_worker_stops_calls ==
    config.kv_aggregator /\ config.faults = {"death"} /\ config.outstanding < config.max_chunks

\* The death of a worker ends the engine, wherever it waits for a reply.  Only
\* a wait for a free chunk is ended by nothing: while the monitor has not seen
\* the death, calls that return without a reply of the dead worker (steps that
\* the output rank alone answers, utility calls that fail or time out) may
\* fill its ring.  When calls need the reply of every worker, and the ring has
\* room for one more than the steps outstanding, that cannot happen.
DeathEndsEngine ==
    \A w \in Worker :
        ~alive[w] ~> (pc = "dead" \/ (waits_for_the_dead /\ ~dead_worker_stops_calls))
=============================================================================
