----------------------------- MODULE Ubatching -----------------------------
(***************************************************************************)
(* Dual-batch overlap: a forward pass is split into micro-batches, one     *)
(* thread each (v1/worker/gpu_ubatch_wrapper.py), which hand the CPU to    *)
(* each other around the communication of every mixture-of-experts layer   *)
(* (v1/worker/ubatching.py), so that one micro-batch computes while the    *)
(* other communicates.  All of them put their kernels on one compute and   *)
(* one communication stream of the GPU, which runs them later; events      *)
(* order one stream after the other.                                       *)
(*                                                                         *)
(* Two back ends use it: DeepEP's high-throughput one ("ht"), which        *)
(* switches streams, and its low-latency one ("ll"), which stays on the    *)
(* compute stream and leaves the receiving half of a transfer to a hook    *)
(* that the next micro-batch runs.                                         *)
(***************************************************************************)
EXTENDS Integers, Sequences, FiniteSets

CONSTANTS
  NumUbatches,
  Plans          \* what the pass is like, one of which happens

ASSUME SizesAssumption ==
  /\ NumUbatches \in Nat \ {0, 1}
  /\ \A p \in Plans :
       p \in [mode : {"ht", "ll"},
              layers : Nat \ {0},                    \* mixture-of-experts layers
              fixed : BOOLEAN,                       \* fixed-capacity dispatch: no wait for the counts
              raises : SUBSET (0 .. NumUbatches - 1)] \* threads a kernel launch may raise in

Thread == 0 .. NumUbatches - 1
Stream == {"compute", "comm"}
None == <<>>
NoThread == -1

VARIABLES
  plan,             \* never changes
  main,             \* UBatchWrapper._run_ubatches: "start", "barrier", "wake", "join", "done"
  state,            \* of a thread: "new", "starting", "barrier", "waiting", "running",
                    \* "yielded", "exiting", "done"
  at,               \* next operation of a thread's program
  event,            \* cpu_wait_event of each context
  contexts,         \* threads in _CURRENT_CONTEXTS and _THREAD_ID_TO_CONTEXT
  forward_context,  \* the global one: the thread whose it is
  current_stream,   \* of each thread
  recv_hook,        \* hook of each context: a kernel to launch
  handles,          \* DeepEP's dispatch handle of each micro-batch: the back ends
                    \* have two slots, which bounds NumUbatches where they run
  handle,           \* the one a thread has read for its combine
  results,          \* outputs returned by the threads
  raised,           \* threads that ended with an exception
  asserted,         \* an assertion has failed
  queue,            \* [stream]: what the GPU has still to do
  recorded, completed,  \* [stream][thread]: how often the event was recorded, and reached
  done,             \* kernels that have run
  launched          \* history: dispatches and combines in the order of their launch

threads == <<state, at, contexts, forward_context, current_stream, recv_hook, handles, handle,
             raised, asserted, launched>>
gpu == <<queue, recorded, completed, done>>
vars == <<plan, main, event, results, threads, gpu>>

Init ==
  /\ plan \in Plans
  /\ main = "start"
  /\ state = [t \in Thread |-> "new"]
  /\ at = [t \in Thread |-> 1]
  /\ event = [t \in Thread |-> FALSE]
  /\ contexts = {}
  /\ forward_context = NoThread
  /\ current_stream = [t \in Thread |-> "compute"]
  /\ recv_hook = [t \in Thread |-> None]
  /\ handles = [t \in Thread |-> None]
  /\ handle = [t \in Thread |-> None]
  /\ results = {}
  /\ raised = {}
  /\ asserted = FALSE
  /\ queue = [s \in Stream |-> <<>>]
  /\ recorded = [s \in Stream |-> [t \in Thread |-> 0]]
  /\ completed = [s \in Stream |-> [t \in Thread |-> 0]]
  /\ done = {}
  /\ launched = <<>>

-----------------------------------------------------------------------------
(* What a thread does. *)

\* A layer with each back end, as the modular kernel and the back end's
\* prepare and finalize go through it.  The event that DeepEP captures on the
\* compute stream (dbo_get_previous_event) just before a yield_to_comm is left
\* out: the dispatch or combine waits for it where the yield makes the
\* communication stream wait for the same point anyway.
ht_layer == <<"attention", "yield_to_comm", "dispatch", "sync_to_compute", "experts",
              "finalize", "yield_to_comm", "combine", "to_compute", "shared", "to_comm",
              "copy", "yield_to_compute">>

ll_layer == <<"attention", "run_hook", "dispatch", "register_dispatch", "yield", "experts",
              "finalize", "run_hook", "combine", "shared", "register_combine", "yield">>

layer_program == IF plan.mode = "ht" THEN ht_layer ELSE ll_layer

layer(t) == (at[t] - 1) \div Len(layer_program) + 1

op(t) == IF layer(t) > plan.layers THEN "norm"
         ELSE layer_program[((at[t] - 1) % Len(layer_program)) + 1]

\* The model has returned: the output norm follows the last layer.
finished(t) == at[t] > plan.layers * Len(layer_program) + 1

Kernels == {"attention", "dispatch", "experts", "combine", "shared", "copy", "norm"}

\* A dispatch without fixed capacity returns when the counts are on the host.
blocked(t) ==
  /\ plan.mode = "ht" /\ ~plan.fixed
  /\ op(t) = "sync_to_compute"
  /\ <<"dispatch", t, layer(t)>> \notin done

Runs(t, what) ==
  /\ state[t] = "running" /\ t \notin raised
  /\ ~finished(t)
  /\ ~blocked(t)
  /\ op(t) \in what

Advance(t) == at' = [at EXCEPT ![t] = @ + 1]

Enqueue(s, ops) == [queue EXCEPT ![s] = @ \o ops]

Kernel(k) == [op |-> "kernel", kernel |-> k]

\* gpu_compute_done_event and gpu_comm_done_event of a thread: a record, and a
\* wait for the record that is the latest when wait_event is called.
Record(s, t) == [op |-> "record", stream |-> s, thread |-> t, n |-> recorded[s][t] + 1]
WaitFor(s, t, n) == [op |-> "wait", stream |-> s, thread |-> t, n |-> n]

\* Fault: every micro-batch is the first.
dbo_current_ubatch_id_first(t) == 0

dbo_current_ubatch_id(t) == IF contexts = {} THEN 0 ELSE t

\* threading.Event: at most one thread waits for each.
next(t) == (t + 1) % NumUbatches

-----------------------------------------------------------------------------
(* The threads and the thread that starts them. *)

start_threads ==
  /\ main = "start"
  /\ main' = "barrier"
  /\ state' = [t \in Thread |-> "starting"]
  /\ UNCHANGED <<plan, event, results, at, contexts, forward_context, current_stream, recv_hook,
                 handles, handle, raised, asserted, launched, gpu>>

\* UBatchContext.__enter__, up to ready_barrier.wait().
enter(t) ==
  /\ state[t] = "starting"
  /\ state' = [state EXCEPT ![t] = "barrier"]
  /\ contexts' = contexts \cup {t}
  /\ UNCHANGED <<plan, main, event, results, at, forward_context, current_stream, recv_hook,
                 handles, handle, raised, asserted, launched, gpu>>

\* The barrier has a party for every thread and one for the main thread.
ready_barrier ==
  /\ main = "barrier"
  /\ \A t \in Thread : state[t] = "barrier"
  /\ main' = "wake"
  /\ state' = [t \in Thread |-> "waiting"]
  /\ UNCHANGED <<plan, event, results, at, contexts, forward_context, current_stream, recv_hook,
                 handles, handle, raised, asserted, launched, gpu>>

wake_first ==
  /\ main = "wake"
  /\ main' = "join"
  /\ event' = [event EXCEPT ![0] = TRUE]
  /\ UNCHANGED <<plan, results, threads, gpu>>

join ==
  /\ main = "join"
  /\ \A t \in Thread : state[t] = "done"
  /\ main' = "done"
  /\ UNCHANGED <<plan, event, results, threads, gpu>>

\* Fault: a thread starts as soon as all are ready.
enter_wait_skipped(t) ==
  /\ state[t] = "waiting"
  /\ event' = [event EXCEPT ![t] = FALSE]
  /\ state' = [state EXCEPT ![t] = "running"]
  /\ forward_context' = t
  /\ current_stream' = [current_stream EXCEPT ![t] = "compute"]
  /\ UNCHANGED <<plan, main, results, at, contexts, recv_hook, handles, handle, raised, asserted,
                 launched, gpu>>

\* The rest of __enter__.
enter_wait(t) ==
  /\ state[t] = "waiting"
  /\ event[t]
  /\ event' = [event EXCEPT ![t] = FALSE]
  /\ state' = [state EXCEPT ![t] = "running"]
  /\ forward_context' = t
  /\ current_stream' = [current_stream EXCEPT ![t] = "compute"]
  /\ UNCHANGED <<plan, main, results, at, contexts, recv_hook, handles, handle, raised, asserted,
                 launched, gpu>>

\* UBatchContext.maybe_run_recv_hook.
hook_kernels(t) == IF recv_hook[t] = None THEN <<>> ELSE <<Kernel(recv_hook[t])>>

\* Fault: __exit__ signals nobody.
exit_event_unsignalled(t) == event

exit_event(t) == [event EXCEPT ![next(t)] = TRUE]

\* UBatchContext.__exit__ until it signals, when the model has returned or raised.
exit(t) ==
  /\ state[t] = "running"
  /\ finished(t) \/ t \in raised
  /\ state' = [state EXCEPT ![t] = "exiting"]
  /\ contexts' = contexts \ {t}
  /\ queue' = Enqueue(current_stream[t], hook_kernels(t))
  /\ recv_hook' = [recv_hook EXCEPT ![t] = None]
  /\ event' = exit_event(t)
  /\ UNCHANGED <<plan, main, results, at, forward_context, current_stream, handles, handle, raised,
                 asserted, launched, recorded, completed, done>>

\* Its last statement, and the result that the thread appends unless it raised.
exit_clear(t) ==
  /\ state[t] = "exiting"
  /\ state' = [state EXCEPT ![t] = "done"]
  /\ event' = [event EXCEPT ![t] = FALSE]
  /\ results' = IF t \in raised THEN results ELSE results \cup {t}
  /\ UNCHANGED <<plan, main, at, contexts, forward_context, current_stream, recv_hook, handles,
                 handle, raised, asserted, launched, gpu>>

-----------------------------------------------------------------------------
(* The operations of a thread that runs. *)

\* What a launch adds to the history.
collective(t) ==
  CASE op(t) = "dispatch" -> <<<<"dispatch", t, layer(t), <<t, layer(t)>>>>>>
    [] op(t) = "combine" -> <<<<"combine", t, layer(t), handle[t]>>>>
    [] OTHER -> <<>>

\* A kernel goes on the thread's stream.  A dispatch leaves its handle for the
\* micro-batch, a combine uses the one that was read.
launch(t) ==
  /\ Runs(t, Kernels)
  /\ Advance(t)
  /\ queue' = Enqueue(current_stream[t], <<Kernel(<<op(t), t, layer(t)>>)>>)
  /\ handles' = IF op(t) = "dispatch"
                THEN [handles EXCEPT ![dbo_current_ubatch_id(t)] = <<t, layer(t)>>]
                ELSE handles
  /\ launched' = launched \o collective(t)
  /\ UNCHANGED <<plan, main, event, results, state, contexts, forward_context, current_stream,
                 recv_hook, handle, raised, asserted, recorded, completed, done>>

\* The launch raises instead: __exit__ follows.
launch_raises(t) ==
  /\ Runs(t, Kernels)
  /\ t \in plan.raises
  /\ raised' = raised \cup {t}
  /\ UNCHANGED <<plan, main, event, results, state, at, contexts, forward_context, current_stream,
                 recv_hook, handles, handle, asserted, launched, gpu>>

\* _finalize starts by reading the handle of its micro-batch.
finalize(t) ==
  /\ Runs(t, {"finalize"})
  /\ Advance(t)
  /\ handle' = [handle EXCEPT ![t] = handles[dbo_current_ubatch_id(t)]]
  /\ asserted' = (asserted \/ handles[dbo_current_ubatch_id(t)] = None)
  /\ UNCHANGED <<plan, main, event, results, state, contexts, forward_context, current_stream,
                 recv_hook, handles, raised, launched, gpu>>

\* switch_to_compute and switch_to_comm.
switch(t) ==
  /\ Runs(t, {"to_compute", "to_comm"})
  /\ Advance(t)
  /\ current_stream' = [current_stream EXCEPT ![t] = IF op(t) = "to_comm" THEN "comm" ELSE "compute"]
  /\ UNCHANGED <<plan, main, event, results, state, contexts, forward_context, recv_hook, handles,
                 handle, raised, asserted, launched, gpu>>

switch_to_compute_sync(t) ==
  /\ Runs(t, {"sync_to_compute"})
  /\ Advance(t)
  /\ current_stream' = [current_stream EXCEPT ![t] = "compute"]
  /\ queue' = [queue EXCEPT !["comm"] = Append(@, Record("comm", t)),
                            !["compute"] = Append(@, WaitFor("comm", t, recorded["comm"][t] + 1))]
  /\ recorded' = [recorded EXCEPT !["comm"][t] = @ + 1]
  /\ UNCHANGED <<plan, main, event, results, state, contexts, forward_context, recv_hook, handles,
                 handle, raised, asserted, launched, completed, done>>

maybe_run_recv_hook(t) ==
  /\ Runs(t, {"run_hook"})
  /\ Advance(t)
  /\ queue' = Enqueue(current_stream[t], hook_kernels(t))
  /\ recv_hook' = [recv_hook EXCEPT ![t] = None]
  /\ UNCHANGED <<plan, main, event, results, state, contexts, forward_context, current_stream,
                 handles, handle, raised, asserted, launched, recorded, completed, done>>

\* dbo_register_recv_hook: the next context is None when its thread has left.
dbo_register_recv_hook(t) ==
  /\ Runs(t, {"register_dispatch", "register_combine"})
  /\ \/ /\ next(t) \in contexts
        /\ recv_hook' = [recv_hook EXCEPT ![next(t)] =
                           <<IF op(t) = "register_dispatch" THEN "recv_dispatch" ELSE "recv_combine",
                             t, layer(t)>>]
        /\ Advance(t)
        /\ UNCHANGED raised
     \/ /\ next(t) \notin contexts
        /\ raised' = raised \cup {t}
        /\ UNCHANGED <<recv_hook, at>>
  /\ UNCHANGED <<plan, main, event, results, state, contexts, forward_context, current_stream,
                 handles, handle, asserted, launched, gpu>>

Yields == {"yield", "yield_to_comm", "yield_to_compute"}

\* The stream a yield leaves, and the one the thread goes on with.
from_stream(t) == CASE op(t) = "yield" -> current_stream[t]
                    [] op(t) = "yield_to_comm" -> "compute"
                    [] op(t) = "yield_to_compute" -> "comm"

to_stream(t) == CASE op(t) = "yield" -> current_stream[t]
                  [] op(t) = "yield_to_comm" -> "comm"
                  [] op(t) = "yield_to_compute" -> "compute"

\* yield_, yield_and_switch_from_compute_to_comm and
\* yield_and_switch_from_comm_to_compute until the thread sleeps; the
\* assertions are the ones before that in them and in _cpu_yield.
yield_signal(t) ==
  /\ Runs(t, Yields)
  /\ IF /\ current_stream[t] = from_stream(t)
        /\ forward_context = t
        /\ ~event[t]
     THEN /\ state' = [state EXCEPT ![t] = "yielded"]
          /\ event' = [event EXCEPT ![next(t)] = TRUE]
          /\ IF op(t) = "yield"
             THEN UNCHANGED <<queue, recorded>>
             ELSE /\ queue' = Enqueue(from_stream(t), <<Record(from_stream(t), t)>>)
                  /\ recorded' = [recorded EXCEPT ![from_stream(t)][t] = @ + 1]
          /\ UNCHANGED <<raised, asserted>>
     ELSE /\ asserted' = TRUE
          /\ raised' = raised \cup {t}
          /\ UNCHANGED <<state, event, queue, recorded>>
  /\ UNCHANGED <<plan, main, results, at, contexts, forward_context, current_stream, recv_hook,
                 handles, handle, launched, completed, done>>

woken_event(t) == [event EXCEPT ![t] = FALSE]

\* Fault: the stream a thread goes on with is not ordered after the one it left.
yield_wait_unordered(t) == <<>>

yield_wait(t) ==
  IF op(t) = "yield" THEN <<>>
  ELSE <<WaitFor(from_stream(t), t, recorded[from_stream(t)][t])>>

\* The rest of a yield, when the thread has been woken.
yield_resume(t) ==
  /\ state[t] = "yielded"
  /\ event[t]
  /\ event' = woken_event(t)
  /\ state' = [state EXCEPT ![t] = "running"]
  /\ forward_context' = t
  /\ current_stream' = [current_stream EXCEPT ![t] = to_stream(t)]
  /\ queue' = Enqueue(to_stream(t), yield_wait(t))
  /\ Advance(t)
  /\ UNCHANGED <<plan, main, results, contexts, recv_hook, handles, handle, raised, asserted,
                 launched, recorded, completed, done>>

thread(t) ==
  \/ enter(t) \/ enter_wait(t) \/ exit(t) \/ exit_clear(t)
  \/ launch(t) \/ finalize(t)
  \/ switch(t) \/ switch_to_compute_sync(t)
  \/ maybe_run_recv_hook(t) \/ dbo_register_recv_hook(t)
  \/ yield_signal(t) \/ yield_resume(t)

-----------------------------------------------------------------------------
(* The GPU takes each stream's work in order. *)

gpu_step(s) ==
  /\ queue[s] # <<>>
  /\ queue' = [queue EXCEPT ![s] = Tail(@)]
  /\ LET head == Head(queue[s]) IN
       \/ /\ head.op = "kernel"
          /\ done' = done \cup {head.kernel}
          /\ UNCHANGED completed
       \/ /\ head.op = "record"
          /\ completed' = [completed EXCEPT ![head.stream][head.thread] = head.n]
          /\ UNCHANGED done
       \/ /\ head.op = "wait"
          /\ completed[head.stream][head.thread] >= head.n
          /\ UNCHANGED <<completed, done>>
  /\ UNCHANGED <<plan, main, event, results, threads, recorded>>

Step ==
  \/ start_threads \/ ready_barrier \/ wake_first \/ join
  \/ \E t \in Thread : thread(t)
  \/ \E s \in Stream : gpu_step(s)

Next == Step \/ \E t \in Thread : launch_raises(t)

\* A thread or a stream that can go on does; a launch need not raise.
Fairness == WF_vars(Step)

Spec == Init /\ [][Next]_vars
FairSpec == Spec /\ Fairness

-----------------------------------------------------------------------------
(* Properties. *)

Transfers == IF plan.mode = "ht" THEN {"copy"} ELSE {"recv_dispatch", "recv_combine"}

AllKernels ==
  ((Kernels \ {"norm", "copy"}) \cup Transfers) \X Thread \X (1 .. plan.layers)
    \cup {"norm"} \X Thread \X {plan.layers + 1}

\* Type invariant: what the streams and the hooks hold are kernels of this pass.
TypeOK ==
  /\ main \in {"start", "barrier", "wake", "join", "done"}
  /\ state \in [Thread -> {"new", "starting", "barrier", "waiting", "running", "yielded",
                           "exiting", "done"}]
  /\ at \in [Thread -> 1 .. plan.layers * Len(layer_program) + 2]
  /\ event \in [Thread -> BOOLEAN]
  /\ contexts \subseteq Thread
  /\ forward_context \in Thread \cup {NoThread}
  /\ current_stream \in [Thread -> Stream]
  /\ \A t \in Thread :
       /\ recv_hook[t] \in AllKernels \cup {None}
       /\ handles[t] \in (Thread \X (1 .. plan.layers)) \cup {None}
       /\ handle[t] \in (Thread \X (1 .. plan.layers)) \cup {None}
  /\ results \subseteq Thread /\ raised \subseteq Thread
  /\ \A s \in Stream : \A i \in 1 .. Len(queue[s]) :
       queue[s][i].op = "kernel" => queue[s][i].kernel \in AllKernels
  /\ done \subseteq AllKernels

\* Only one thread runs at a time, from its first wake-up to its exit, whatever
\* raises: the rule that the comment in _cpu_yield calls critical.
OneThreadRuns ==
  \A t, u \in Thread : state[t] = "running" /\ state[u] = "running" => t = u

\* The kernels whose outputs a kernel reads.
Inputs(k) ==
  LET of(names, l) == {<<n, k[2], l>> : n \in names}
      received == IF plan.mode = "ht" THEN "dispatch" ELSE "recv_dispatch"
      combined == IF plan.mode = "ht" THEN "copy" ELSE "recv_combine"
  IN CASE k[1] \in {"attention", "norm"} -> IF k[3] = 1 THEN {} ELSE of({combined, "shared"}, k[3] - 1)
       [] k[1] \in {"dispatch", "shared"} -> of({"attention"}, k[3])
       [] k[1] = "recv_dispatch" -> of({"dispatch"}, k[3])
       [] k[1] = "experts" -> of({received}, k[3])
       [] k[1] = "combine" -> of({"experts"}, k[3])
       [] k[1] \in {"copy", "recv_combine"} -> of({"combine"}, k[3])

\* A kernel runs on the GPU only after the kernels whose outputs it reads, on
\* whichever stream and by whichever thread's hook those were launched: the
\* events recorded and waited for around each yield, and the hooks, order all.
\* And no assertion of a yield fails: a thread that goes to sleep still has its
\* own forward context and the stream it should, its event is not set, and a
\* finalize finds the handle of a dispatch.
KernelsHaveInputs == TypeOK /\ ~asserted /\ \A k \in done : Inputs(k) \subseteq done

\* The dispatches and combines are launched in one order that depends on nothing
\* but the number of layers, which the other ranks' must match, and each combine
\* has the handle of its own micro-batch's dispatch in its own layer.
CollectivesInOrder ==
  raised = {} =>
    \A i \in 1 .. Len(launched) :
      LET l == (i - 1) \div (2 * NumUbatches) + 1
          j == (i - 1) % (2 * NumUbatches)
          t == j % NumUbatches
      IN launched[i] = <<IF j < NumUbatches THEN "dispatch" ELSE "combine", t, l, <<t, l>>>>

\* Unless a launch raises, every thread comes to its end, _run_ubatches joins
\* them with an output of each, and the GPU runs out of work.
PassEnds ==
  <>(\/ raised # {}
     \/ /\ main = "done"
        /\ results = Thread
        /\ done = AllKernels)

=============================================================================
