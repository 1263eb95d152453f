-------------------------- MODULE UbatchingProofs --------------------------
(***************************************************************************)
(* Only one micro-batch thread runs at a time, for any number of micro-    *)
(* batches and any passes, whatever raises.  The argument is that of a     *)
(* token: a thread has it while it runs, and so does the thread whose      *)
(* event is set; there is at most one, the main thread makes it, a yield   *)
(* or an exit hands it on, and a wake-up takes it.                         *)
(*                                                                         *)
(* Then the invariant behind the order of the GPU's work, OrderInv: every  *)
(* kernel on a stream comes after its inputs, by its place on the stream   *)
(* or by a wait for an event that is recorded after them, and a thread at  *)
(* each place of its program can count on what its next kernel needs.      *)
(* Here are what is put on the streams and what a thread at an operation   *)
(* has; UbatchingOrderProofs shows that every step keeps the invariant.    *)
(***************************************************************************)
EXTENDS Ubatching, TLAPS

HasToken(t) == event[t] \/ state[t] = "running"

\* At most one thread has the token, none before wake_first; a thread that runs
\* has it once (its own event is not set) and its forward context is the global one.
OneToken ==
  /\ \A t, u \in Thread : HasToken(t) /\ HasToken(u) => t = u
  /\ main \in {"start", "barrier", "wake"} => \A t \in Thread : ~HasToken(t)
  /\ \A t \in Thread : state[t] = "running" => ~event[t] /\ forward_context = t

States == {"new", "starting", "barrier", "waiting", "running", "yielded", "exiting", "done"}

TypeInv ==
  /\ state \in [Thread -> States]
  /\ event \in [Thread -> BOOLEAN]

Inv == TypeInv /\ OneToken

\* The initial state has no token.
LEMMA InitInv == Init => Inv
  BY SMT DEF Init, Inv, TypeInv, OneToken, HasToken, States

\* A step hands the token on, takes it or leaves it: one action at a time.
LEMMA NextInv == Inv /\ [Next]_vars => Inv'
  <1> SUFFICES ASSUME Inv, [Next]_vars PROVE Inv'
    OBVIOUS
  <1> USE DEF Inv, TypeInv, OneToken, HasToken, States
  <1>1. CASE start_threads
    BY <1>1 DEF start_threads
  <1>2. CASE ready_barrier
    BY <1>2 DEF ready_barrier
  <1>3. CASE wake_first
    BY <1>3, Zenon DEF wake_first, threads
  <1>4. CASE join
    BY <1>4 DEF join, threads
  <1>5. ASSUME NEW t \in Thread, enter(t) PROVE Inv'
    BY <1>5 DEF enter
  <1>6. ASSUME NEW t \in Thread, enter_wait(t) PROVE Inv'
    BY <1>6 DEF enter_wait
  <1>7. ASSUME NEW t \in Thread, exit(t) PROVE Inv'
    BY <1>7, Zenon DEF exit, exit_event
  <1>8. ASSUME NEW t \in Thread, exit_clear(t) PROVE Inv'
    BY <1>8 DEF exit_clear
  <1>9. ASSUME NEW t \in Thread, yield_signal(t) PROVE Inv'
    <2>1. state[t] = "running" /\ UNCHANGED <<main, forward_context>>
      BY <1>9 DEF yield_signal, Runs
    <2>2. \/ /\ state' = [state EXCEPT ![t] = "yielded"]
             /\ event' = [event EXCEPT ![next(t)] = TRUE]
          \/ UNCHANGED <<state, event>>
      BY <1>9 DEF yield_signal
    <2>3. ASSUME state' = [state EXCEPT ![t] = "yielded"],
                 event' = [event EXCEPT ![next(t)] = TRUE]
          PROVE Inv'
      <3>1. \A u \in Thread : HasToken(u)' => u = next(t)
        BY <2>1, <2>3
      <3>2. TypeInv'
        BY <2>3, Zenon
      <3>3. main \notin {"start", "barrier", "wake"}
        BY <2>1
      <3>4. \A u \in Thread : state'[u] # "running"
        BY <2>1, <2>3
      <3> QED
        BY <2>1, <3>1, <3>2, <3>3, <3>4
    <2>4. ASSUME UNCHANGED <<state, event>> PROVE Inv'
      BY <2>1, <2>4
    <2> QED
      BY <2>2, <2>3, <2>4
  <1>10. ASSUME NEW t \in Thread, yield_resume(t) PROVE Inv'
    BY <1>10 DEF yield_resume, woken_event
  <1>11. ASSUME UNCHANGED <<main, event, state, forward_context>> PROVE Inv'
    BY <1>11
  <1>12. ASSUME NEW t \in Thread,
                \/ launch(t) \/ launch_raises(t) \/ finalize(t) \/ switch(t)
                \/ switch_to_compute_sync(t) \/ maybe_run_recv_hook(t) \/ dbo_register_recv_hook(t)
         PROVE UNCHANGED <<main, event, state, forward_context>>
    BY <1>12 DEF launch, launch_raises, finalize, switch, switch_to_compute_sync,
                 maybe_run_recv_hook, dbo_register_recv_hook
  <1>13. ASSUME NEW s \in Stream, gpu_step(s) PROVE UNCHANGED <<main, event, state, forward_context>>
    BY <1>13 DEF gpu_step, threads
  <1>14. CASE UNCHANGED vars
    BY <1>11, <1>14 DEF vars, threads
  <1> QED
    BY <1>1, <1>2, <1>3, <1>4, <1>5, <1>6, <1>7, <1>8, <1>9, <1>10, <1>11, <1>12, <1>13, <1>14
    DEF Next, Step, thread

\* In every reachable state of every pass only one thread runs: the rule that
\* the comment in _cpu_yield calls critical for correctness.
THEOREM OnlyOneThreadRuns == Spec => []OneThreadRuns
  <1>1. Inv => OneThreadRuns
    BY DEF Inv, OneToken, HasToken, OneThreadRuns
  <1> QED
    BY <1>1, InitInv, NextInv, PTL DEF Spec

\* A thread that runs has the global forward context and its event is clear, so
\* the first and the third assertion of _cpu_yield never fail.
SleepsWithItsOwnContext ==
  \A t \in Thread : state[t] = "running" => forward_context = t /\ ~event[t]

\* In every reachable state of every pass, whatever raises, _cpu_yield finds the
\* context and the event it asserts.
THEOREM YieldAssertionsHold == Spec => []SleepsWithItsOwnContext
  <1>1. Inv => SleepsWithItsOwnContext
    BY DEF Inv, OneToken, SleepsWithItsOwnContext
  <1> QED
    BY <1>1, InitInv, NextInv, PTL DEF Spec

-----------------------------------------------------------------------------
(* The order of the GPU's work.  What is on a stream, and what a thread     *)
(* may count on at each place of its program.                              *)

\* What a stream may hold.
Item ==
  [op : {"kernel"}, kernel : AllKernels]
    \cup [op : {"record", "wait"}, stream : Stream, thread : Thread, n : Nat]

\* The n-th record of a thread's event on a stream.
Mark(s, u, n) == [op |-> "record", stream |-> s, thread |-> u, n |-> n]

\* Kernel k has run, or is on stream s.
On(k, s) == k \in done \/ \E i \in 1 .. Len(queue[s]) : queue[s][i] = Kernel(k)

\* Kernel k is on stream s ahead of the n-th record of thread u's event there.
Ahead(k, s, u, n) ==
  \E i, j \in 1 .. Len(queue[s]) : i < j /\ queue[s][i] = Kernel(k) /\ queue[s][j] = Mark(s, u, n)

\* Kernel k has run when that record is reached.
Reached(k, s, u, n) == k \in done \/ Ahead(k, s, u, n)

\* Kernel k runs before what is at position i of stream s: it has run, or is
\* further ahead on this stream, or there is a wait further ahead for an event
\* that is recorded after k on the stream that k is on.
BeforeAt(k, s, i) ==
  \/ k \in done
  \/ \E j \in 1 .. Len(queue[s]) : j < i /\ queue[s][j] = Kernel(k)
  \/ \E z \in Stream, u \in Thread, n \in Nat :
       /\ \E j \in 1 .. Len(queue[s]) : j < i /\ queue[s][j] = WaitFor(z, u, n)
       /\ Ahead(k, z, u, n)

\* Kernel k runs before whatever is put on stream s from now on.
Before(k, s) == BeforeAt(k, s, Len(queue[s]) + 1)

\* An item is where it can be: a kernel after its inputs, a record above those
\* that have been reached and those further ahead.
InPlace(s, i) ==
  /\ queue[s][i].op = "kernel" =>
       \A k \in Inputs(queue[s][i].kernel) : BeforeAt(k, s, i)
  /\ queue[s][i].op = "record" =>
       /\ queue[s][i].stream = s
       /\ completed[s][queue[s][i].thread] < queue[s][i].n
       /\ queue[s][i].n <= recorded[s][queue[s][i].thread]
       /\ \A j \in 1 .. Len(queue[s]) :
            j < i /\ queue[s][j].op = "record" /\ queue[s][j].thread = queue[s][i].thread
              => queue[s][j].n < queue[s][i].n

QueueType ==
  /\ queue \in [Stream -> Seq(Item)]
  /\ recorded \in [Stream -> [Thread -> Nat]]
  /\ completed \in [Stream -> [Thread -> Nat]]

QueueInv ==
  /\ \A s \in Stream : \A i \in 1 .. Len(queue[s]) : InPlace(s, i)
  /\ \A s \in Stream, u \in Thread : completed[s][u] <= recorded[s][u]
  /\ \A k \in done : Inputs(k) \subseteq done

\* The place of a thread in the program of its layer.
offset(t) == ((at[t] - 1) % Len(layer_program)) + 1

\* A thread has not come to its __exit__.
Present(t) == state[t] \in {"new", "starting", "barrier", "waiting", "running", "yielded"}

\* What is launched when thread t is at operation o of layer l, where its next
\* kernel may need it.  A yield marks what it has launched on the stream it leaves.
HtReady(t, l, o) ==
  LET k(name) == <<name, t, l>>
      previous(name) == <<name, t, l - 1>>
      marked(name, s) == state[t] = "yielded" => Reached(k(name), s, t, recorded[s][t])
  IN /\ o = 1 /\ l > 1 => Before(previous("copy"), "compute") /\ On(previous("shared"), "compute")
     /\ o \in 2 .. 10 => On(k("attention"), "compute")
     /\ o = 2 => marked("attention", "compute")
     /\ o = 3 => Before(k("attention"), "comm")
     /\ o = 4 => On(k("dispatch"), "comm")
     /\ o = 5 => Before(k("dispatch"), "compute")
     /\ o \in 6 .. 7 => On(k("experts"), "compute")
     /\ o = 7 => marked("experts", "compute")
     /\ o = 8 => Before(k("experts"), "comm")
     /\ o \in 9 .. 12 => On(k("combine"), "comm")
     /\ o \in 11 .. 13 => On(k("shared"), "compute")
     /\ o = 13 => On(k("copy"), "comm") /\ marked("copy", "comm")

\* With the low-latency back end the receiving half of a transfer is with the
\* next thread until that has launched it.
LlReady(t, l, o) ==
  LET k(name) == <<name, t, l>>
      previous(name) == <<name, t, l - 1>>
      received(name) == recv_hook[next(t)] = k(name) \/ On(k(name), "compute")
  IN /\ o = 1 /\ l > 1 => /\ On(previous("recv_combine"), "compute")
                          /\ On(previous("shared"), "compute")
     /\ o \in 2 .. 10 => On(k("attention"), "compute")
     /\ o = 4 => On(k("dispatch"), "compute")
     /\ o = 5 => received("recv_dispatch")
     /\ o = 6 => On(k("recv_dispatch"), "compute")
     /\ o \in 7 .. 9 => On(k("experts"), "compute")
     /\ o \in 10 .. 11 => On(k("combine"), "compute")
     /\ o \in 11 .. 12 => On(k("shared"), "compute")
     /\ o = 12 => received("recv_combine")

Ready(t) ==
  Present(t) /\ ~finished(t) =>
    IF plan.mode = "ht" THEN HtReady(t, layer(t), offset(t)) ELSE LlReady(t, layer(t), offset(t))

\* The thread that registers a hook is about to yield to the one that will run it,
\* and that one runs it before it yields in its turn.
HookPhase(t) ==
  \/ state[t] = "running" /\ offset(t) \in {5, 12}
  \/ event[next(t)]
  \/ state[next(t)] = "running" /\ offset(next(t)) \in {1, 2, 6, 7, 8}

\* A hook is the receiving half of a transfer that has been launched.
HookInv(t) ==
  recv_hook[next(t)] # None =>
    /\ plan.mode = "ll"
    /\ next(t) \in contexts
    /\ HookPhase(t)
    /\ \E l \in 1 .. plan.layers :
         \/ recv_hook[next(t)] = <<"recv_dispatch", t, l>> /\ On(<<"dispatch", t, l>>, "compute")
         \/ recv_hook[next(t)] = <<"recv_combine", t, l>> /\ On(<<"combine", t, l>>, "compute")

\* A thread is among the contexts from its __enter__ to its __exit__, sleeps only
\* at a yield, is on the stream that its place in the program says, and has its
\* own handles.
ThreadInv(t) ==
  /\ t \in contexts <=> state[t] \in {"barrier", "waiting", "running", "yielded"}
  /\ main = "start" => state[t] = "new"
  /\ state[t] \in {"new", "starting", "barrier", "waiting"} => at[t] = 1
  /\ state[t] = "yielded" => ~finished(t) /\ op(t) \in Yields
  /\ plan.mode = "ll" => current_stream[t] = "compute"
  /\ Present(t) /\ ~finished(t) =>
       /\ plan.mode = "ht" =>
            current_stream[t] = IF offset(t) \in {3, 4, 8, 9, 12, 13} THEN "comm" ELSE "compute"
       /\ offset(t) >= 4 => handles[t] = <<t, layer(t)>>
       /\ offset(t) \in (IF plan.mode = "ht" THEN {7, 8} ELSE {8, 9}) => handle[t] = <<t, layer(t)>>

\* Types: of what concerns the threads' control, and of what they hold.
ControlType ==
  /\ main \in {"start", "barrier", "wake", "join", "done"}
  /\ state \in [Thread -> {"new", "starting", "barrier", "waiting", "running", "yielded",
                           "exiting", "done"}]
  /\ at \in [Thread -> 1 .. plan.layers * Len(layer_program) + 2]
  /\ event \in [Thread -> BOOLEAN]
  /\ contexts \subseteq Thread
  /\ forward_context \in Thread \cup {NoThread}
  /\ current_stream \in [Thread -> Stream]
  /\ results \subseteq Thread /\ raised \subseteq Thread

DataType ==
  /\ recv_hook \in [Thread -> AllKernels \cup {None}]
  /\ handles \in [Thread -> (Thread \X (1 .. plan.layers)) \cup {None}]
  /\ handle \in [Thread -> (Thread \X (1 .. plan.layers)) \cup {None}]
  /\ done \subseteq AllKernels

OrderInv ==
  /\ Inv /\ ControlType /\ DataType /\ plan \in Plans /\ ~asserted
  /\ QueueType /\ QueueInv
  /\ \A t \in Thread : ThreadInv(t) /\ Ready(t) /\ HookInv(t)

-----------------------------------------------------------------------------
(* The program of a thread. *)

\* The number of operations of a layer.
Size == Len(layer_program)

\* What the layers consist of.
LEMMA Program ==
  ASSUME plan \in Plans
  PROVE  /\ plan.layers \in Nat \ {0} /\ plan.mode \in {"ht", "ll"}
         /\ plan.mode = "ht" => layer_program = ht_layer /\ Size = 13
         /\ plan.mode = "ll" => layer_program = ll_layer /\ Size = 12
  <1>1. plan.layers \in Nat \ {0} /\ plan.mode \in {"ht", "ll"}
    BY SizesAssumption, Zenon
  <1>2. plan.mode = "ht" => layer_program = ht_layer
    BY Zenon DEF layer_program
  <1>3. plan.mode = "ll" => layer_program = ll_layer
    BY Zenon DEF layer_program
  <1>4. Len(ht_layer) = 13 /\ Len(ll_layer) = 12
    BY Zenon DEF ht_layer, ll_layer
  <1> QED
    BY <1>1, <1>2, <1>3, <1>4, Zenon DEF Size

\* Where a thread is: the layers come one after the other, the norm after the last.
Place(t) ==
  /\ layer(t) \in 1 .. plan.layers + 1 /\ offset(t) \in 1 .. Size
  /\ at[t] = (layer(t) - 1) * Size + offset(t)
  /\ finished(t) <=> layer(t) = plan.layers + 1 /\ offset(t) > 1
  /\ finished(t) => offset(t) = 2
  /\ layer(t) <= plan.layers => op(t) = layer_program[offset(t)]
  /\ layer(t) = plan.layers + 1 => op(t) = "norm"

PlaceFacts == plan \in Plans /\ ControlType => \A t \in Thread : Place(t)

\* That is so in every state,
LEMMA PlacesHold == PlaceFacts
  <1> SUFFICES ASSUME plan \in Plans, ControlType, NEW t \in Thread PROVE Place(t)
    BY Zenon DEF PlaceFacts
  <1>1. plan.layers \in Nat \ {0} /\ (Size = 13 \/ Size = 12)
    BY Program, Zenon
  <1>2. at[t] \in 1 .. plan.layers * Size + 2
    BY Zenon DEF ControlType, Size
  <1>3. PICK a \in Nat, n \in Nat, m \in Nat : a = at[t] - 1 /\ n = Size /\ m = plan.layers
    BY <1>1, <1>2, SMT
  <1>4. layer(t) = (a \div n) + 1 /\ offset(t) = (a % n) + 1
    BY <1>3, Zenon DEF layer, offset, Size
  <1>5. (n = 13 \/ n = 12) /\ a <= m * n + 1
    BY <1>1, <1>2, <1>3, SMT
  <1>6. /\ (a \div n) \in 0 .. m /\ (a % n) \in 0 .. n - 1 /\ a = (a \div n) * n + (a % n)
        /\ a > m * n <=> (a \div n) = m /\ (a % n) > 0
        /\ a > m * n => (a % n) = 1
    <2>1. CASE n = 13
      BY <1>5, <2>1, SMT
    <2>2. CASE n = 12
      BY <1>5, <2>2, SMT
    <2> QED
      BY <1>5, <2>1, <2>2
  <1>7. finished(t) <=> a > m * n
    <2>1. PICK b : b = at[t]
      BY Zenon
    <2>2. finished(t) <=> b > m * n + 1
      BY <1>3, <2>1, Zenon DEF finished, Size
    <2>3. b = a + 1
      BY <1>1, <1>2, <1>3, <2>1, SMT
    <2> QED
      BY ONLY <2>2, <2>3, a \in Nat, n \in Nat, m \in Nat, SMT
  <1>8. PICK l \in Nat, o \in Nat : l = (a \div n) + 1 /\ o = (a % n) + 1
    BY <1>5, <1>6, SMT
  <1>9. /\ l \in 1 .. m + 1 /\ o \in 1 .. n /\ at[t] = (l - 1) * n + o
        /\ a > m * n <=> l = m + 1 /\ o > 1
        /\ a > m * n => o = 2
        /\ l <= m => ~(l > m)
        /\ l = m + 1 => l > m
    <2>1. PICK q \in Nat, r \in Nat : q = (a \div n) /\ r = (a % n)
      BY <1>6, SMT
    <2>2. /\ q \in 0 .. m /\ r \in 0 .. n - 1 /\ a = q * n + r
          /\ a > m * n <=> q = m /\ r > 0
          /\ a > m * n => r = 1
      BY ONLY <1>6, <2>1, Zenon
    <2>3. l = q + 1 /\ o = r + 1 /\ at[t] = a + 1
      BY <1>2, <1>3, <1>8, <2>1, SMT
    <2>4. l - 1 = q
      BY ONLY <2>3, q \in Nat, SMT
    <2>5. at[t] = (l - 1) * n + o
      <3>1. at[t] = q * n + o
        BY ONLY <2>2, <2>3, q \in Nat, r \in Nat, n \in Nat, SMT
      <3> QED
        BY <2>4, <3>1, Zenon
    <2>6. /\ l \in 1 .. m + 1 /\ o \in 1 .. n
          /\ (q = m /\ r > 0 <=> l = m + 1 /\ o > 1) /\ (r = 1 => o = 2)
          /\ l <= m => ~(l > m)
          /\ l = m + 1 => l > m
      BY ONLY <2>2, <2>3, q \in Nat, r \in Nat, m \in Nat, n \in Nat, SMT
    <2> QED
      BY <2>2, <2>5, <2>6, Zenon
  <1>10. op(t) = IF layer(t) > plan.layers THEN "norm" ELSE layer_program[offset(t)]
    BY Zenon DEF op, offset
  <1> QED
    BY <1>3, <1>4, <1>7, <1>8, <1>9, <1>10, Zenon DEF Place

\* so before and after a step.
LEMMA Places == PlaceFacts /\ PlaceFacts'
  BY PlacesHold, PTL

\* A thread that does not go on is where it was.
LEMMA Stays ==
  ASSUME plan' = plan, NEW t \in Thread, at'[t] = at[t]
  PROVE  /\ layer(t)' = layer(t) /\ offset(t)' = offset(t) /\ op(t)' = op(t)
         /\ finished(t)' = finished(t) /\ Size' = Size /\ layer_program' = layer_program
  BY Zenon DEF layer, offset, op, finished, Size, layer_program

\* A thread that goes on comes to the next operation, or to the next layer.
LEMMA Advanced ==
  ASSUME plan \in Plans, plan' = plan, ControlType, ControlType', NEW t \in Thread, at'[t] = at[t] + 1
  PROVE  IF offset(t) < Size THEN layer(t)' = layer(t) /\ offset(t)' = offset(t) + 1
                             ELSE layer(t)' = layer(t) + 1 /\ offset(t)' = 1
  <1>1. Size' = Size /\ (Size = 13 \/ Size = 12)
    BY Program, Zenon DEF Size, layer_program
  <1>2. /\ layer(t) \in Nat /\ offset(t) \in 1 .. Size
        /\ at[t] = (layer(t) - 1) * Size + offset(t)
    <2>1. Place(t)
      BY Places, Zenon DEF PlaceFacts
    <2> QED
      BY <2>1, Program, SMT DEF Place
  <1>3. /\ layer(t)' \in Nat /\ offset(t)' \in 1 .. Size
        /\ at'[t] = (layer(t)' - 1) * Size + offset(t)'
    <2>1. (plan \in Plans)'
      BY Zenon
    <2>2. /\ layer(t)' \in 1 .. plan'.layers + 1 /\ offset(t)' \in 1 .. Size'
          /\ at'[t] = (layer(t)' - 1) * Size' + offset(t)'
      BY <2>1, Places, Zenon DEF PlaceFacts, Place
    <2> QED
      BY <1>1, <2>2, Program, SMT
  <1>4. PICK n, l, o, m, p : n = Size /\ l = layer(t) /\ o = offset(t) /\ m = layer(t)' /\ p = offset(t)'
    BY Zenon
  <1>5. /\ n = 13 \/ n = 12
        /\ l \in Nat /\ m \in Nat /\ o \in 1 .. n /\ p \in 1 .. n
        /\ (m - 1) * n + p = (l - 1) * n + o + 1
    BY <1>1, <1>2, <1>3, <1>4, Zenon
  <1>6. IF o < n THEN m = l /\ p = o + 1 ELSE m = l + 1 /\ p = 1
    BY ONLY <1>5, SMT
  <1> QED
    BY <1>4, <1>6, Zenon

\* The operation at each place of a layer.
HtOp(o, p) ==
  \/ (o = 1 /\ p = "attention") \/ (o = 2 /\ p = "yield_to_comm")
  \/ (o = 3 /\ p = "dispatch") \/ (o = 4 /\ p = "sync_to_compute")
  \/ (o = 5 /\ p = "experts") \/ (o = 6 /\ p = "finalize")
  \/ (o = 7 /\ p = "yield_to_comm") \/ (o = 8 /\ p = "combine")
  \/ (o = 9 /\ p = "to_compute") \/ (o = 10 /\ p = "shared") \/ (o = 11 /\ p = "to_comm")
  \/ (o = 12 /\ p = "copy") \/ (o = 13 /\ p = "yield_to_compute")

LlOp(o, p) ==
  \/ (o = 1 /\ p = "attention") \/ (o = 2 /\ p = "run_hook") \/ (o = 3 /\ p = "dispatch")
  \/ (o = 4 /\ p = "register_dispatch") \/ (o = 5 /\ p = "yield")
  \/ (o = 6 /\ p = "experts") \/ (o = 7 /\ p = "finalize") \/ (o = 8 /\ p = "run_hook")
  \/ (o = 9 /\ p = "combine") \/ (o = 10 /\ p = "shared")
  \/ (o = 11 /\ p = "register_combine") \/ (o = 12 /\ p = "yield")

\* A thread that has not finished is in a layer or at the norm.
LEMMA Operations ==
  ASSUME plan \in Plans, ControlType, NEW t \in Thread, ~finished(t)
  PROVE  \/ layer(t) = plan.layers + 1 /\ offset(t) = 1 /\ op(t) = "norm"
         \/ /\ layer(t) \in 1 .. plan.layers /\ offset(t) \in 1 .. Size
            /\ plan.mode = "ht" => HtOp(offset(t), op(t))
            /\ plan.mode = "ll" => LlOp(offset(t), op(t))
  <1>1. Place(t)
    BY Places, Zenon DEF PlaceFacts
  <1>2. plan.layers \in Nat \ {0} /\ layer(t) \in 1 .. plan.layers + 1 /\ offset(t) \in 1 .. Size /\ Size \in Nat
    BY <1>1, Program, SMT DEF Place
  <1>3. CASE layer(t) = plan.layers + 1
    <2>1. ~(offset(t) > 1) /\ op(t) = "norm"
      BY <1>1, <1>3, Zenon DEF Place
    <2>2. offset(t) = 1
      BY <1>2, <2>1, SMT
    <2> QED
      BY <1>3, <2>1, <2>2, Zenon
  <1>4. CASE layer(t) # plan.layers + 1
    <2>1. layer(t) \in 1 .. plan.layers /\ layer(t) <= plan.layers
      BY <1>2, <1>4, SMT
    <2>2. op(t) = layer_program[offset(t)]
      BY <1>1, <2>1, Zenon DEF Place
    <2>3. PICK o \in Nat : o = offset(t)
      BY <1>2, SMT
    <2>4. ASSUME plan.mode = "ht" PROVE HtOp(o, op(t))
      <3>1. op(t) = ht_layer[o] /\ o \in 1 .. 13
        BY <1>2, <2>2, <2>3, <2>4, Program, Zenon
      <3>2. /\ ht_layer[1] = "attention" /\ ht_layer[2] = "yield_to_comm" /\ ht_layer[3] = "dispatch"
            /\ ht_layer[4] = "sync_to_compute" /\ ht_layer[5] = "experts" /\ ht_layer[6] = "finalize"
            /\ ht_layer[7] = "yield_to_comm" /\ ht_layer[8] = "combine" /\ ht_layer[9] = "to_compute"
            /\ ht_layer[10] = "shared" /\ ht_layer[11] = "to_comm" /\ ht_layer[12] = "copy"
            /\ ht_layer[13] = "yield_to_compute"
        BY Zenon DEF ht_layer
      <3>3. o = 1 \/ o = 2 \/ o = 3 \/ o = 4 \/ o = 5 \/ o = 6 \/ o = 7 \/ o = 8 \/ o = 9 \/ o = 10 \/ o = 11 \/ o = 12 \/ o = 13
        BY <3>1, SMT
      <3> QED
        BY <3>1, <3>2, <3>3, SMT DEF HtOp
    <2>5. ASSUME plan.mode = "ll" PROVE LlOp(o, op(t))
      <3>1. op(t) = ll_layer[o] /\ o \in 1 .. 12
        BY <1>2, <2>2, <2>3, <2>5, Program, Zenon
      <3>2. /\ ll_layer[1] = "attention" /\ ll_layer[2] = "run_hook" /\ ll_layer[3] = "dispatch"
            /\ ll_layer[4] = "register_dispatch" /\ ll_layer[5] = "yield" /\ ll_layer[6] = "experts"
            /\ ll_layer[7] = "finalize" /\ ll_layer[8] = "run_hook" /\ ll_layer[9] = "combine"
            /\ ll_layer[10] = "shared" /\ ll_layer[11] = "register_combine" /\ ll_layer[12] = "yield"
        BY Zenon DEF ll_layer
      <3>3. o = 1 \/ o = 2 \/ o = 3 \/ o = 4 \/ o = 5 \/ o = 6 \/ o = 7 \/ o = 8 \/ o = 9 \/ o = 10 \/ o = 11 \/ o = 12
        BY <3>1, SMT
      <3> QED
        BY <3>1, <3>2, <3>3, SMT DEF LlOp
    <2> QED
      BY <1>2, <2>1, <2>3, <2>4, <2>5, Zenon
  <1> QED
    BY <1>3, <1>4, Zenon

\* The ring of threads.
LEMMA Ring ==
  ASSUME NEW t \in Thread
  PROVE  /\ next(t) \in Thread /\ next(t) # t
         /\ \A u \in Thread : next(u) = next(t) => u = t
         /\ \E u \in Thread : next(u) = t
         /\ next(t) = IF t = NumUbatches - 1 THEN 0 ELSE t + 1
  <1>1. NumUbatches \in Nat /\ NumUbatches > 1
    BY SizesAssumption, SMT
  <1>2. ASSUME NEW u \in Thread PROVE next(u) = IF u = NumUbatches - 1 THEN 0 ELSE u + 1
    <2>1. u + 1 \in Nat /\ u + 1 <= NumUbatches
      BY <1>1, SMT DEF Thread
    <2> QED
      BY <1>1, <2>1, SMT DEF next, Thread
  <1>3. PICK u \in Thread : u = IF t = 0 THEN NumUbatches - 1 ELSE t - 1
    BY <1>1, SMT DEF Thread
  <1>4. next(u) = t
    BY <1>1, <1>2, <1>3, SMT DEF Thread
  <1>5. next(t) \in Thread /\ next(t) # t /\ \A v \in Thread : next(v) = next(t) => v = t
    BY <1>1, <1>2, SMT DEF Thread
  <1> QED
    BY <1>2, <1>4, <1>5, Zenon

\* Everything that could be counted on still can be.
OrderKept ==
  \A k : \A s \in Stream :
    /\ On(k, s) => On(k, s)'
    /\ Before(k, s) => Before(k, s)'
    /\ \A u \in Thread, n \in Nat : Reached(k, s, u, n) => Reached(k, s, u, n)'

\* What an operation at place o adds to what thread t can count on.
HtGives(t, l, o) ==
  /\ o = 1 => On(<<"attention", t, l>>, "compute")'
  /\ o = 2 => Before(<<"attention", t, l>>, "comm")'
  /\ o = 3 => On(<<"dispatch", t, l>>, "comm")'
  /\ o = 4 => Before(<<"dispatch", t, l>>, "compute")'
  /\ o = 5 => On(<<"experts", t, l>>, "compute")'
  /\ o = 7 => Before(<<"experts", t, l>>, "comm")'
  /\ o = 8 => On(<<"combine", t, l>>, "comm")'
  /\ o = 10 => On(<<"shared", t, l>>, "compute")'
  /\ o = 12 => On(<<"copy", t, l>>, "comm")'
  /\ o = 13 => Before(<<"copy", t, l>>, "compute")'

LlGives(t, l, o) ==
  /\ o = 1 => On(<<"attention", t, l>>, "compute")'
  /\ o = 3 => On(<<"dispatch", t, l>>, "compute")'
  /\ o = 4 => recv_hook'[next(t)] = <<"recv_dispatch", t, l>>
  /\ o = 5 => On(<<"recv_dispatch", t, l>>, "compute")'
  /\ o = 6 => On(<<"experts", t, l>>, "compute")'
  /\ o = 9 => On(<<"combine", t, l>>, "compute")'
  /\ o = 10 => On(<<"shared", t, l>>, "compute")'
  /\ o = 11 => recv_hook'[next(t)] = <<"recv_combine", t, l>>
  /\ o = 12 => On(<<"recv_combine", t, l>>, "compute")'

\* That is what the thread needs at the next place.
LEMMA HtNext ==
  ASSUME OrderKept, NEW t \in Thread, NEW l \in Nat, NEW o \in 1 .. 13, HtReady(t, l, o),
         HtGives(t, l, o), state'[t] # "yielded"
  PROVE  IF o < 13 THEN HtReady(t, l, o + 1)' ELSE HtReady(t, l + 1, 1)'
  <1>1. /\ \A k : On(k, "compute") => On(k, "compute")'
        /\ \A k : On(k, "comm") => On(k, "comm")'
        /\ \A k : Before(k, "compute") => Before(k, "compute")'
        /\ \A k : Before(k, "comm") => Before(k, "comm")'
    BY Zenon DEF OrderKept, Stream
  <1>2. CASE o < 13
    <2>1. PICK p : p = o + 1
      BY Zenon
    <2>2. /\ p # 1
          /\ p \in 2 .. 10 => o = 1 \/ o \in 2 .. 10
          /\ (p = 3 => o = 2) /\ (p = 4 => o = 3) /\ (p = 5 => o = 4) /\ (p = 8 => o = 7)
          /\ p \in 6 .. 7 => o = 5 \/ o \in 6 .. 7
          /\ p \in 9 .. 12 => o = 8 \/ o \in 9 .. 12
          /\ p \in 11 .. 13 => o = 10 \/ o \in 11 .. 13
          /\ p = 13 => o = 12
      BY ONLY o \in 1 .. 13, <1>2, <2>1, SMT
    <2>3. HtReady(t, l, p)'
      BY ONLY <1>1, <2>2, HtReady(t, l, o), HtGives(t, l, o), state'[t] # "yielded", SMT DEF HtReady, HtGives
    <2> QED
      BY <1>2, <2>1, <2>3, Zenon
  <1>3. CASE ~(o < 13)
    <2>1. o = 13 /\ 13 \in 11 .. 13 /\ 1 \notin 2 .. 10 /\ 1 \notin 6 .. 7 /\ 1 \notin 9 .. 12 /\ 1 \notin 11 .. 13
      BY ONLY o \in 1 .. 13, <1>3, SMT
    <2>2. PICK m : m = l + 1
      BY Zenon
    <2>3. m - 1 = l
      BY ONLY l \in Nat, <2>2, SMT
    <2>4. HtReady(t, m, 1)'
      BY ONLY <1>1, <2>1, <2>3, HtReady(t, l, o), HtGives(t, l, o), SMT DEF HtReady, HtGives
    <2> QED
      BY <1>3, <2>2, <2>4, Zenon
  <1> QED
    BY <1>2, <1>3, Zenon

\* So with the low-latency back end.
LEMMA LlNext ==
  ASSUME OrderKept, NEW t \in Thread, NEW l \in Nat, NEW o \in 1 .. 12, LlReady(t, l, o),
         LlGives(t, l, o)
  PROVE  IF o < 12 THEN LlReady(t, l, o + 1)' ELSE LlReady(t, l + 1, 1)'
  <1>1. \A k : On(k, "compute") => On(k, "compute")'
    BY Zenon DEF OrderKept, Stream
  <1>2. CASE o < 12
    <2>1. PICK p : p = o + 1
      BY Zenon
    <2>2. /\ p # 1
          /\ p \in 2 .. 10 => o = 1 \/ o \in 2 .. 10
          /\ (p = 4 => o = 3) /\ (p = 5 => o = 4) /\ (p = 6 => o = 5)
          /\ p \in 7 .. 9 => o = 6 \/ o \in 7 .. 9
          /\ p \in 10 .. 11 => o = 9 \/ o \in 10 .. 11
          /\ p \in 11 .. 12 => o = 10 \/ o \in 11 .. 12
          /\ p = 12 => o = 11
      BY ONLY o \in 1 .. 12, <1>2, <2>1, SMT
    <2>3. LlReady(t, l, p)'
      BY ONLY <1>1, <2>2, LlReady(t, l, o), LlGives(t, l, o), SMT DEF LlReady, LlGives, next
    <2> QED
      BY <1>2, <2>1, <2>3, Zenon
  <1>3. CASE ~(o < 12)
    <2>1. o = 12 /\ 12 \in 11 .. 12 /\ 1 \notin 2 .. 10 /\ 1 \notin 7 .. 9 /\ 1 \notin 10 .. 11 /\ 1 \notin 11 .. 12
      BY ONLY o \in 1 .. 12, <1>3, SMT
    <2>2. PICK m : m = l + 1
      BY Zenon
    <2>3. m - 1 = l
      BY ONLY l \in Nat, <2>2, SMT
    <2>4. LlReady(t, m, 1)'
      BY ONLY <1>1, <2>1, <2>3, LlReady(t, l, o), LlGives(t, l, o), SMT DEF LlReady, LlGives
    <2> QED
      BY <1>3, <2>2, <2>4, Zenon
  <1> QED
    BY <1>2, <1>3, Zenon

\* The hook that holds the receiving half of u's transfer is kept or launched.
HookSafe(u) ==
  \A k : recv_hook[next(u)] = k => k = None \/ recv_hook'[next(u)] = k \/ On(k, "compute")'

\* A thread that stays where it is can still count on what it could.
LEMMA ReadyKept ==
  ASSUME plan' = plan, plan \in Plans, QueueType, OrderKept, NEW u \in Thread, Ready(u),
         at'[u] = at[u], Present(u)' => Present(u), state'[u] = "yielded" => state[u] = "yielded",
         \A s \in Stream : recorded'[s][u] = recorded[s][u],
         plan.mode = "ll" => HookSafe(u)
  PROVE  Ready(u)'
  <1> SUFFICES ASSUME Present(u)', ~finished(u)'
               PROVE  IF plan.mode = "ht" THEN HtReady(u, layer(u), offset(u))'
                                          ELSE LlReady(u, layer(u), offset(u))'
    BY Zenon DEF Ready
  <1>1. PICK l, o : l = layer(u) /\ o = offset(u)
    BY Zenon
  <1>2. layer(u)' = l /\ offset(u)' = o /\ finished(u)' = finished(u)
    BY <1>1, Stays, Zenon
  <1>3. Present(u) /\ ~finished(u)
    BY <1>2, Zenon
  <1>4. /\ \A k : On(k, "compute") => On(k, "compute")'
        /\ \A k : On(k, "comm") => On(k, "comm")'
        /\ \A k : Before(k, "compute") => Before(k, "compute")'
        /\ \A k : Before(k, "comm") => Before(k, "comm")'
    BY Zenon DEF OrderKept, Stream
  <1>5. ASSUME NEW k, NEW s \in Stream, Reached(k, s, u, recorded[s][u])
        PROVE  Reached(k, s, u, recorded[s][u])'
    <2>1. PICK n \in Nat : n = recorded[s][u]
      BY Zenon DEF QueueType
    <2>2. Reached(k, s, u, n)'
      BY <1>5, <2>1, Zenon DEF OrderKept
    <2>3. recorded'[s][u] = n
      BY <2>1, Zenon
    <2> QED
      BY <2>2, <2>3, Zenon DEF Reached, Ahead
  <1>6. CASE plan.mode = "ht"
    <2>1. HtReady(u, l, o)
      BY <1>1, <1>3, <1>6, Zenon DEF Ready
    <2>2. \A k : Reached(k, "compute", u, recorded["compute"][u]) => Reached(k, "compute", u, recorded["compute"][u])'
      BY <1>5, Zenon DEF Stream
    <2>3. \A k : Reached(k, "comm", u, recorded["comm"][u]) => Reached(k, "comm", u, recorded["comm"][u])'
      BY <1>5, Zenon DEF Stream
    <2>4. HtReady(u, l, o)'
      BY <1>4, <2>1, <2>2, <2>3, SMTT(30) DEF HtReady
    <2> QED
      BY <1>2, <1>6, <2>4, Zenon
  <1>7. CASE plan.mode # "ht"
    <2>1. LlReady(u, l, o)
      BY <1>1, <1>3, <1>7, Zenon DEF Ready
    <2>2. plan.mode = "ll"
      BY <1>7, Program, Zenon
    <2>3. \A name : <<name, u, l>> # None
      BY Zenon DEF None
    <2>4. \A name : recv_hook[next(u)] = <<name, u, l>> \/ On(<<name, u, l>>, "compute")
                      => recv_hook'[next(u)] = <<name, u, l>> \/ On(<<name, u, l>>, "compute")'
      BY <1>4, <2>2, <2>3, Zenon DEF HookSafe
    <2>5. LlReady(u, l, o)'
      BY <1>4, <2>1, <2>4, ZenonT(30) DEF LlReady, next
    <2> QED
      BY <1>2, <1>7, <2>5, Zenon
  <1> QED
    BY <1>6, <1>7, Zenon

\* The inputs of each kernel of thread t in layer l.
InputFacts(t, l) ==
  /\ \A n \in {"attention", "norm"} : \A i \in Inputs(<<n, t, l>>) :
       /\ l # 1
       /\ \/ i = <<"shared", t, l - 1>>
          \/ plan.mode = "ht" /\ i = <<"copy", t, l - 1>>
          \/ plan.mode # "ht" /\ i = <<"recv_combine", t, l - 1>>
  /\ \A n \in {"dispatch", "shared"} : \A i \in Inputs(<<n, t, l>>) : i = <<"attention", t, l>>
  /\ \A i \in Inputs(<<"experts", t, l>>) :
       i = <<IF plan.mode = "ht" THEN "dispatch" ELSE "recv_dispatch", t, l>>
  /\ \A i \in Inputs(<<"combine", t, l>>) : i = <<"experts", t, l>>
  /\ \A i \in Inputs(<<"copy", t, l>>) : i = <<"combine", t, l>>

\* They are what Inputs says.
LEMMA InputsOf == ASSUME NEW t, NEW l \in Nat PROVE InputFacts(t, l)
  BY SMTT(30) DEF Inputs, InputFacts

\* What a kernel finds at its place in the program is what it reads.
LEMMA HtInputs ==
  ASSUME NEW t, NEW l, NEW o, HtReady(t, l, o)
  PROVE  /\ o = 3 => Before(<<"attention", t, l>>, "comm")
         /\ o = 5 => Before(<<"dispatch", t, l>>, "compute")
         /\ o = 8 => Before(<<"experts", t, l>>, "comm")
         /\ o = 10 => On(<<"attention", t, l>>, "compute")
         /\ o = 12 => On(<<"combine", t, l>>, "comm")
  BY SMT DEF HtReady

\* So with the low-latency back end.
LEMMA LlInputs ==
  ASSUME NEW t, NEW l, NEW o, LlReady(t, l, o)
  PROVE  /\ o = 3 => On(<<"attention", t, l>>, "compute")
         /\ o = 6 => On(<<"recv_dispatch", t, l>>, "compute")
         /\ o = 9 => On(<<"experts", t, l>>, "compute")
         /\ o = 10 => On(<<"attention", t, l>>, "compute")
  BY SMT DEF LlReady

\* The kernels of the program are kernels of this pass, in a layer or at the norm.
LEMMA KernelOf ==
  ASSUME NEW t \in Thread, NEW l, NEW o, NEW p \in Kernels,
         plan.layers \in Nat \ {0}, plan.mode \in {"ht", "ll"},
         \/ l = plan.layers + 1 /\ p = "norm"
         \/ /\ l \in 1 .. plan.layers
            /\ plan.mode = "ht" => HtOp(o, p)
            /\ plan.mode = "ll" => LlOp(o, p)
  PROVE  /\ <<p, t, l>> \in AllKernels
         /\ l \in Nat \ {0} /\ (l # 1 => l > 1)
  BY SMT DEF AllKernels, Transfers, Kernels, HtOp, LlOp

\* The streams that the high-throughput back end has at its kernels and yields.
LEMMA StreamAt ==
  ASSUME NEW o, NEW s, s = IF o \in {3, 4, 8, 9, 12, 13} THEN "comm" ELSE "compute"
  PROVE  /\ o \in {3, 8, 12, 13} => s = "comm"
         /\ o \in {1, 2, 5, 7, 10} => s = "compute"
  BY SMT

\* The places from a hook's registration to its launch that are neither.
LEMMA HookPlaces ==
  ASSUME NEW o, NEW p, p \notin {"yield", "run_hook"}, o # 1 => LlOp(o, p),
         o \in {1, 2, 5, 6, 7, 8, 12}
  PROVE  o \in {1, 6, 7} /\ o < 12 /\ o + 1 \in {1, 2, 6, 7, 8}
  BY SMT DEF LlOp

-----------------------------------------------------------------------------
(* What is put on the streams. *)

\* What was put on the streams is still there, and only that was added.
Grows ==
  /\ done' = done
  /\ \A s \in Stream :
       /\ Len(queue[s]) <= Len(queue'[s])
       /\ \A i \in 1 .. Len(queue[s]) : queue'[s][i] = queue[s][i]

\* The streams are finite.
LEMMA Lengths == QueueType => \A s \in Stream : Len(queue[s]) \in Nat /\ queue[s] \in Seq(Item)
  BY SMT DEF QueueType

\* An item put at the end of a stream, or none.
LEMMA Appended ==
  ASSUME NEW S, NEW q \in Seq(S), NEW x \in S
  PROVE  /\ q \o <<x>> = Append(q, x) /\ q \o <<>> = q
         /\ Append(q, x) \in Seq(S) /\ Len(Append(q, x)) = Len(q) + 1
         /\ Append(q, x)[Len(q) + 1] = x
         /\ \A i \in 1 .. Len(q) : Append(q, x)[i] = q[i]
  OBVIOUS

\* What is added to the streams disturbs no order.
LEMMA GrowthKeeps ==
  ASSUME QueueType, QueueType', Grows
  PROVE  /\ OrderKept
         /\ \A k : \A s \in Stream : \A i \in Int : BeforeAt(k, s, i) => BeforeAt(k, s, i)'
  <1>1. \A s \in Stream : Len(queue[s]) \in Nat /\ Len(queue'[s]) \in Nat
    BY Lengths, SMT DEF QueueType
  <1>2. \A s \in Stream : \A i \in 1 .. Len(queue[s]) : i \in 1 .. Len(queue'[s]) /\ queue'[s][i] = queue[s][i]
    BY <1>1, SMT DEF Grows
  <1>3. ASSUME NEW k, NEW s \in Stream, NEW u \in Thread, NEW n \in Nat, Ahead(k, s, u, n)
        PROVE  Ahead(k, s, u, n)'
    BY <1>2, <1>3, Zenon DEF Ahead, Mark, Kernel
  <1>4. ASSUME NEW k, NEW s \in Stream, NEW i \in Int, NEW m \in Int, i <= m, BeforeAt(k, s, i)
        PROVE  BeforeAt(k, s, m)'
    <2>1. CASE k \in done
      BY <2>1, Zenon DEF Grows, BeforeAt
    <2>2. ASSUME NEW j \in 1 .. Len(queue[s]), j < i, queue[s][j] = Kernel(k) PROVE BeforeAt(k, s, m)'
      <3>1. j < m
        BY <2>2, <1>1, <1>4, SMT
      <3> QED
        BY <2>2, <3>1, <1>2, Zenon DEF BeforeAt, Kernel
    <2>3. ASSUME NEW z \in Stream, NEW u \in Thread, NEW n \in Nat, NEW j \in 1 .. Len(queue[s]),
                 j < i, queue[s][j] = WaitFor(z, u, n), Ahead(k, z, u, n)
          PROVE  BeforeAt(k, s, m)'
      <3>1. j < m
        BY <2>3, <1>1, <1>4, SMT
      <3>2. Ahead(k, z, u, n)'
        BY <2>3, <1>3, Zenon
      <3> QED
        BY <2>3, <3>1, <3>2, <1>2, Zenon DEF BeforeAt, WaitFor
    <2> QED
      BY <1>4, <2>1, <2>2, <2>3, Zenon DEF BeforeAt
  <1>5. ASSUME NEW k, NEW s \in Stream, Before(k, s) PROVE Before(k, s)'
    <2>1. Len(queue[s]) + 1 \in Int /\ Len(queue'[s]) + 1 \in Int /\ Len(queue[s]) + 1 <= Len(queue'[s]) + 1
      BY <1>1, SMT DEF Grows
    <2> QED
      BY <1>4, <1>5, <2>1, Zenon DEF Before
  <1>6. ASSUME NEW k, NEW s \in Stream, On(k, s) PROVE On(k, s)'
    BY <1>6, <1>2, Zenon DEF On, Grows, Kernel
  <1>7. ASSUME NEW k, NEW s \in Stream, NEW u \in Thread, NEW n \in Nat, Reached(k, s, u, n)
        PROVE  Reached(k, s, u, n)'
    BY <1>7, <1>3, Zenon DEF Reached, Grows
  <1>8. ASSUME NEW k, NEW s \in Stream, NEW i \in Int, BeforeAt(k, s, i) PROVE BeforeAt(k, s, i)'
    <2>1. i <= i
      BY SMT
    <2> QED
      BY <1>4, <1>8, <2>1, Zenon
  <1>9. OrderKept
    BY <1>5, <1>6, <1>7, Zenon DEF OrderKept
  <1> QED
    BY <1>8, <1>9, Zenon

\* The kernels of the pass and their inputs depend only on its plan.
LEMMA PlanFixes ==
  ASSUME plan' = plan
  PROVE  AllKernels' = AllKernels /\ Item' = Item /\ \A k : Inputs(k)' = Inputs(k)
  <1>1. AllKernels' = AllKernels
    BY Zenon DEF AllKernels, Transfers
  <1>2. Item' = Item
    BY <1>1, Zenon DEF Item
  <1>3. \A k : Inputs(k)' = Inputs(k)
    BY Zenon DEF Inputs
  <1> QED
    BY <1>1, <1>2, <1>3, Zenon

\* What is added has to be in place: the rest stays so.
LEMMA GrowthInPlace ==
  ASSUME QueueType, QueueType', QueueInv, Grows, plan' = plan, completed' = completed,
         \A s \in Stream, u \in Thread : recorded[s][u] <= recorded'[s][u],
         \A s \in Stream : \A i \in 1 .. Len(queue'[s]) : i > Len(queue[s]) => InPlace(s, i)'
  PROVE  QueueInv' /\ OrderKept
  <1>1. \A s \in Stream : /\ Len(queue[s]) \in Nat /\ queue[s] \in Seq(Item)
                          /\ Len(queue'[s]) \in Nat
    BY Lengths, SMT DEF QueueType
  <1>2. ASSUME NEW s \in Stream, NEW i \in 1 .. Len(queue[s]) PROVE InPlace(s, i)'
    <2>1. queue'[s][i] = queue[s][i] /\ InPlace(s, i)
      BY Zenon DEF Grows, QueueInv
    <2>2. queue[s][i] \in Item
      BY <1>1, SMT
    <2>3. ASSUME queue[s][i].op = "kernel", NEW k \in Inputs(queue[s][i].kernel) PROVE BeforeAt(k, s, i)'
      <3>1. i \in Int
        BY SMT
      <3> QED
        BY <2>1, <2>3, <3>1, GrowthKeeps, Zenon DEF InPlace
    <2>4. ASSUME queue[s][i].op = "record"
          PROVE  /\ queue[s][i].stream = s
                 /\ completed'[s][queue[s][i].thread] < queue[s][i].n
                 /\ queue[s][i].n <= recorded'[s][queue[s][i].thread]
                 /\ \A j \in 1 .. Len(queue'[s]) :
                      j < i /\ queue'[s][j].op = "record" /\ queue'[s][j].thread = queue[s][i].thread
                        => queue'[s][j].n < queue[s][i].n
      <3>1. queue[s][i].stream = s /\ completed'[s][queue[s][i].thread] < queue[s][i].n
        BY <2>1, <2>4, Zenon DEF InPlace
      <3>2. queue[s][i].n \in Nat /\ queue[s][i].thread \in Thread
        BY <2>2, <2>4, Zenon DEF Item
      <3>3. queue[s][i].n <= recorded[s][queue[s][i].thread]
        BY <2>1, <2>4, Zenon DEF InPlace
      <3>4. /\ recorded[s][queue[s][i].thread] \in Nat /\ recorded'[s][queue[s][i].thread] \in Nat
            /\ recorded[s][queue[s][i].thread] <= recorded'[s][queue[s][i].thread]
        BY <3>2, Zenon DEF QueueType
      <3>5. queue[s][i].n <= recorded'[s][queue[s][i].thread]
        BY <3>2, <3>3, <3>4, SMT
      <3>6. ASSUME NEW j \in 1 .. Len(queue'[s]), j < i, queue'[s][j].op = "record",
                   queue'[s][j].thread = queue[s][i].thread
            PROVE  queue'[s][j].n < queue[s][i].n
        <4>1. j \in 1 .. Len(queue[s])
          BY <3>6, <1>1, SMT
        <4>2. queue'[s][j] = queue[s][j]
          BY <4>1, Zenon DEF Grows
        <4> QED
          BY <2>1, <2>4, <3>6, <4>1, <4>2, Zenon DEF InPlace
      <3> QED
        BY <3>1, <3>5, <3>6, Zenon
    <2>5. \A k : Inputs(k)' = Inputs(k)
      BY PlanFixes, Zenon
    <2> QED
      BY <2>1, <2>3, <2>4, <2>5, Zenon DEF InPlace
  <1>3. ASSUME NEW s \in Stream, NEW i \in 1 .. Len(queue'[s]) PROVE InPlace(s, i)'
    <2>1. i \in 1 .. Len(queue[s]) \/ i > Len(queue[s])
      BY <1>1, SMT
    <2> QED
      BY <1>2, <1>3, <2>1, Zenon
  <1>4. \A k \in done' : Inputs(k)' \subseteq done'
    BY PlanFixes, Zenon DEF QueueInv, Grows
  <1>5. \A s \in Stream, u \in Thread : completed'[s][u] <= recorded'[s][u]
    BY SMT DEF QueueInv, QueueType
  <1> QED
    BY <1>3, <1>4, <1>5, GrowthKeeps, Zenon DEF QueueInv

\* An item is put at the end of stream s, at position m.
Put(s, m, x) ==
  /\ Grows
  /\ queue' \in [Stream -> Seq(Item)]
  /\ m \in 1 .. Len(queue'[s]) /\ queue'[s][m] = x
  /\ \A z \in Stream : \A i \in 1 .. Len(queue'[z]) : i > Len(queue[z]) => z = s /\ i = m

\* What Enqueue does.
LEMMA Enqueued ==
  ASSUME QueueType, NEW s \in Stream, NEW x \in Item, queue' = Enqueue(s, <<x>>), done' = done,
         NEW m, m = Len(queue[s]) + 1
  PROVE  Put(s, m, x)
  <1>1. \A z \in Stream : queue[z] \in Seq(Item) /\ Len(queue[z]) \in Nat
    BY Lengths
  <1>2. PICK q : q = Append(queue[s], x)
    BY Zenon
  <1>3. /\ queue[s] \o <<x>> = q
        /\ q \in Seq(Item) /\ Len(q) = m /\ q[m] = x
        /\ \A i \in 1 .. Len(queue[s]) : q[i] = queue[s][i]
    <2>1. queue[s] \in Seq(Item) /\ Len(queue[s]) \in Nat
      BY <1>1, Zenon
    <2> QED
      BY <2>1, <1>2, Appended, SMT
  <1>4. queue' = [queue EXCEPT ![s] = q]
    BY <1>3, Zenon DEF Enqueue
  <1>5. queue'[s] = q /\ \A z \in Stream \ {s} : queue'[z] = queue[z]
    BY <1>4, Zenon DEF QueueType
  <1>6. queue' \in [Stream -> Seq(Item)]
    BY <1>3, <1>4, Zenon DEF QueueType
  <1>7. ASSUME NEW z \in Stream
        PROVE  /\ Len(queue[z]) <= Len(queue'[z])
               /\ \A i \in 1 .. Len(queue[z]) : queue'[z][i] = queue[z][i]
               /\ \A i \in 1 .. Len(queue'[z]) : i > Len(queue[z]) => z = s /\ i = m
    <2>1. CASE z = s
      <3>1. queue'[z] = q
        BY <1>5, <2>1, Zenon
      <3>2. Len(queue[z]) <= Len(q) /\ \A i \in 1 .. Len(q) : i > Len(queue[z]) => i = m
        BY <1>1, <1>3, <2>1, SMT
      <3> QED
        BY <1>3, <3>1, <3>2, <2>1, Zenon
    <2>2. CASE z # s
      <3>1. queue'[z] = queue[z]
        BY <1>5, <2>2, Zenon
      <3>2. Len(queue[z]) <= Len(queue[z]) /\ \A i \in 1 .. Len(queue[z]) : ~(i > Len(queue[z]))
        BY <1>1, SMT
      <3> QED
        BY <3>1, <3>2, Zenon
    <2> QED
      BY <2>1, <2>2, Zenon
  <1>8. m \in 1 .. Len(q)
    BY <1>1, <1>3, SMT
  <1> QED
    BY <1>3, <1>5, <1>6, <1>7, <1>8, Zenon DEF Put, Grows

\* A kernel put on a stream after its inputs is in place.
LEMMA KernelPut ==
  ASSUME QueueType, QueueInv, plan' = plan, UNCHANGED <<recorded, completed, done>>,
         NEW s \in Stream, NEW k \in AllKernels, queue' = Enqueue(s, <<Kernel(k)>>),
         \A i \in Inputs(k) : Before(i, s)
  PROVE  QueueType' /\ QueueInv' /\ OrderKept /\ On(k, s)'
  <1>1. Kernel(k) \in Item /\ Kernel(k).op = "kernel" /\ Kernel(k).kernel = k
    BY Zenon DEF Item, Kernel
  <1>2. PICK m : m = Len(queue[s]) + 1
    BY Zenon
  <1>3. Put(s, m, Kernel(k))
    BY <1>1, <1>2, Enqueued, Zenon
  <1>4. QueueType'
    BY <1>3, PlanFixes, Zenon DEF Put, QueueType
  <1>5. ASSUME NEW i \in Inputs(k) PROVE BeforeAt(i, s, m)'
    <2>1. m \in Int
      BY <1>2, Lengths, SMT
    <2> QED
      BY <1>2, <1>3, <1>4, <2>1, GrowthKeeps, Zenon DEF Before, Put
  <1>6. InPlace(s, m)'
    BY <1>1, <1>3, <1>5, PlanFixes, Zenon DEF InPlace, Put
  <1>7. \A z \in Stream, u \in Thread : recorded[z][u] <= recorded'[z][u]
    BY SMT DEF QueueType
  <1>8. QueueInv' /\ OrderKept
    BY <1>3, <1>4, <1>6, <1>7, GrowthInPlace, Zenon DEF Put
  <1>9. On(k, s)'
    BY <1>3, Zenon DEF On, Put, Kernel
  <1> QED
    BY <1>4, <1>8, <1>9, Zenon

\* A record put on a stream is in place, and is reached after all that is there.
LEMMA RecordPut ==
  ASSUME QueueType, QueueInv, plan' = plan, UNCHANGED <<completed, done>>,
         NEW s \in Stream, NEW t \in Thread, queue' = Enqueue(s, <<Record(s, t)>>),
         recorded' = [recorded EXCEPT ![s][t] = @ + 1]
  PROVE  /\ QueueType' /\ QueueInv' /\ OrderKept
         /\ \A k : On(k, s) => Reached(k, s, t, recorded[s][t])'
  <1>1. PICK n \in Nat : n = recorded[s][t] + 1
    BY SMT DEF QueueType
  <1>2. PICK m : m = Len(queue[s]) + 1
    BY Zenon
  <1>3. PICK x : x = Record(s, t)
    BY Zenon
  <1>4. /\ x = Mark(s, t, n) /\ x \in Item /\ x.op = "record" /\ x.stream = s
        /\ x.thread = t /\ x.n = n
    <2>1. x = Mark(s, t, n)
      BY <1>1, <1>3, Zenon DEF Record, Mark
    <2> QED
      BY <2>1, <1>1, Zenon DEF Mark, Item
  <1>5. Put(s, m, x)
    BY <1>2, <1>3, <1>4, Enqueued, Zenon
  <1>6. /\ recorded' \in [Stream -> [Thread -> Nat]] /\ recorded'[s][t] = n
        /\ \A z \in Stream, u \in Thread : recorded[z][u] <= recorded'[z][u]
    BY <1>1, SMT DEF QueueType
  <1>7. QueueType'
    BY <1>5, <1>6, PlanFixes, Zenon DEF Put, QueueType
  <1>8. InPlace(s, m)'
    <2>1. completed[s][t] < n /\ n <= n
      BY <1>1, SMT DEF QueueType, QueueInv
    <2>2. ASSUME NEW j \in 1 .. Len(queue'[s]), j < m, queue'[s][j].op = "record", queue'[s][j].thread = t
          PROVE  queue'[s][j].n < n
      <3>1. j \in 1 .. Len(queue[s])
        BY <1>2, <2>2, <1>7, Lengths, SMT DEF QueueType
      <3>2. queue'[s][j] = queue[s][j] /\ InPlace(s, j)
        BY <3>1, <1>5, Zenon DEF Put, Grows, QueueInv
      <3>3. queue[s][j].n <= recorded[s][t]
        BY <2>2, <3>2, Zenon DEF InPlace
      <3>4. queue[s][j] \in Item
        BY <3>1, Lengths, SMT
      <3>5. queue[s][j].n \in Nat
        BY <3>2, <3>4, <2>2, Zenon DEF Item
      <3> QED
        BY <3>2, <3>3, <3>5, <1>1, SMT DEF QueueType
    <2>3. queue'[s][m] = x
      BY <1>5, Zenon DEF Put
    <2>4. /\ queue'[s][m].op = "record" /\ queue'[s][m].stream = s
          /\ queue'[s][m].thread = t /\ queue'[s][m].n = n
      BY <1>4, <2>3, Zenon
    <2>5. completed'[s][t] < n /\ n <= recorded'[s][t]
      BY <1>6, <2>1, Zenon
    <2> QED
      BY <2>2, <2>4, <2>5, Zenon DEF InPlace
  <1>9. QueueInv' /\ OrderKept
    BY <1>5, <1>6, <1>7, <1>8, GrowthInPlace, Zenon DEF Put
  <1>10. ASSUME NEW k, On(k, s) PROVE Reached(k, s, t, n)'
    <2>1. CASE k \in done
      BY <2>1, Zenon DEF Reached
    <2>2. ASSUME NEW i \in 1 .. Len(queue[s]), queue[s][i] = Kernel(k) PROVE Reached(k, s, t, n)'
      <3>1. i \in 1 .. Len(queue'[s]) /\ i < m
        BY <1>2, <1>5, <1>7, Lengths, SMT DEF Put, Grows, QueueType
      <3>2. queue'[s][i] = Kernel(k) /\ m \in 1 .. Len(queue'[s]) /\ queue'[s][m] = Mark(s, t, n)
        BY <2>2, <1>4, <1>5, Zenon DEF Put, Grows
      <3> QED
        BY <3>1, <3>2, Zenon DEF Reached, Ahead, Kernel, Mark
    <2> QED
      BY <1>10, <2>1, <2>2, Zenon DEF On
  <1>11. recorded'[s][t] = n
    BY <1>6
  <1>12. ASSUME NEW k, On(k, s) PROVE Reached(k, s, t, recorded[s][t])'
    <2>1. Reached(k, s, t, n)'
      BY <1>10, <1>12, Zenon
    <2> QED
      BY <2>1, <1>11 DEF Reached, Ahead
  <1> QED
    BY <1>7, <1>9, <1>12, Zenon

\* A wait put on a stream is in place, and what follows it comes after all that
\* the record it waits for comes after.
LEMMA WaitPut ==
  ASSUME QueueType, QueueInv, plan' = plan, UNCHANGED <<recorded, completed, done>>,
         NEW s \in Stream, NEW z \in Stream, NEW u \in Thread, NEW n \in Nat,
         queue' = Enqueue(s, <<WaitFor(z, u, n)>>)
  PROVE  /\ QueueType' /\ QueueInv' /\ OrderKept
         /\ \A k : Reached(k, z, u, n) => Before(k, s)'
  <1>1. PICK m : m = Len(queue[s]) + 1
    BY Zenon
  <1>2. WaitFor(z, u, n) \in Item /\ WaitFor(z, u, n).op = "wait"
    BY Zenon DEF WaitFor, Item
  <1>3. Put(s, m, WaitFor(z, u, n))
    BY <1>1, <1>2, Enqueued, Zenon
  <1>4. QueueType'
    BY <1>3, PlanFixes, Zenon DEF Put, QueueType
  <1>5. InPlace(s, m)'
    <2>1. queue'[s][m] = WaitFor(z, u, n)
      BY <1>3, Zenon DEF Put
    <2>2. queue'[s][m].op # "kernel" /\ queue'[s][m].op # "record"
      BY <2>1, <1>2
    <2> QED
      BY <2>2, Zenon DEF InPlace
  <1>6. \A y \in Stream, v \in Thread : recorded[y][v] <= recorded'[y][v]
    BY SMT DEF QueueType
  <1>7. QueueInv' /\ OrderKept
    BY <1>3, <1>4, <1>5, <1>6, GrowthInPlace, Zenon DEF Put
  <1>8. ASSUME NEW k, Reached(k, z, u, n) PROVE Before(k, s)'
    <2>1. Reached(k, z, u, n)'
      BY <1>7, <1>8, Zenon DEF OrderKept
    <2>2. m \in 1 .. Len(queue'[s]) /\ m < Len(queue'[s]) + 1 /\ queue'[s][m] = WaitFor(z, u, n)
      BY <1>3, <1>4, SMT DEF Put, QueueType
    <2> QED
      BY <2>1, <2>2, Zenon DEF Before, BeforeAt, Reached, WaitFor
  <1> QED
    BY <1>4, <1>7, <1>8, Zenon

\* switch_to_compute_sync puts a record on one stream and a wait for it on the
\* other: what follows the wait comes after all that is on the first.
LEMMA SyncPut ==
  ASSUME QueueType, QueueInv, plan' = plan, UNCHANGED <<completed, done>>, NEW t \in Thread,
         queue' = [queue EXCEPT !["comm"] = Append(@, Record("comm", t)),
                                !["compute"] = Append(@, WaitFor("comm", t, recorded["comm"][t] + 1))],
         recorded' = [recorded EXCEPT !["comm"][t] = @ + 1]
  PROVE  /\ QueueType' /\ QueueInv' /\ OrderKept
         /\ \A k : On(k, "comm") => Before(k, "compute")'
  <1>1. PICK n \in Nat : n = recorded["comm"][t] + 1
    BY SMT DEF QueueType, Stream
  <1>2. PICK m : m = Len(queue["comm"]) + 1
    BY Zenon
  <1>3. PICK w : w = Len(queue["compute"]) + 1
    BY Zenon
  <1>4. PICK x : x = Mark("comm", t, n)
    BY Zenon
  <1>5. PICK y : y = WaitFor("comm", t, n)
    BY Zenon
  <1>6. /\ x \in Item /\ x.op = "record" /\ x.stream = "comm" /\ x.thread = t /\ x.n = n
        /\ y \in Item /\ y.op = "wait"
    BY <1>4, <1>5, Zenon DEF Mark, WaitFor, Item, Stream
  <1>7. /\ queue["comm"] \in Seq(Item) /\ queue["compute"] \in Seq(Item)
        /\ Len(queue["comm"]) \in Nat /\ Len(queue["compute"]) \in Nat
    BY Lengths, Zenon DEF Stream
  <1>8. PICK q : q = Append(queue["comm"], x)
    BY Zenon
  <1>9. PICK r : r = Append(queue["compute"], y)
    BY Zenon
  <1>10. /\ q \in Seq(Item) /\ Len(q) = m /\ q[m] = x
         /\ \A i \in 1 .. Len(queue["comm"]) : q[i] = queue["comm"][i]
    BY <1>2, <1>6, <1>7, <1>8, Appended, SMT
  <1>11. /\ r \in Seq(Item) /\ Len(r) = w /\ r[w] = y
         /\ \A i \in 1 .. Len(queue["compute"]) : r[i] = queue["compute"][i]
    BY <1>3, <1>6, <1>7, <1>9, Appended, SMT
  <1>12. queue' = [queue EXCEPT !["comm"] = q, !["compute"] = r]
    <2>1. Record("comm", t) = x /\ WaitFor("comm", t, recorded["comm"][t] + 1) = y
      BY <1>1, <1>4, <1>5, Zenon DEF Record, Mark
    <2> QED
      BY <2>1, <1>8, <1>9, Zenon
  <1>13. "comm" \in Stream /\ "compute" \in Stream /\ "comm" # "compute"
    BY DEF Stream
  <1>14. queue' \in [Stream -> Seq(Item)] /\ queue'["comm"] = q /\ queue'["compute"] = r
    <2>1. q \in Seq(Item) /\ r \in Seq(Item) /\ queue \in [Stream -> Seq(Item)]
      BY <1>10, <1>11, Zenon DEF QueueType
    <2> QED
      BY ONLY <1>13, <1>12, <2>1, Zenon
  <1>15. /\ recorded' \in [Stream -> [Thread -> Nat]] /\ recorded'["comm"][t] = n
         /\ \A z \in Stream, u \in Thread : recorded[z][u] <= recorded'[z][u]
    <2>1. recorded \in [Stream -> [Thread -> Nat]]
      BY Zenon DEF QueueType
    <2>2. PICK c : c = "comm"
      BY Zenon
    <2>3. c \in Stream /\ recorded' = [recorded EXCEPT ![c][t] = n] /\ n = recorded[c][t] + 1
      BY <1>13, <1>1, <2>2, Zenon
    <2>4. /\ recorded' \in [Stream -> [Thread -> Nat]] /\ recorded'[c][t] = n
          /\ \A z \in Stream, u \in Thread : recorded[z][u] <= recorded'[z][u]
      BY ONLY <2>1, <2>3, t \in Thread, n \in Nat, SMT
    <2> QED
      BY <2>2, <2>4, Zenon
  <1>16. QueueType'
    BY <1>14, <1>15, PlanFixes, Zenon DEF QueueType
  <1>17. Len(queue["comm"]) <= Len(q) /\ Len(queue["compute"]) <= Len(r)
    BY <1>2, <1>3, <1>7, <1>10, <1>11, SMT
  <1>18. Grows
    BY <1>10, <1>11, <1>14, <1>17, Zenon DEF Grows, Stream
  <1>19. InPlace("comm", m)'
    <2>1. completed["comm"][t] < n /\ n <= n
      BY <1>1, SMT DEF QueueType, QueueInv, Stream
    <2>2. ASSUME NEW j \in 1 .. Len(queue'["comm"]), j < m, queue'["comm"][j].op = "record",
                 queue'["comm"][j].thread = t
          PROVE  queue'["comm"][j].n < n
      <3>1. j \in 1 .. Len(queue["comm"])
        BY <1>2, <1>7, <1>10, <1>14, <2>2, SMT
      <3>2. queue'["comm"][j] = queue["comm"][j] /\ InPlace("comm", j)
        BY <3>1, <1>18, Zenon DEF Grows, QueueInv, Stream
      <3>3. queue["comm"][j].n <= recorded["comm"][t]
        BY <2>2, <3>2, Zenon DEF InPlace
      <3>4. queue["comm"][j] \in Item
        BY <3>1, <1>7, SMT
      <3>5. queue["comm"][j].n \in Nat
        BY <3>2, <3>4, <2>2, Zenon DEF Item
      <3> QED
        <4>1. recorded["comm"][t] \in Nat
          BY <1>13, Zenon DEF QueueType
        <4> QED
          BY ONLY <3>2, <3>3, <3>5, <1>1, <4>1, SMT
    <2>3. queue'["comm"][m] = x
      BY <1>10, <1>14, Zenon
    <2>4. /\ queue'["comm"][m].op = "record" /\ queue'["comm"][m].stream = "comm"
          /\ queue'["comm"][m].thread = t /\ queue'["comm"][m].n = n
      BY <1>6, <2>3, Zenon
    <2>5. completed'["comm"][t] < n /\ n <= recorded'["comm"][t]
      BY <1>15, <2>1, Zenon
    <2> QED
      BY <2>2, <2>4, <2>5, Zenon DEF InPlace
  <1>20. InPlace("compute", w)'
    <2>1. queue'["compute"][w].op = "wait"
      BY <1>6, <1>11, <1>14, Zenon
    <2>2. queue'["compute"][w].op # "kernel" /\ queue'["compute"][w].op # "record"
      BY <2>1, Zenon
    <2> QED
      BY <2>2, Zenon DEF InPlace
  <1>21. ASSUME NEW z \in Stream, NEW i \in 1 .. Len(queue'[z]), i > Len(queue[z]) PROVE InPlace(z, i)'
    <2>1. CASE z = "comm"
      <3>1. i = m
        BY <1>2, <1>7, <1>10, <1>14, <1>21, <2>1, SMT
      <3> QED
        BY <3>1, <2>1, <1>19, Zenon
    <2>2. CASE z = "compute"
      <3>1. i = w
        BY <1>3, <1>7, <1>11, <1>14, <1>21, <2>2, SMT
      <3> QED
        BY <3>1, <2>2, <1>20, Zenon
    <2> QED
      BY <2>1, <2>2, Zenon DEF Stream
  <1>22. QueueInv' /\ OrderKept
    BY <1>15, <1>16, <1>18, <1>21, GrowthInPlace, Zenon
  <1>23. ASSUME NEW k, On(k, "comm") PROVE Before(k, "compute")'
    <2>1. CASE k \in done
      BY <2>1, Zenon DEF Before, BeforeAt
    <2>2. ASSUME NEW i \in 1 .. Len(queue["comm"]), queue["comm"][i] = Kernel(k) PROVE Before(k, "compute")'
      <3>1. i \in 1 .. Len(q) /\ m \in 1 .. Len(q) /\ i < m /\ w \in 1 .. Len(r) /\ w < Len(r) + 1
        <4>1. Len(q) = m /\ Len(r) = w
          BY <1>10, <1>11, Zenon
        <4> QED
          BY ONLY <1>2, <1>3, <1>7, <4>1, i \in 1 .. Len(queue["comm"]), SMT
      <3>2. q[i] = Kernel(k)
        BY <2>2, <1>10, Zenon
      <3>3. Ahead(k, "comm", t, n)'
        BY <1>4, <1>10, <1>14, <3>1, <3>2, Zenon DEF Ahead, Kernel, Mark
      <3> QED
        BY <1>5, <1>11, <1>14, <3>1, <3>3, Zenon DEF Before, BeforeAt, WaitFor, Stream
    <2> QED
      BY <1>23, <2>1, <2>2, Zenon DEF On
  <1> QED
    BY <1>16, <1>22, <1>23, Zenon

\* The first item of a stream is gone, d being what the positions are off by.
Pop(s, d) ==
  \A z \in Stream :
    /\ d[z] \in {0, 1} /\ (d[z] = 1 <=> z = s)
    /\ Len(queue[z]) \in Nat /\ Len(queue'[z]) \in Nat
    /\ Len(queue'[z]) = Len(queue[z]) - d[z]
    /\ \A i \in 1 .. Len(queue'[z]) : queue'[z][i] = queue[z][i + d[z]]

\* What the GPU takes from a stream.
LEMMA Taken ==
  ASSUME QueueType, NEW s \in Stream, gpu_step(s)
  PROVE  /\ queue' \in [Stream -> Seq(Item)]
         /\ 1 \in 1 .. Len(queue[s]) /\ Head(queue[s]) = queue[s][1] /\ queue[s][1] \in Item
         /\ \E d : Pop(s, d)
  <1>1. \A z \in Stream : queue[z] \in Seq(Item) /\ Len(queue[z]) \in Nat
    BY Lengths
  <1>2. queue[s] # <<>> /\ queue' = [queue EXCEPT ![s] = Tail(queue[s])]
    BY Zenon DEF gpu_step
  <1>3. PICK q : q = queue[s]
    BY Zenon
  <1>4. PICK r : r = Tail(q)
    BY Zenon
  <1>5. q \in Seq(Item) /\ q # <<>>
    BY <1>1, <1>2, <1>3, Zenon
  <1>6. /\ Len(q) \in Nat \ {0} /\ r \in Seq(Item) /\ Len(r) = Len(q) - 1
        /\ \A i \in 1 .. Len(r) : r[i] = q[i + 1]
        /\ 1 \in 1 .. Len(q) /\ Head(q) = q[1] /\ q[1] \in Item
    BY ONLY <1>4, <1>5, SMT
  <1>7. queue' \in [Stream -> Seq(Item)] /\ \A z \in Stream : queue'[z] = IF z = s THEN r ELSE queue[z]
    BY <1>2, <1>3, <1>4, <1>6, Zenon DEF QueueType
  <1>8. PICK d : d = [z \in Stream |-> IF z = s THEN 1 ELSE 0]
    BY Zenon
  <1>9. ASSUME NEW z \in Stream
        PROVE  /\ d[z] \in {0, 1} /\ (d[z] = 1 <=> z = s)
               /\ Len(queue[z]) \in Nat /\ Len(queue'[z]) \in Nat
               /\ Len(queue'[z]) = Len(queue[z]) - d[z]
               /\ \A i \in 1 .. Len(queue'[z]) : queue'[z][i] = queue[z][i + d[z]]
    <2>1. CASE z = s
      <3>1. queue'[z] = r /\ queue[z] = q /\ d[z] = 1
        BY <1>3, <1>7, <1>8, <2>1
      <3> QED
        BY ONLY <1>6, <2>1, <3>1, SMT
    <2>2. CASE z # s
      <3>1. queue'[z] = queue[z] /\ d[z] = 0 /\ Len(queue[z]) \in Nat
        BY <1>1, <1>7, <1>8, <2>2
      <3> QED
        BY ONLY <2>2, <3>1, SMT
    <2> QED
      BY <2>1, <2>2, Zenon
  <1> QED
    BY <1>3, <1>6, <1>7, <1>9, Zenon DEF Pop

\* The GPU takes the streams' work in an order in which each kernel has its
\* inputs, and what it takes disturbs no order.
LEMMA StepKeeps ==
  ASSUME QueueType, QueueInv, NEW s \in Stream, gpu_step(s)
  PROVE  QueueType' /\ QueueInv' /\ OrderKept
  <1>1. PICK d : Pop(s, d)
    BY Taken, Zenon
  <1>2. PICK h : h = queue[s][1]
    BY Zenon
  <1>3. /\ h \in Item /\ 1 \in 1 .. Len(queue[s]) /\ Head(queue[s]) = h /\ InPlace(s, 1)
        /\ queue' \in [Stream -> Seq(Item)]
    BY <1>2, Taken, Zenon DEF QueueInv
  <1>4. /\ plan' = plan /\ recorded' = recorded
        /\ \/ h.op = "kernel" /\ done' = done \cup {h.kernel} /\ completed' = completed
           \/ /\ h.op = "record" /\ done' = done
              /\ completed' = [completed EXCEPT ![h.stream][h.thread] = h.n]
           \/ /\ h.op = "wait" /\ done' = done /\ completed' = completed
              /\ completed[h.stream][h.thread] >= h.n
    BY <1>3, Zenon DEF gpu_step
  <1>5. done \subseteq done'
    BY <1>4, Zenon
  <1>6. ASSUME NEW z \in Stream, NEW j \in 1 .. Len(queue[z])
        PROVE  \/ z = s /\ j = 1
               \/ \E i \in 1 .. Len(queue'[z]) : i + d[z] = j /\ i = j - d[z] /\ queue'[z][i] = queue[z][j]
    <2>1. PICK e : e = d[z]
      BY Zenon
    <2>2. /\ e \in {0, 1} /\ (e = 1 <=> z = s) /\ Len(queue[z]) \in Nat
          /\ Len(queue'[z]) = Len(queue[z]) - e
          /\ \A i \in 1 .. Len(queue'[z]) : queue'[z][i] = queue[z][i + e]
      BY <1>1, <2>1, Zenon DEF Pop
    <2>3. \/ e = 1 /\ j = 1
          \/ j - e \in 1 .. Len(queue'[z]) /\ (j - e) + e = j
      BY ONLY <2>2, j \in 1 .. Len(queue[z]), SMT
    <2> QED
      BY <2>1, <2>2, <2>3, Zenon
  <1>7. ASSUME NEW k, h = Kernel(k) PROVE k \in done'
    <2>1. h.op = "kernel" /\ h.kernel = k
      BY <1>7 DEF Kernel
    <2> QED
      BY <1>4, <2>1
  <1>8. ASSUME NEW k, NEW z \in Stream, NEW u \in Thread, NEW n \in Nat, Ahead(k, z, u, n)
        PROVE  Reached(k, z, u, n)'
    <2>1. PICK i, j \in 1 .. Len(queue[z]) : i < j /\ queue[z][i] = Kernel(k) /\ queue[z][j] = Mark(z, u, n)
      BY <1>8, Zenon DEF Ahead
    <2>2. CASE z = s /\ i = 1
      BY <1>2, <1>7, <2>1, <2>2, Zenon DEF Reached
    <2>3. CASE ~(z = s /\ i = 1)
      <3>1. ~(z = s /\ j = 1)
        BY <1>1, <2>1, SMT DEF Pop
      <3>2. PICK a \in 1 .. Len(queue'[z]) : a = i - d[z] /\ queue'[z][a] = queue[z][i]
        BY <1>6, <2>3, Zenon
      <3>3. PICK b \in 1 .. Len(queue'[z]) : b = j - d[z] /\ queue'[z][b] = queue[z][j]
        BY <1>6, <3>1, Zenon
      <3>4. a < b
        <4>1. d[z] \in Int
          BY <1>1, SMT DEF Pop
        <4> QED
          BY <2>1, <3>2, <3>3, <4>1, SMT
      <3> QED
        BY <2>1, <3>2, <3>3, <3>4, Zenon DEF Reached, Ahead, Kernel, Mark
    <2> QED
      BY <2>2, <2>3, Zenon
  <1>9. ASSUME NEW k, NEW z \in Stream, NEW i \in Int, BeforeAt(k, z, i) PROVE BeforeAt(k, z, i - d[z])'
    <2>1. d[z] \in Int
      BY <1>1, SMT DEF Pop
    <2>2. CASE k \in done
      BY <2>2, <1>5, Zenon DEF BeforeAt
    <2>3. ASSUME NEW j \in 1 .. Len(queue[z]), j < i, queue[z][j] = Kernel(k)
          PROVE  BeforeAt(k, z, i - d[z])'
      <3>1. CASE z = s /\ j = 1
        BY <1>2, <1>7, <2>3, <3>1, Zenon DEF BeforeAt
      <3>2. CASE ~(z = s /\ j = 1)
        <4>1. PICK a \in 1 .. Len(queue'[z]) : a = j - d[z] /\ queue'[z][a] = queue[z][j]
          BY <1>6, <3>2, Zenon
        <4>2. a < i - d[z]
          BY <2>1, <2>3, <4>1, SMT
        <4> QED
          BY <2>3, <4>1, <4>2, Zenon DEF BeforeAt, Kernel
      <3> QED
        BY <3>1, <3>2, Zenon
    <2>4. ASSUME NEW y \in Stream, NEW u \in Thread, NEW n \in Nat, NEW j \in 1 .. Len(queue[z]),
                 j < i, queue[z][j] = WaitFor(y, u, n), Ahead(k, y, u, n)
          PROVE  BeforeAt(k, z, i - d[z])'
      <3>1. ~(z = s /\ j = 1)
        <4> SUFFICES ASSUME z = s, j = 1 PROVE FALSE
          OBVIOUS
        <4>1. h.op = "wait" /\ h.stream = y /\ h.thread = u /\ h.n = n
          BY <1>2, <2>4 DEF WaitFor
        <4>2. completed[y][u] >= n
          BY <1>4, <4>1
        <4>3. PICK b \in 1 .. Len(queue[y]) : queue[y][b] = Mark(y, u, n)
          BY <2>4, Zenon DEF Ahead
        <4>4. /\ InPlace(y, b) /\ queue[y][b].op = "record" /\ queue[y][b].thread = u
              /\ queue[y][b].n = n
          BY <4>3 DEF QueueInv, Mark
        <4>5. completed[y][u] < n
          BY <4>4, Zenon DEF InPlace
        <4> QED
          BY <4>2, <4>5, SMT DEF QueueType
      <3>2. PICK a \in 1 .. Len(queue'[z]) : a = j - d[z] /\ queue'[z][a] = queue[z][j]
        BY <1>6, <3>1, Zenon
      <3>3. a < i - d[z]
        BY <2>1, <2>4, <3>2, SMT
      <3>4. Reached(k, y, u, n)'
        BY <1>8, <2>4, Zenon
      <3> QED
        BY <2>4, <3>2, <3>3, <3>4, Zenon DEF BeforeAt, Reached, WaitFor
    <2> QED
      BY <1>9, <2>2, <2>3, <2>4, Zenon DEF BeforeAt
  <1>10. ASSUME NEW k, NEW z \in Stream, Before(k, z) PROVE Before(k, z)'
    <2>1. PICK i \in Int : i = Len(queue[z]) + 1 /\ i - d[z] = Len(queue'[z]) + 1
      BY <1>1, SMT DEF Pop
    <2>2. BeforeAt(k, z, i - d[z])'
      BY <1>9, <1>10, <2>1, Zenon DEF Before
    <2>3. PICK b : b = i - d[z]
      BY Zenon
    <2> QED
      BY <2>1, <2>2, <2>3, Zenon DEF Before
  <1>11. ASSUME NEW k, NEW z \in Stream, On(k, z) PROVE On(k, z)'
    <2>1. ASSUME NEW j \in 1 .. Len(queue[z]), queue[z][j] = Kernel(k) PROVE On(k, z)'
      <3>1. CASE z = s /\ j = 1
        BY <1>2, <1>7, <2>1, <3>1, Zenon DEF On
      <3>2. CASE ~(z = s /\ j = 1)
        <4>1. PICK a \in 1 .. Len(queue'[z]) : queue'[z][a] = queue[z][j]
          BY <1>6, <3>2, Zenon
        <4>2. queue'[z][a] = Kernel(k)
          BY <2>1, <4>1, Zenon
        <4> QED
          BY <4>2, Zenon DEF On, Kernel
      <3> QED
        BY <3>1, <3>2, Zenon
    <2> QED
      BY <1>5, <1>11, <2>1, Zenon DEF On
  <1>12. OrderKept
    BY <1>5, <1>8, <1>10, <1>11, Zenon DEF OrderKept, Reached
  <1>13. ASSUME h.op = "record"
         PROVE  /\ h.stream = s /\ h.thread \in Thread /\ h.n \in Nat
                /\ h.n <= recorded[s][h.thread]
                /\ completed' = [completed EXCEPT ![s][h.thread] = h.n]
    <2>1. h.thread \in Thread /\ h.n \in Nat
      BY <1>3, <1>13, Zenon DEF Item
    <2>2. h.stream = s /\ h.n <= recorded[s][h.thread]
      BY <1>2, <1>3, <1>13, Zenon DEF InPlace
    <2> QED
      BY <1>4, <1>13, <2>1, <2>2
  <1>14. ASSUME h.op # "record" PROVE completed' = completed
    BY <1>4, <1>14
  <1>15. /\ completed' \in [Stream -> [Thread -> Nat]]
         /\ \A z \in Stream, u \in Thread : completed'[z][u] <= recorded'[z][u]
    <2>1. CASE h.op = "record"
      <3>1. PICK u \in Thread, n \in Nat : u = h.thread /\ n = h.n
        BY <1>13, <2>1, Zenon
      <3>2. completed' = [completed EXCEPT ![s][u] = n] /\ n <= recorded[s][u]
        BY <1>13, <2>1, <3>1, Zenon
      <3>3. /\ completed \in [Stream -> [Thread -> Nat]] /\ recorded' = recorded
            /\ \A z \in Stream, v \in Thread : completed[z][v] <= recorded[z][v]
        BY <1>4, Zenon DEF QueueType, QueueInv
      <3> QED
        BY ONLY <3>2, <3>3, s \in Stream, u \in Thread, n \in Nat, Zenon
    <2>2. CASE h.op # "record"
      BY <1>4, <1>14, <2>2, Zenon DEF QueueType, QueueInv
    <2> QED
      BY <2>1, <2>2, Zenon
  <1>16. QueueType'
    BY <1>3, <1>4, <1>15, PlanFixes, Zenon DEF QueueType
  <1>17. ASSUME NEW z \in Stream, NEW i \in 1 .. Len(queue'[z]) PROVE InPlace(z, i)'
    <2>1. PICK j : j = i + d[z]
      BY Zenon
    <2>2. /\ j \in Int /\ j \in 1 .. Len(queue[z]) /\ j - d[z] = i /\ queue'[z][i] = queue[z][j]
          /\ z = s => j > 1
      <3>1. PICK e, m, n : e = d[z] /\ m = Len(queue'[z]) /\ n = Len(queue[z])
        BY Zenon
      <3>2. /\ e \in {0, 1} /\ (z = s => e = 1) /\ m \in Nat /\ n \in Nat /\ m = n - e
            /\ i \in 1 .. m /\ j = i + e /\ queue'[z][i] = queue[z][j]
        BY <1>1, <2>1, <3>1, Zenon DEF Pop
      <3>3. j \in Int /\ j \in 1 .. n /\ j - e = i /\ (z = s => j > 1)
        BY ONLY <3>2, SMT
      <3> QED
        BY <3>1, <3>2, <3>3, Zenon
    <2>3. InPlace(z, j) /\ queue[z][j] \in Item
      BY <2>2, Lengths, SMT DEF QueueInv
    <2>4. ASSUME queue[z][j].op = "kernel", NEW k \in Inputs(queue[z][j].kernel) PROVE BeforeAt(k, z, i)'
      <3>1. BeforeAt(k, z, j)
        BY <2>3, <2>4, Zenon DEF InPlace
      <3>2. BeforeAt(k, z, j - d[z])'
        BY <1>9, <2>2, <3>1, Zenon
      <3> QED
        BY <2>2, <3>2, Zenon
    <2>5. ASSUME queue[z][j].op = "record"
          PROVE  /\ queue[z][j].stream = z
                 /\ completed'[z][queue[z][j].thread] < queue[z][j].n
                 /\ queue[z][j].n <= recorded'[z][queue[z][j].thread]
                 /\ \A a \in 1 .. Len(queue'[z]) :
                      a < i /\ queue'[z][a].op = "record" /\ queue'[z][a].thread = queue[z][j].thread
                        => queue'[z][a].n < queue[z][j].n
      <3>1. PICK u \in Thread, n \in Nat : u = queue[z][j].thread /\ n = queue[z][j].n
        BY <2>3, <2>5, Zenon DEF Item
      <3>2. queue[z][j].stream = z /\ completed[z][u] < n /\ n <= recorded'[z][u]
        BY <1>4, <2>3, <2>5, <3>1, Zenon DEF InPlace
      <3>3. completed'[z][u] < n
        <4>1. CASE h.op = "record" /\ h.thread = u /\ z = s
          <5>1. completed'[s][u] = h.n
            BY <1>13, <4>1, SMT DEF QueueType
          <5>2. 1 < j
            BY <2>2, <4>1
          <5>3. queue[z][1].op = "record" /\ queue[z][1].thread = u /\ queue[z][1].n = h.n
            BY <1>2, <4>1, Zenon
          <5>4. h.n < n
            BY <1>3, <2>3, <2>5, <3>1, <4>1, <5>2, <5>3, Zenon DEF InPlace
          <5> QED
            BY <4>1, <5>1, <5>4, Zenon
        <4>2. CASE h.op = "record" /\ ~(h.thread = u /\ z = s)
          <5>1. completed'[z][u] = completed[z][u]
            BY <1>13, <4>2, SMT DEF QueueType
          <5> QED
            BY <3>2, <5>1, Zenon
        <4>3. CASE h.op # "record"
          BY <1>14, <3>2, <4>3, Zenon
        <4> QED
          BY <4>1, <4>2, <4>3, Zenon
      <3>4. ASSUME NEW a \in 1 .. Len(queue'[z]), a < i, queue'[z][a].op = "record", queue'[z][a].thread = u
            PROVE  queue'[z][a].n < n
        <4>1. PICK b \in Int : b = a + d[z]
          BY <1>1, SMT DEF Pop
        <4>2. b \in 1 .. Len(queue[z]) /\ b < j /\ queue'[z][a] = queue[z][b]
          <5>1. PICK e : e = d[z]
            BY Zenon
          <5>2. /\ e \in {0, 1} /\ Len(queue[z]) \in Nat /\ Len(queue'[z]) = Len(queue[z]) - e
                /\ queue'[z][a] = queue[z][a + e]
            BY <1>1, <5>1, Zenon DEF Pop
          <5>3. a + e \in 1 .. Len(queue[z]) /\ a + e < i + e
            BY ONLY <5>2, a \in 1 .. Len(queue'[z]), i \in 1 .. Len(queue'[z]), a < i, SMT
          <5> QED
            BY <2>1, <4>1, <5>1, <5>2, <5>3, Zenon
        <4> QED
          BY <2>3, <2>5, <3>1, <3>4, <4>2, Zenon DEF InPlace
      <3> QED
        BY <3>1, <3>2, <3>3, <3>4, Zenon
    <2>6. \A k : Inputs(k)' = Inputs(k)
      BY <1>4, PlanFixes, Zenon
    <2> QED
      BY <2>2, <2>4, <2>5, <2>6, Zenon DEF InPlace
  <1>18. \A k \in done' : Inputs(k)' \subseteq done'
    <2>1. ASSUME h.op = "kernel", NEW k \in Inputs(h.kernel) PROVE k \in done
      <3>1. BeforeAt(k, s, 1)
        BY <1>2, <1>3, <2>1, Zenon DEF InPlace
      <3>2. \A j \in 1 .. Len(queue[s]) : ~(j < 1)
        BY <1>1, SMT DEF Pop
      <3> QED
        BY <3>1, <3>2, Zenon DEF BeforeAt
    <2>2. \A k : Inputs(k)' = Inputs(k)
      BY <1>4, PlanFixes, Zenon
    <2>3. CASE h.op = "kernel"
      BY <1>4, <2>1, <2>2, <2>3, Zenon DEF QueueInv
    <2>4. CASE h.op # "kernel"
      <3>1. done' = done
        BY <1>4, <2>4
      <3> QED
        BY <2>2, <3>1, Zenon DEF QueueInv
    <2> QED
      BY <2>3, <2>4, Zenon
  <1> QED
    BY <1>12, <1>15, <1>16, <1>17, <1>18, Zenon DEF QueueInv

-----------------------------------------------------------------------------
(* The threads' steps. *)

\* The next thread still has what thread u left it to launch, or has launched it.
\* They are the type invariant, with what the streams may hold.
LEMMA Types == ASSUME QueueType, ControlType, DataType PROVE TypeOK
  <1>1. ASSUME NEW s \in Stream, NEW i \in 1 .. Len(queue[s]), queue[s][i].op = "kernel"
        PROVE  queue[s][i].kernel \in AllKernels
    <2>1. queue[s][i] \in Item
      BY Lengths, SMT
    <2> QED
      BY <1>1, <2>1, Zenon DEF Item
  <1>2. \A t \in Thread :
          /\ recv_hook[t] \in AllKernels \cup {None}
          /\ handles[t] \in (Thread \X (1 .. plan.layers)) \cup {None}
          /\ handle[t] \in (Thread \X (1 .. plan.layers)) \cup {None}
    BY Zenon DEF DataType
  <1> QED
    BY <1>1, <1>2, Zenon DEF TypeOK, ControlType, DataType

\* Nothing of thread u changes.
Same(u) ==
  /\ at'[u] = at[u] /\ state'[u] = state[u] /\ current_stream'[u] = current_stream[u]
  /\ handles'[u] = handles[u] /\ handle'[u] = handle[u] /\ (u \in contexts' <=> u \in contexts)
  /\ \A s \in Stream : recorded'[s][u] = recorded[s][u]

\* A thread that goes from one stage of its life to another, in the same place of
\* its program, can count on the same.
LEMMA Moved ==
  ASSUME plan' = plan, plan \in Plans, QueueType, OrderKept,
         NEW u \in Thread, ThreadInv(u), Ready(u), plan.mode = "ll" => HookSafe(u),
         at'[u] = at[u], current_stream'[u] = current_stream[u],
         handles'[u] = handles[u], handle'[u] = handle[u],
         \A s \in Stream : recorded'[s][u] = recorded[s][u],
         Present(u)' => Present(u), state'[u] = "yielded" => state[u] = "yielded",
         u \in contexts' <=> state'[u] \in {"barrier", "waiting", "running", "yielded"},
         main' = "start" => state'[u] = "new",
         state'[u] \in {"new", "starting", "barrier", "waiting"} => at[u] = 1
  PROVE  ThreadInv(u)' /\ Ready(u)'
  <1>1. Ready(u)'
    BY ReadyKept, Zenon
  <1>2. /\ layer(u)' = layer(u) /\ offset(u)' = offset(u) /\ op(u)' = op(u)
        /\ finished(u)' = finished(u)
    BY Stays, Zenon
  <1>3. ThreadInv(u)'
    BY <1>2, Zenon DEF ThreadInv, Yields
  <1> QED
    BY <1>1, <1>3

\* What holds of a thread still does when another one acts.
LEMMA Untouched ==
  ASSUME plan' = plan, plan \in Plans, QueueType, OrderKept, main' = "start" => main = "start",
         NEW u \in Thread, ThreadInv(u), Ready(u), Same(u), plan.mode = "ll" => HookSafe(u)
  PROVE  ThreadInv(u)' /\ Ready(u)'
  <1>1. /\ u \in contexts' <=> state'[u] \in {"barrier", "waiting", "running", "yielded"}
        /\ main' = "start" => state'[u] = "new"
        /\ state'[u] \in {"new", "starting", "barrier", "waiting"} => at[u] = 1
    BY Zenon DEF ThreadInv, Same
  <1>2. (Present(u)' => Present(u)) /\ (state'[u] = "yielded" => state[u] = "yielded")
    BY Zenon DEF Same, Present
  <1> QED
    BY <1>1, <1>2, Moved, Zenon DEF Same

\* A hook that stays is still the same half of a transfer.
LEMMA HookKept ==
  ASSUME plan' = plan, OrderKept, NEW u \in Thread, HookInv(u),
         recv_hook'[next(u)] # None =>
           recv_hook'[next(u)] = recv_hook[next(u)] /\ next(u) \in contexts' /\ HookPhase(u)'
  PROVE  HookInv(u)'
  <1> SUFFICES ASSUME recv_hook'[next(u)] # None
               PROVE  /\ plan.mode = "ll" /\ next(u) \in contexts' /\ HookPhase(u)'
                      /\ \E l \in 1 .. plan.layers :
                           \/ /\ recv_hook'[next(u)] = <<"recv_dispatch", u, l>>
                              /\ On(<<"dispatch", u, l>>, "compute")'
                           \/ /\ recv_hook'[next(u)] = <<"recv_combine", u, l>>
                              /\ On(<<"combine", u, l>>, "compute")'
    BY Zenon DEF HookInv, next
  <1>1. \A k : On(k, "compute") => On(k, "compute")'
    BY Zenon DEF OrderKept, Stream
  <1> QED
    BY <1>1, Zenon DEF HookInv

\* When a thread runs, only its own hook and the one it has just registered are set.
LEMMA HooksOfRunning ==
  ASSUME OneToken, NEW t \in Thread, state[t] = "running", NEW u \in Thread, HookInv(u),
         recv_hook[next(u)] # None
  PROVE  \/ u = t /\ offset(t) \in {5, 12}
         \/ next(u) = t /\ offset(t) \in {1, 2, 6, 7, 8}
  <1>1. HookPhase(u) /\ next(u) \in Thread
    BY Ring, Zenon DEF HookInv
  <1>2. HasToken(t) /\ \A v \in Thread : HasToken(v) => v = t
    BY Zenon DEF OneToken, HasToken
  <1>3. ~event[t]
    BY Zenon DEF OneToken
  <1> QED
    BY <1>1, <1>2, <1>3, Zenon DEF HookPhase, HasToken

\* When a thread is woken, only its own hook is set.
LEMMA HooksOfWoken ==
  ASSUME OneToken, NEW t \in Thread, event[t], state[t] # "running", NEW u \in Thread, HookInv(u),
         recv_hook[next(u)] # None
  PROVE  next(u) = t
  <1>1. HookPhase(u) /\ next(u) \in Thread
    BY Ring, Zenon DEF HookInv
  <1>2. \A v \in Thread : HasToken(v) => v = t
    BY Zenon DEF OneToken, HasToken
  <1> QED
    BY <1>1, <1>2, Zenon DEF HookPhase, HasToken

\* A step that leaves the streams alone.
LEMMA Quiet ==
  ASSUME QueueType, QueueInv, plan' = plan, UNCHANGED gpu
  PROVE  QueueType' /\ QueueInv' /\ OrderKept
  <1>1. QueueType'
    BY PlanFixes, Zenon DEF QueueType, gpu
  <1>2. \A s \in Stream : Len(queue[s]) \in Nat
    BY Lengths
  <1>3. Grows
    BY <1>2, SMT DEF Grows, gpu
  <1>4. \A s \in Stream : \A i \in 1 .. Len(queue'[s]) : ~(i > Len(queue[s]))
    BY <1>2, SMT DEF gpu
  <1>5. \A s \in Stream, u \in Thread : recorded[s][u] <= recorded'[s][u]
    BY SMT DEF QueueType, gpu
  <1>6. completed' = completed
    BY Zenon DEF gpu
  <1> QED
    BY <1>1, <1>3, <1>4, <1>5, <1>6, GrowthInPlace, Zenon

\* The parts of the invariant after a step.
LEMMA Together ==
  ASSUME OrderInv, Inv', plan' = plan, ~asserted', QueueType', QueueInv', ControlType', DataType',
         \A u \in Thread : ThreadInv(u)' /\ Ready(u)' /\ HookInv(u)'
  PROVE  OrderInv'
  BY Zenon DEF OrderInv

\* What the invariant says of the parts, and of each thread.
LEMMA Parts ==
  ASSUME OrderInv
  PROVE  /\ Inv /\ OneToken /\ TypeOK /\ ControlType /\ DataType /\ plan \in Plans /\ ~asserted
         /\ QueueType /\ QueueInv
         /\ \A u \in Thread : ThreadInv(u) /\ Ready(u) /\ HookInv(u) /\ next(u) \in Thread
  BY Types, Ring, Zenon DEF OrderInv, Inv

\* Hooks that stay are as safe as they were.
LEMMA HooksStay ==
  ASSUME NEW u, recv_hook' = recv_hook
  PROVE  HookSafe(u)
  BY Zenon DEF HookSafe

\* What is on a stream, or has run, runs before what is put there.
LEMMA OnBefore == ASSUME QueueType, NEW s \in Stream, NEW k, On(k, s) PROVE Before(k, s)
  <1>1. \A i \in 1 .. Len(queue[s]) : i < Len(queue[s]) + 1
    BY Lengths, SMT
  <1> QED
    BY <1>1, Zenon DEF On, Before, BeforeAt

-----------------------------------------------------------------------------
(* A thread at an operation of its program. *)

\* An Advance stays within the program.
LEMMA AdvanceType ==
  ASSUME OrderInv, NEW t \in Thread, ~finished(t), plan' = plan, Advance(t)
  PROVE  /\ at' \in [Thread -> 1 .. plan'.layers * Len(layer_program') + 2]
         /\ at'[t] = at[t] + 1 /\ \A u \in Thread \ {t} : at'[u] = at[u]
  <1> USE Parts
  <1>1. layer_program' = layer_program
    BY Zenon DEF layer_program
  <1>2. PICK m : m = plan.layers * Len(layer_program)
    BY Zenon
  <1>3. m \in Nat
    BY <1>2, Program, SMT DEF Size
  <1>4. at \in [Thread -> 1 .. m + 2] /\ ~(at[t] > m + 1) /\ at' = [at EXCEPT ![t] = @ + 1]
    BY <1>2, Zenon DEF ControlType, finished, Advance
  <1>5. /\ at' \in [Thread -> 1 .. m + 2]
        /\ at'[t] = at[t] + 1 /\ \A u \in Thread \ {t} : at'[u] = at[u]
    BY ONLY <1>3, <1>4, t \in Thread, SMT
  <1> QED
    BY <1>1, <1>2, <1>5, Zenon

\* What is so of a thread that runs an operation.
LEMMA RunsAt ==
  ASSUME OrderInv, NEW t \in Thread, NEW what, Runs(t, what)
  PROVE  /\ state[t] = "running" /\ ~finished(t) /\ op(t) \in what /\ t \in contexts
         /\ dbo_current_ubatch_id(t) = t /\ Present(t) /\ main # "start"
         /\ \/ layer(t) = plan.layers + 1 /\ offset(t) = 1 /\ op(t) = "norm"
            \/ /\ layer(t) \in 1 .. plan.layers /\ offset(t) \in 1 .. Size
               /\ plan.mode = "ht" => HtOp(offset(t), op(t)) /\ HtReady(t, layer(t), offset(t))
               /\ plan.mode = "ll" => LlOp(offset(t), op(t)) /\ LlReady(t, layer(t), offset(t))
  <1> USE Parts
  <1>1. state[t] = "running" /\ ~finished(t) /\ op(t) \in what
    BY Zenon DEF Runs
  <1>2. t \in contexts /\ main # "start" /\ Present(t)
    BY <1>1, Zenon DEF ThreadInv, Present
  <1>3. dbo_current_ubatch_id(t) = t
    BY <1>2, Zenon DEF dbo_current_ubatch_id
  <1>4. /\ plan.mode = "ht" => HtReady(t, layer(t), offset(t))
        /\ plan.mode = "ll" => LlReady(t, layer(t), offset(t))
    BY <1>1, <1>2, Zenon DEF Ready
  <1> QED
    BY <1>1, <1>2, <1>3, <1>4, Operations, Zenon

\* A running thread that neither yields nor runs its hook leaves the hooks in order.
LEMMA PlainHooks ==
  ASSUME OrderInv, NEW t \in Thread, NEW what, Runs(t, what), what \cap (Yields \cup {"run_hook"}) = {},
         plan' = plan, at'[t] = at[t] + 1, ControlType', OrderKept,
         UNCHANGED <<recv_hook, contexts, state>>
  PROVE  \A u \in Thread : HookInv(u)'
  <1> USE Parts
  <1> SUFFICES ASSUME NEW u \in Thread PROVE HookInv(u)'
    OBVIOUS
  <1>1. ASSUME recv_hook[next(u)] # None PROVE HookPhase(u)' /\ next(u) \in contexts
    <2>1. /\ next(u) \in contexts /\ plan.mode = "ll"
          /\ \/ u = t /\ offset(t) \in {5, 12}
             \/ next(u) = t /\ offset(t) \in {1, 2, 6, 7, 8}
      BY <1>1, RunsAt, HooksOfRunning, Zenon DEF HookInv
    <2>2. op(t) \notin {"yield", "run_hook"} /\ Size = 12
      BY <2>1, RunsAt, Program, Zenon DEF Yields
    <2>3. next(u) = t /\ offset(t) \in {1, 6, 7}
      <3>1. offset(t) # 1 => LlOp(offset(t), op(t))
        BY <2>1, RunsAt, Zenon
      <3>2. offset(t) \in {1, 2, 5, 6, 7, 8, 12}
        BY <2>1, Zenon
      <3>3. offset(t) \in {1, 6, 7}
        BY <2>2, <3>1, <3>2, HookPlaces, Zenon
      <3>4. offset(t) \notin {5, 12}
        BY ONLY <3>3, SMT
      <3> QED
        BY <2>1, <3>3, <3>4, Zenon
    <2>4. offset(t) < Size
      BY ONLY <2>2, <2>3, SMT
    <2>5. offset(t)' = offset(t) + 1
      BY <2>4, Advanced, Zenon
    <2>6. offset(t)' \in {1, 2, 6, 7, 8}
      BY ONLY <2>3, <2>5, SMT
    <2>7. next(u)' = t /\ state'[t] = "running"
      BY <2>3, RunsAt, Zenon DEF next
    <2> QED
      BY <2>1, <2>6, <2>7, Zenon DEF HookPhase
  <1> QED
    BY <1>1, HookKept, Zenon

\* A kernel that is launched comes after its inputs on the thread's stream.
LEMMA LaunchInputs ==
  ASSUME OrderInv, NEW t \in Thread, Runs(t, Kernels), NEW k, k = <<op(t), t, layer(t)>>
  PROVE  /\ k \in AllKernels /\ current_stream[t] \in Stream
         /\ \A i \in Inputs(k) : Before(i, current_stream[t])
  <1> USE Parts
  <1>1. PICK l, o, p : l = layer(t) /\ o = offset(t) /\ p = op(t)
    BY Zenon
  <1>2. /\ ~finished(t) /\ p \in Kernels /\ k = <<p, t, l>> /\ Present(t)
        /\ plan.layers \in Nat \ {0} /\ plan.mode \in {"ht", "ll"}
        /\ \/ l = plan.layers + 1 /\ o = 1 /\ p = "norm"
           \/ /\ l \in 1 .. plan.layers
              /\ plan.mode = "ht" => HtOp(o, p) /\ HtReady(t, l, o)
              /\ plan.mode = "ll" => LlOp(o, p) /\ LlReady(t, l, o)
    BY <1>1, RunsAt, Program, Zenon
  <1>3. "compute" \in Stream /\ "comm" \in Stream /\ current_stream[t] \in Stream
    BY Zenon DEF Stream, ControlType
  <1>4. k \in AllKernels /\ l \in Nat /\ (l # 1 => l > 1)
    BY <1>2, KernelOf, Zenon
  <1>5. \A j, s : s \in Stream /\ On(j, s) => Before(j, s)
    BY OnBefore, Zenon
  <1>6. /\ plan.mode = "ll" => current_stream[t] = "compute"
        /\ plan.mode = "ht" =>
             current_stream[t] = IF o \in {3, 4, 8, 9, 12, 13} THEN "comm" ELSE "compute"
    BY <1>1, <1>2, Zenon DEF ThreadInv
  <1>7. ASSUME o = 1, p \in {"attention", "norm"}, NEW i \in Inputs(k) PROVE Before(i, current_stream[t])
    <2>1. current_stream[t] = "compute"
      BY <1>2, <1>6, <1>7, StreamAt, Zenon
    <2>2. /\ l > 1
          /\ \/ i = <<"shared", t, l - 1>>
             \/ plan.mode = "ht" /\ i = <<"copy", t, l - 1>>
             \/ plan.mode = "ll" /\ i = <<"recv_combine", t, l - 1>>
      <3>1. /\ l # 1
            /\ \/ i = <<"shared", t, l - 1>>
               \/ plan.mode = "ht" /\ i = <<"copy", t, l - 1>>
               \/ plan.mode # "ht" /\ i = <<"recv_combine", t, l - 1>>
        <4>1. InputFacts(t, l) /\ i \in Inputs(<<p, t, l>>)
          BY <1>2, <1>4, InputsOf, Zenon
        <4> QED
          BY <1>7, <4>1, Zenon DEF InputFacts
      <3> QED
        BY <1>2, <1>4, <3>1, Zenon
    <2>3. /\ plan.mode = "ht" => HtReady(t, l, o)
          /\ plan.mode = "ll" => LlReady(t, l, o)
      BY <1>1, <1>2, Zenon DEF Ready
    <2>4. CASE plan.mode = "ht"
      <3>1. Before(<<"copy", t, l - 1>>, "compute") /\ On(<<"shared", t, l - 1>>, "compute")
        BY <1>7, <2>2, <2>3, <2>4, Zenon DEF HtReady
      <3> QED
        BY <1>3, <1>5, <2>1, <2>2, <2>4, <3>1, Zenon
    <2>5. CASE plan.mode = "ll"
      <3>1. On(<<"recv_combine", t, l - 1>>, "compute") /\ On(<<"shared", t, l - 1>>, "compute")
        BY <1>7, <2>2, <2>3, <2>5, Zenon DEF LlReady
      <3> QED
        BY <1>3, <1>5, <2>1, <2>2, <2>5, <3>1, Zenon
    <2> QED
      BY <1>2, <2>4, <2>5, Zenon
  <1>8. ASSUME p \notin {"attention", "norm"}, plan.mode = "ht", NEW i \in Inputs(k)
        PROVE  Before(i, current_stream[t])
    <2>1. /\ HtReady(t, l, o)
          /\ \/ o = 3 /\ p = "dispatch" /\ i = <<"attention", t, l>>
             \/ o = 5 /\ p = "experts" /\ i = <<"dispatch", t, l>>
             \/ o = 8 /\ p = "combine" /\ i = <<"experts", t, l>>
             \/ o = 10 /\ p = "shared" /\ i = <<"attention", t, l>>
             \/ o = 12 /\ p = "copy" /\ i = <<"combine", t, l>>
      <3>1. /\ HtReady(t, l, o)
            /\ \/ (o = 3 /\ p = "dispatch") \/ (o = 5 /\ p = "experts") \/ (o = 8 /\ p = "combine")
               \/ (o = 10 /\ p = "shared") \/ (o = 12 /\ p = "copy")
        BY <1>2, <1>8, Zenon DEF HtOp, Kernels
      <3>2. InputFacts(t, l) /\ i \in Inputs(<<p, t, l>>)
        BY <1>2, <1>4, InputsOf, Zenon
      <3> QED
        BY <1>8, <3>1, <3>2, Zenon DEF InputFacts
    <2>2. \/ current_stream[t] = "comm" /\ (Before(i, "comm") \/ On(i, "comm"))
          \/ current_stream[t] = "compute" /\ (Before(i, "compute") \/ On(i, "compute"))
      <3>1. \/ o \in {3, 8, 12, 13} /\ (Before(i, "comm") \/ On(i, "comm"))
            \/ o \in {1, 2, 5, 7, 10} /\ (Before(i, "compute") \/ On(i, "compute"))
        BY <2>1, HtInputs, Zenon
      <3>2. /\ o \in {3, 8, 12, 13} => current_stream[t] = "comm"
            /\ o \in {1, 2, 5, 7, 10} => current_stream[t] = "compute"
        BY <1>6, <1>8, StreamAt, Zenon
      <3> QED
        BY <3>1, <3>2, Zenon
    <2> QED
      BY <1>3, <1>5, <2>2, Zenon
  <1>9. ASSUME p \notin {"attention", "norm"}, plan.mode = "ll", NEW i \in Inputs(k)
        PROVE  Before(i, current_stream[t])
    <2>1. /\ LlReady(t, l, o)
          /\ \/ o = 3 /\ p = "dispatch" /\ i = <<"attention", t, l>>
             \/ o = 6 /\ p = "experts" /\ i = <<"recv_dispatch", t, l>>
             \/ o = 9 /\ p = "combine" /\ i = <<"experts", t, l>>
             \/ o = 10 /\ p = "shared" /\ i = <<"attention", t, l>>
      <3>1. /\ LlReady(t, l, o)
            /\ \/ (o = 3 /\ p = "dispatch") \/ (o = 6 /\ p = "experts") \/ (o = 9 /\ p = "combine")
               \/ (o = 10 /\ p = "shared")
        BY <1>2, <1>9, Zenon DEF LlOp, Kernels
      <3>2. InputFacts(t, l) /\ i \in Inputs(<<p, t, l>>)
        BY <1>2, <1>4, InputsOf, Zenon
      <3> QED
        BY <1>9, <3>1, <3>2, Zenon DEF InputFacts
    <2>2. On(i, "compute")
      BY <2>1, LlInputs, Zenon
    <2> QED
      BY <1>3, <1>5, <1>6, <1>9, <2>2, Zenon
  <1>10. p \in {"attention", "norm"} => o = 1
    BY <1>2, Zenon DEF HtOp, LlOp
  <1> QED
    BY <1>2, <1>3, <1>4, <1>7, <1>8, <1>9, <1>10, Zenon

\* Where the yields are, and the streams they leave and go on with.
LEMMA YieldsAt ==
  ASSUME OrderInv, NEW t \in Thread, state[t] \in {"running", "yielded"}, ~finished(t), op(t) \in Yields
  PROVE  /\ layer(t) \in 1 .. plan.layers /\ t \in contexts /\ main # "start" /\ Present(t)
         /\ current_stream[t] = from_stream(t)
         /\ \/ /\ plan.mode = "ht" /\ op(t) = "yield_to_comm" /\ offset(t) \in {2, 7}
               /\ from_stream(t) = "compute" /\ to_stream(t) = "comm"
            \/ /\ plan.mode = "ht" /\ op(t) = "yield_to_compute" /\ offset(t) = 13
               /\ from_stream(t) = "comm" /\ to_stream(t) = "compute"
            \/ /\ plan.mode = "ll" /\ op(t) = "yield" /\ offset(t) \in {5, 12}
               /\ from_stream(t) = "compute" /\ to_stream(t) = "compute"
  <1> USE Parts
  <1>1. PICK l, o, p : l = layer(t) /\ o = offset(t) /\ p = op(t)
    BY Zenon
  <1>2. t \in contexts /\ main # "start" /\ Present(t)
    BY Zenon DEF ThreadInv, Present
  <1>3. /\ plan.mode \in {"ht", "ll"}
        /\ \/ p = "norm"
           \/ /\ l \in 1 .. plan.layers
              /\ plan.mode = "ht" => HtOp(o, p)
              /\ plan.mode = "ll" => LlOp(o, p)
    BY <1>1, Operations, Program, Zenon
  <1>4. /\ plan.mode = "ht" =>
             current_stream[t] = IF o \in {3, 4, 8, 9, 12, 13} THEN "comm" ELSE "compute"
        /\ plan.mode = "ll" => current_stream[t] = "compute"
    BY <1>1, <1>2, Zenon DEF ThreadInv
  <1>5. /\ l \in 1 .. plan.layers
        /\ \/ plan.mode = "ht" /\ p = "yield_to_comm" /\ o \in {2, 7}
           \/ plan.mode = "ht" /\ p = "yield_to_compute" /\ o = 13
           \/ plan.mode = "ll" /\ p = "yield" /\ o \in {5, 12}
    BY <1>1, <1>3, Zenon DEF HtOp, LlOp, Yields
  <1>6. /\ p = "yield_to_comm" => from_stream(t) = "compute" /\ to_stream(t) = "comm"
        /\ p = "yield_to_compute" => from_stream(t) = "comm" /\ to_stream(t) = "compute"
        /\ p = "yield" => from_stream(t) = current_stream[t] /\ to_stream(t) = current_stream[t]
    BY <1>1, Zenon DEF from_stream, to_stream
  <1>7. /\ plan.mode = "ht" /\ o \in {2, 7} => current_stream[t] = "compute"
        /\ plan.mode = "ht" /\ o = 13 => current_stream[t] = "comm"
    BY <1>4, StreamAt, Zenon
  <1> QED
    BY <1>1, <1>2, <1>4, <1>5, <1>6, <1>7, Zenon

=============================================================================
