------------------------ MODULE UbatchingOrderProofs ------------------------
(***************************************************************************)
(* The GPU runs a kernel only after those whose outputs it reads, for any  *)
(* number of micro-batches and layers, with either back end and whatever   *)
(* raises: every step of the threads and of the GPU keeps OrderInv.        *)
(***************************************************************************)
EXTENDS UbatchingProofs

-----------------------------------------------------------------------------
(* The first states. *)

\* Before a pass the streams are empty and every thread is at its beginning.
LEMMA InitOrder == Init => OrderInv
  <1> SUFFICES ASSUME Init PROVE OrderInv
    OBVIOUS
  <1>1. plan \in Plans /\ ~asserted /\ Inv
    BY InitInv, Zenon DEF Init
  <1>2. plan.layers \in Nat \ {0} /\ Len(layer_program) \in {12, 13} /\ plan.mode \in {"ht", "ll"}
    BY <1>1, Program, Zenon DEF Size
  <1>3. ControlType
    <2>1. at \in [Thread -> 1 .. plan.layers * Len(layer_program) + 2]
      <3>1. PICK m : m = plan.layers * Len(layer_program)
        BY Zenon
      <3>2. m \in Nat
        BY <1>2, <3>1, SMT
      <3>3. 1 \in 1 .. m + 2
        BY <3>2, SMT
      <3> QED
        BY <3>1, <3>3, Zenon DEF Init
    <2> QED
      BY <2>1, Zenon DEF Init, ControlType, Stream
  <1>4. DataType
    BY Zenon DEF Init, DataType
  <1>5. QueueType
    <2>1. <<>> \in Seq(Item) /\ 0 \in Nat
      BY SMT
    <2> QED
      BY <2>1, Zenon DEF Init, QueueType
  <1>6. QueueInv
    BY SMT DEF Init, QueueInv
  <1>7. ASSUME NEW t \in Thread PROVE ThreadInv(t) /\ Ready(t) /\ HookInv(t)
    <2>1. /\ state[t] = "new" /\ at[t] = 1 /\ current_stream[t] = "compute" /\ contexts = {}
          /\ recv_hook = [u \in Thread |-> None] /\ next(t) \in Thread
      BY <1>7, Ring, Zenon DEF Init
    <2>2. offset(t) = 1 /\ layer(t) = 1
      <3>1. PICK n \in {12, 13} : n = Len(layer_program)
        BY <1>2, Zenon
      <3>2. ((1 - 1) % n) + 1 = 1 /\ (1 - 1) \div n + 1 = 1
        BY ONLY n \in {12, 13}, SMT
      <3> QED
        BY <2>1, <3>1, <3>2, Zenon DEF offset, layer
    <2>3. ThreadInv(t)
      BY <1>2, <2>1, <2>2, SMT DEF ThreadInv
    <2>4. HtReady(t, 1, 1) /\ LlReady(t, 1, 1)
      BY SMT DEF HtReady, LlReady
    <2>5. Ready(t)
      BY <2>2, <2>4, Zenon DEF Ready
    <2>6. HookInv(t)
      BY <2>1, Zenon DEF HookInv
    <2> QED
      BY <2>3, <2>5, <2>6
  <1> QED
    BY <1>1, <1>3, <1>4, <1>5, <1>6, <1>7, Zenon DEF OrderInv

-----------------------------------------------------------------------------
(* Steps that leave the threads where they are in their programs. *)

\* What a stage of a thread's life allows.
Stage(u) ==
  /\ Present(u)' => Present(u)
  /\ state'[u] = "yielded" => state[u] = "yielded"
  /\ u \in contexts' <=> state'[u] \in {"barrier", "waiting", "running", "yielded"}
  /\ main' = "start" => state'[u] = "new"
  /\ state'[u] \in {"new", "starting", "barrier", "waiting"} => at[u] = 1

\* A step in which the threads stay where they are in their programs and nothing
\* is put on the streams.
LEMMA OrderStage ==
  ASSUME OrderInv, Inv', plan' = plan, ControlType',
         UNCHANGED <<at, current_stream, recv_hook, handles, handle, asserted, gpu>>,
         \A u \in Thread : Stage(u),
         \A u \in Thread : recv_hook[next(u)] # None /\ HookPhase(u) => next(u) \in contexts' /\ HookPhase(u)'
  PROVE  OrderInv'
  <1> USE Parts
  <1>1. QueueType' /\ QueueInv' /\ OrderKept
    BY Quiet, Zenon
  <1>2. DataType'
    BY PlanFixes, Zenon DEF DataType, gpu
  <1>3. ASSUME NEW u \in Thread PROVE ThreadInv(u)' /\ Ready(u)' /\ HookInv(u)'
    <2>1. \A s \in Stream : recorded'[s][u] = recorded[s][u]
      BY Zenon DEF gpu
    <2>2. ThreadInv(u)' /\ Ready(u)'
      BY <1>1, <2>1, HooksStay, Moved, Zenon DEF Stage
    <2>3. HookInv(u)'
      BY <1>1, HookKept, Zenon DEF HookInv
    <2> QED
      BY <2>2, <2>3
  <1> QED
    BY <1>1, <1>2, <1>3, Together, Zenon

-----------------------------------------------------------------------------
(* A thread goes on with its program. *)

\* A step of one thread: what has to be shown of it, and of the hooks.
LEMMA OrderThread ==
  ASSUME OrderInv, Inv', plan' = plan, main' = main, ~asserted',
         ControlType', DataType', QueueType', QueueInv', OrderKept,
         NEW t \in Thread, ThreadInv(t)', Ready(t)',
         \A u \in Thread \ {t} : Same(u) /\ (plan.mode = "ll" => HookSafe(u)),
         \A u \in Thread : HookInv(u)'
  PROVE  OrderInv'
  <1>1. ASSUME NEW u \in Thread, u # t PROVE ThreadInv(u)' /\ Ready(u)'
    BY <1>1, Parts, Untouched, Zenon
  <1> QED
    BY <1>1, Together, Zenon

\* What an operation leaves, in its layer.
Gives(t, l, o) ==
  /\ plan.mode = "ht" => HtGives(t, l, o)
  /\ plan.mode = "ll" => LlGives(t, l, o)
  /\ plan.mode = "ht" => current_stream'[t] = IF o \in {2, 3, 7, 8, 11, 12} THEN "comm" ELSE "compute"
  /\ o >= 3 => handles'[t] = <<t, l>>
  /\ o \in (IF plan.mode = "ht" THEN {6, 7} ELSE {7, 8}) => handle'[t] = <<t, l>>

\* A thread that has done an operation can count on what it needs for the next.
LEMMA GoesOn ==
  ASSUME OrderInv, plan' = plan, main' = main, ControlType', OrderKept,
         NEW t \in Thread, state[t] \in {"running", "yielded"}, ~finished(t), at'[t] = at[t] + 1,
         state'[t] = "running", t \in contexts', plan.mode = "ll" => current_stream'[t] = "compute",
         layer(t) <= plan.layers => Gives(t, layer(t), offset(t))
  PROVE  ThreadInv(t)' /\ Ready(t)'
  <1> USE Parts
  <1>1. PICK l, o, n : l = layer(t) /\ o = offset(t) /\ n = Size
    BY Zenon
  <1>2. /\ plan.layers \in Nat \ {0} /\ l \in 1 .. plan.layers + 1 /\ o \in 1 .. n
        /\ (plan.mode = "ht" /\ n = 13) \/ (plan.mode = "ll" /\ n = 12)
    BY <1>1, Places, Program, Zenon DEF PlaceFacts, Place
  <1>3. IF o < n THEN layer(t)' = l /\ offset(t)' = o + 1 ELSE layer(t)' = l + 1 /\ offset(t)' = 1
    BY <1>1, Advanced, Zenon
  <1>4. finished(t)' <=> layer(t)' = plan.layers + 1 /\ offset(t)' > 1
    BY Places, Zenon DEF PlaceFacts, Place
  <1>5. main # "start"
    BY Zenon DEF ThreadInv
  <1>6. CASE l = plan.layers + 1
    <2>1. o = 1
      <3>1. ~(o > 1)
        BY <1>1, <1>6, Places, Zenon DEF PlaceFacts, Place
      <3> QED
        BY ONLY <1>2, <3>1, SMT
    <2>2. finished(t)'
      BY <1>2, <1>3, <1>4, <1>6, <2>1, SMT
    <2>3. Ready(t)'
      BY <2>2, Zenon DEF Ready
    <2>4. ThreadInv(t)'
      BY <1>5, <2>2, Zenon DEF ThreadInv
    <2> QED
      BY <2>3, <2>4
  <1>7. CASE l <= plan.layers
    <2>1. Gives(t, l, o) /\ Ready(t) /\ Present(t)
      BY <1>1, <1>7 DEF Present
    <2>2. CASE plan.mode = "ht"
      <3>1. n = 13 /\ HtReady(t, l, o)
        BY <1>1, <1>2, <2>1, <2>2, Zenon DEF Ready
      <3>2. l \in Nat /\ o \in 1 .. 13
        BY <1>2, <3>1, SMT
      <3>3. IF o < 13 THEN HtReady(t, l, o + 1)' ELSE HtReady(t, l + 1, 1)'
        BY <2>1, <2>2, <3>1, <3>2, HtNext, Zenon DEF Gives
      <3>4. HtReady(t, layer(t), offset(t))'
        BY <1>3, <3>1, <3>3, Zenon
      <3>5. Ready(t)'
        BY <2>2, <3>4, Zenon DEF Ready
      <3>6. ThreadInv(t)'
        <4>1. /\ current_stream'[t] = IF o \in {2, 3, 7, 8, 11, 12} THEN "comm" ELSE "compute"
              /\ o >= 3 => handles'[t] = <<t, l>>
              /\ o \in {6, 7} => handle'[t] = <<t, l>>
          BY <2>1, <2>2, Zenon DEF Gives
        <4>2. PICK m, p : m = layer(t)' /\ p = offset(t)'
          BY Zenon
        <4>3. /\ current_stream'[t] = IF p \in {3, 4, 8, 9, 12, 13} THEN "comm" ELSE "compute"
              /\ p >= 4 => handles'[t] = <<t, m>>
              /\ p \in {7, 8} => handle'[t] = <<t, m>>
          <5>1. IF o < 13 THEN m = l /\ p = o + 1 ELSE m = l + 1 /\ p = 1
            BY <1>3, <3>1, <4>2, Zenon
          <5>2. CASE o < 13
            <6>1. m = l /\ p = o + 1
              BY <5>1, <5>2, Zenon
            <6>2. /\ p >= 4 => o >= 3
                  /\ p \in {7, 8} => o \in {6, 7}
                  /\ p \in {3, 4, 8, 9, 12, 13} <=> o \in {2, 3, 7, 8, 11, 12}
              BY ONLY <3>2, <6>1, SMT
            <6> QED
              BY <4>1, <6>1, <6>2, Zenon
          <5>3. CASE ~(o < 13)
            <6>1. o \notin {2, 3, 7, 8, 11, 12} /\ p = 1
              BY ONLY <3>2, <5>1, <5>3, SMT
            <6>2. ~(p >= 4) /\ p \notin {7, 8} /\ p \notin {3, 4, 8, 9, 12, 13}
              BY ONLY <6>1, SMT
            <6> QED
              BY <4>1, <6>1, <6>2, Zenon
          <5> QED
            BY <5>2, <5>3, Zenon
        <4> QED
          BY <1>5, <2>2, <4>2, <4>3, Zenon DEF ThreadInv
      <3> QED
        BY <3>5, <3>6
    <2>3. CASE plan.mode = "ll"
      <3>1. n = 12 /\ LlReady(t, l, o)
        BY <1>1, <1>2, <2>1, <2>3, Zenon DEF Ready
      <3>2. l \in Nat /\ o \in 1 .. 12
        BY <1>2, <3>1, SMT
      <3>3. IF o < 12 THEN LlReady(t, l, o + 1)' ELSE LlReady(t, l + 1, 1)'
        BY <2>1, <2>3, <3>1, <3>2, LlNext, Zenon DEF Gives
      <3>4. LlReady(t, layer(t), offset(t))'
        BY <1>3, <3>1, <3>3, Zenon
      <3>5. Ready(t)'
        BY <2>3, <3>4, Zenon DEF Ready
      <3>6. ThreadInv(t)'
        <4>1. /\ o >= 3 => handles'[t] = <<t, l>>
              /\ o \in {7, 8} => handle'[t] = <<t, l>>
          BY <2>1, <2>3, Zenon DEF Gives
        <4>2. PICK m, p : m = layer(t)' /\ p = offset(t)'
          BY Zenon
        <4>3. /\ p >= 4 => handles'[t] = <<t, m>>
              /\ p \in {8, 9} => handle'[t] = <<t, m>>
          <5>1. IF o < 12 THEN m = l /\ p = o + 1 ELSE m = l + 1 /\ p = 1
            BY <1>3, <3>1, <4>2, Zenon
          <5>2. /\ p >= 4 => o >= 3 /\ m = l
                /\ p \in {8, 9} => o \in {7, 8} /\ m = l
            BY ONLY <3>2, <5>1, SMT
          <5> QED
            BY <4>1, <5>2, Zenon
        <4> QED
          BY <1>5, <2>3, <4>2, <4>3, Zenon DEF ThreadInv
      <3> QED
        BY <3>5, <3>6
    <2> QED
      BY <1>2, <2>2, <2>3, Zenon
  <1> QED
    BY <1>2, <1>6, <1>7, SMT

\* A yield until the thread sleeps: its assertions hold, and the event it records
\* marks all that it has launched on the stream it leaves.
LEMMA OrderYieldSignal ==
  ASSUME OrderInv, Inv', NEW t \in Thread, yield_signal(t)
  PROVE  OrderInv'
  <1> USE Parts
  <1>1. PICK l, o, s : l = layer(t) /\ o = offset(t) /\ s = from_stream(t)
    BY Zenon
  <1>2. state[t] = "running" /\ ~finished(t) /\ op(t) \in Yields
    BY Zenon DEF yield_signal, Runs
  <1>3. /\ l \in 1 .. plan.layers /\ t \in contexts /\ main # "start" /\ Present(t)
        /\ current_stream[t] = s
        /\ \/ plan.mode = "ht" /\ op(t) # "yield" /\ o \in {2, 7} /\ s = "compute"
           \/ plan.mode = "ht" /\ op(t) # "yield" /\ o = 13 /\ s = "comm"
           \/ plan.mode = "ll" /\ op(t) = "yield" /\ o \in {5, 12} /\ s = "compute"
    BY <1>1, <1>2, YieldsAt, Zenon
  <1>4. forward_context = t /\ ~event[t]
    BY <1>2, Zenon DEF OneToken
  <1>5. /\ plan' = plan /\ state' = [state EXCEPT ![t] = "yielded"]
        /\ event' = [event EXCEPT ![next(t)] = TRUE]
        /\ IF op(t) = "yield" THEN UNCHANGED <<queue, recorded>>
           ELSE /\ queue' = Enqueue(s, <<Record(s, t)>>)
                /\ recorded' = [recorded EXCEPT ![s][t] = @ + 1]
        /\ UNCHANGED <<raised, asserted>>
        /\ UNCHANGED <<main, results, at, contexts, forward_context, current_stream, recv_hook,
                       handles, handle, completed, done>>
    BY <1>1, <1>3, <1>4, Zenon DEF yield_signal
  <1>6. s \in Stream
    BY <1>3, Zenon DEF Stream
  <1>7. /\ QueueType' /\ QueueInv' /\ OrderKept
        /\ op(t) # "yield" => \A k : On(k, s) => Reached(k, s, t, recorded[s][t])'
        /\ \A u \in Thread \ {t}, z \in Stream : recorded'[z][u] = recorded[z][u]
    <2>1. CASE op(t) = "yield"
      <3>1. UNCHANGED gpu
        BY <1>5, <2>1, Zenon DEF gpu
      <3> QED
        BY <1>5, <2>1, <3>1, Quiet, Zenon DEF gpu
    <2>2. CASE op(t) # "yield"
      <3>1. /\ queue' = Enqueue(s, <<Record(s, t)>>)
            /\ recorded' = [recorded EXCEPT ![s][t] = @ + 1]
        BY <1>5, <2>2, Zenon
      <3>2. \A u \in Thread \ {t}, z \in Stream : recorded'[z][u] = recorded[z][u]
        BY <1>6, <3>1, Zenon DEF QueueType
      <3> QED
        BY <1>5, <1>6, <3>1, <3>2, RecordPut, Zenon
    <2> QED
      BY <2>1, <2>2, Zenon
  <1>8. /\ state'[t] = "yielded" /\ event'[next(t)]
        /\ \A u \in Thread \ {t} : state'[u] = state[u]
    BY <1>5, Zenon DEF ControlType
  <1>9. ControlType'
    BY <1>5, Zenon DEF ControlType, layer_program
  <1>10. DataType'
    BY <1>5, PlanFixes, Zenon DEF DataType
  <1>11. /\ layer(t)' = l /\ offset(t)' = o /\ op(t)' = op(t) /\ ~finished(t)'
    BY <1>1, <1>2, <1>5, Stays, Zenon
  <1>12. ThreadInv(t)'
    <2>1. ThreadInv(t)
      BY Zenon
    <2> QED
      BY <1>1, <1>2, <1>3, <1>5, <1>8, <1>11, <2>1, SMT DEF ThreadInv, Present, Yields
  <1>13. Ready(t)'
    <2>1. Ready(t)
      BY Zenon
    <2>2. /\ \A k : On(k, "compute") => On(k, "compute")'
          /\ \A k : On(k, "comm") => On(k, "comm")'
      BY <1>7, Zenon DEF OrderKept, Stream
    <2>3. CASE plan.mode = "ht"
      <3>1. HtReady(t, l, o)
        BY <1>1, <1>2, <1>3, <2>1, <2>3, Zenon DEF Ready
      <3>2. /\ o \in {2, 7, 13} /\ op(t) # "yield"
            /\ o \in {2, 7} => s = "compute"
            /\ o = 13 => s = "comm"
        BY ONLY <1>3, <2>3, SMT
      <3>3. /\ o \in {2, 7} => \A k : On(k, "compute") => Reached(k, "compute", t, recorded["compute"][t])'
            /\ o = 13 => \A k : On(k, "comm") => Reached(k, "comm", t, recorded["comm"][t])'
        BY <1>7, <3>2, ZenonT(30)
      <3>4. HtReady(t, l, o)'
        BY <2>2, <3>1, <3>2, <3>3, SMTT(30) DEF HtReady
      <3> QED
        BY <1>5, <1>11, <2>3, <3>4, Zenon DEF Ready
    <2>4. CASE plan.mode = "ll"
      <3>1. LlReady(t, l, o) /\ plan.mode # "ht"
        BY <1>1, <1>2, <1>3, <2>1, <2>4, Zenon DEF Ready
      <3>2. LlReady(t, l, o)'
        BY <1>3, <1>5, <2>2, <3>1, SMTT(30) DEF LlReady, next
      <3> QED
        BY <1>5, <1>11, <3>1, <3>2, Zenon DEF Ready
    <2> QED
      BY <1>3, <2>3, <2>4, Zenon
  <1>14. ASSUME NEW u \in Thread, u # t PROVE Same(u) /\ HookSafe(u)
    BY <1>5, <1>7, <1>8, <1>14, HooksStay, Zenon DEF Same
  <1>15. ASSUME NEW u \in Thread PROVE HookInv(u)'
    <2>1. ASSUME recv_hook[next(u)] # None PROVE HookPhase(u)' /\ next(u) \in contexts
      <3>1. plan.mode = "ll" /\ next(u) \in contexts
        BY <2>1, Zenon DEF HookInv
      <3>2. o \notin {1, 2, 6, 7, 8}
        BY <1>3, <3>1, SMT
      <3>3. u = t
        BY <1>1, <1>2, <2>1, <3>2, HooksOfRunning, Zenon
      <3> QED
        BY <1>8, <3>1, <3>3, Zenon DEF HookPhase, next
    <2> QED
      BY <1>5, <1>7, <2>1, HookKept, Zenon
  <1>16. ~asserted'
    BY <1>5, Zenon
  <1> QED
    BY <1>5, <1>7, <1>9, <1>10, <1>12, <1>13, <1>14, <1>15, <1>16, OrderThread, Zenon

\* The rest of a yield: the stream the thread goes on with waits for what the
\* thread had launched on the one it left, and its hook has been launched.
LEMMA OrderYieldResume ==
  ASSUME OrderInv, Inv', NEW t \in Thread, yield_resume(t)
  PROVE  OrderInv'
  <1> USE Parts
  <1>1. PICK l, o, s, z : l = layer(t) /\ o = offset(t) /\ s = from_stream(t) /\ z = to_stream(t)
    BY Zenon
  <1>2. /\ state[t] = "yielded" /\ event[t] /\ plan' = plan /\ Advance(t)
        /\ event' = [event EXCEPT ![t] = FALSE] /\ state' = [state EXCEPT ![t] = "running"]
        /\ forward_context' = t /\ current_stream' = [current_stream EXCEPT ![t] = z]
        /\ queue' = Enqueue(z, yield_wait(t))
        /\ UNCHANGED <<main, results, contexts, recv_hook, handles, handle, raised, asserted,
                       recorded, completed, done>>
    BY <1>1, Zenon DEF yield_resume, woken_event
  <1>3. ~finished(t) /\ op(t) \in Yields
    BY <1>2, Zenon DEF ThreadInv
  <1>4. /\ l \in 1 .. plan.layers /\ t \in contexts /\ Present(t)
        /\ \/ plan.mode = "ht" /\ op(t) # "yield" /\ o \in {2, 7} /\ s = "compute" /\ z = "comm"
           \/ plan.mode = "ht" /\ op(t) # "yield" /\ o = 13 /\ s = "comm" /\ z = "compute"
           \/ plan.mode = "ll" /\ op(t) = "yield" /\ o \in {5, 12} /\ z = "compute"
    BY <1>1, <1>2, <1>3, YieldsAt, Zenon
  <1>5. z \in Stream /\ (op(t) # "yield" => s \in Stream)
    BY <1>4, Zenon DEF Stream
  <1>6. /\ QueueType' /\ QueueInv' /\ OrderKept
        /\ op(t) # "yield" => \A k : Reached(k, s, t, recorded[s][t]) => Before(k, z)'
    <2>1. CASE op(t) = "yield"
      <3>1. queue' = queue
        <4>1. queue' = [queue EXCEPT ![z] = queue[z] \o <<>>]
          BY <1>2, <2>1, Zenon DEF Enqueue, yield_wait
        <4>2. queue[z] \in Seq(Item)
          BY <1>5, Lengths, Zenon
        <4>3. queue[z] \o <<>> = queue[z]
          BY <4>2, SMT
        <4> QED
          BY <4>1, <4>3, Zenon DEF QueueType
      <3>2. UNCHANGED gpu
        BY <1>2, <3>1, Zenon DEF gpu
      <3> QED
        BY <1>2, <2>1, <3>2, Quiet, Zenon
    <2>2. CASE op(t) # "yield"
      <3>1. PICK n \in Nat : n = recorded[s][t]
        BY <1>5, <2>2, Zenon DEF QueueType
      <3>2. queue' = Enqueue(z, <<WaitFor(s, t, n)>>)
        BY <1>1, <1>2, <2>2, <3>1, Zenon DEF yield_wait
      <3> QED
        BY <1>2, <1>5, <2>2, <3>1, <3>2, WaitPut, Zenon
    <2> QED
      BY <2>1, <2>2, Zenon
  <1>7. /\ at' \in [Thread -> 1 .. plan'.layers * Len(layer_program') + 2]
        /\ at'[t] = at[t] + 1 /\ \A u \in Thread \ {t} : at'[u] = at[u]
    BY <1>2, <1>3, AdvanceType, Zenon
  <1>8. /\ state'[t] = "running" /\ current_stream'[t] = z
        /\ \A u \in Thread \ {t} : state'[u] = state[u] /\ current_stream'[u] = current_stream[u]
    BY <1>2, Zenon DEF ControlType
  <1>9. ControlType'
    <2>1. /\ state' \in [Thread -> {"new", "starting", "barrier", "waiting", "running", "yielded",
                                    "exiting", "done"}]
          /\ event' \in [Thread -> BOOLEAN] /\ current_stream' \in [Thread -> Stream]
      BY <1>2, <1>5, Zenon DEF ControlType
    <2> QED
      BY <1>2, <1>7, <2>1, Zenon DEF ControlType
  <1>10. DataType'
    BY <1>2, PlanFixes, Zenon DEF DataType
  <1>11. ASSUME NEW u \in Thread, u # t PROVE Same(u) /\ HookSafe(u)
    BY <1>2, <1>7, <1>8, <1>11, HooksStay, Zenon DEF Same
  <1>12. ASSUME NEW u \in Thread PROVE HookInv(u)'
    <2>1. ASSUME recv_hook[next(u)] # None PROVE HookPhase(u)' /\ next(u) \in contexts
      <3>1. plan.mode = "ll" /\ next(u) \in contexts
        BY <2>1, Zenon DEF HookInv
      <3>2. next(u) = t
        BY <1>2, <2>1, HooksOfWoken, Zenon
      <3>3. o \in {5, 12} /\ Size = 12
        BY <1>4, <3>1, Program, Zenon
      <3>4. IF o < 12 THEN offset(t)' = o + 1 ELSE offset(t)' = 1
        BY <1>1, <1>2, <1>7, <1>9, <3>3, Advanced, Zenon
      <3>5. offset(t)' \in {1, 2, 6, 7, 8}
        BY <3>3, <3>4, SMT
      <3>6. next(u)' = t
        BY <3>2, Zenon DEF next
      <3> QED
        BY <1>8, <3>1, <3>5, <3>6, Zenon DEF HookPhase
    <2> QED
      BY <1>2, <1>6, <2>1, HookKept, Zenon
  <1>13. Gives(t, l, o)
    <2>1. /\ Ready(t) /\ handles'[t] = handles[t] /\ handle'[t] = handle[t]
          /\ o >= 4 => handles[t] = <<t, l>>
          /\ o \in (IF plan.mode = "ht" THEN {7, 8} ELSE {8, 9}) => handle[t] = <<t, l>>
      BY <1>1, <1>2, <1>3, <1>4, Zenon DEF ThreadInv
    <2>2. CASE plan.mode = "ht"
      <3>1. HtReady(t, l, o)
        BY <1>1, <1>3, <1>4, <2>1, <2>2, Zenon DEF Ready
      <3>2. /\ o = 2 => Reached(<<"attention", t, l>>, "compute", t, recorded["compute"][t])
            /\ o = 7 => Reached(<<"experts", t, l>>, "compute", t, recorded["compute"][t])
            /\ o = 13 => Reached(<<"copy", t, l>>, "comm", t, recorded["comm"][t])
        BY <1>2, <3>1, Zenon DEF HtReady
      <3>3. /\ o = 2 => Before(<<"attention", t, l>>, "comm")'
            /\ o = 7 => Before(<<"experts", t, l>>, "comm")'
            /\ o = 13 => Before(<<"copy", t, l>>, "compute")'
        BY <1>4, <1>6, <2>2, <3>2, SMT
      <3>4. HtGives(t, l, o)
        BY <1>4, <2>2, <3>3, SMT DEF HtGives
      <3>5. current_stream'[t] = IF o \in {2, 3, 7, 8, 11, 12} THEN "comm" ELSE "compute"
        BY <1>4, <1>8, <2>2, SMT
      <3>6. /\ o >= 3 => handles'[t] = <<t, l>>
            /\ o \in {6, 7} => handle'[t] = <<t, l>>
        BY <1>4, <2>1, <2>2, SMT
      <3> QED
        BY <2>2, <3>4, <3>5, <3>6, Zenon DEF Gives
    <2>3. CASE plan.mode = "ll"
      <3>1. LlReady(t, l, o) /\ o \in {5, 12}
        BY <1>1, <1>3, <1>4, <2>1, <2>3, Zenon DEF Ready
      <3>2. recv_hook[next(t)] = None
        <4>1. next(t) # t /\ state[t] # "running"
          BY <1>2, Ring
        <4> QED
          BY <1>2, <4>1, HooksOfWoken, Zenon
      <3>3. /\ o = 5 => On(<<"recv_dispatch", t, l>>, "compute")
            /\ o = 12 => On(<<"recv_combine", t, l>>, "compute")
        BY <3>1, <3>2, SMT DEF LlReady, None
      <3>4. \A k : On(k, "compute") => On(k, "compute")'
        BY <1>6, Zenon DEF OrderKept, Stream
      <3>5. LlGives(t, l, o)
        BY <3>1, <3>3, <3>4, SMT DEF LlGives
      <3> QED
        BY <2>1, <2>3, <3>1, <3>5, SMT DEF Gives
    <2> QED
      BY <1>4, <2>2, <2>3, Zenon
  <1>14. ThreadInv(t)' /\ Ready(t)'
    <2>1. /\ state[t] \in {"running", "yielded"} /\ t \in contexts'
          /\ plan.mode = "ll" => current_stream'[t] = "compute"
      BY <1>2, <1>4, <1>8, Zenon
    <2> QED
      BY <1>1, <1>2, <1>3, <1>6, <1>7, <1>8, <1>9, <1>13, <2>1, GoesOn, Zenon
  <1>15. ~asserted'
    BY <1>2, Zenon
  <1> QED
    BY <1>2, <1>6, <1>9, <1>10, <1>11, <1>12, <1>14, <1>15, OrderThread, Zenon

\* An operation that neither yields nor concerns a hook: what it has to leave to
\* the thread, and alone to the others.
LEMMA OrderAdvance ==
  ASSUME OrderInv, Inv', NEW t \in Thread, NEW what, Runs(t, what), Advance(t), plan' = plan,
         what \cap (Yields \cup {"run_hook"}) = {},
         UNCHANGED <<main, event, results, state, contexts, forward_context, recv_hook, raised>>,
         ~asserted', current_stream' \in [Thread -> Stream], DataType',
         QueueType', QueueInv', OrderKept,
         \A u \in Thread \ {t} :
           /\ current_stream'[u] = current_stream[u]
           /\ handles'[u] = handles[u] /\ handle'[u] = handle[u]
           /\ \A s \in Stream : recorded'[s][u] = recorded[s][u],
         plan.mode = "ll" => current_stream'[t] = "compute",
         layer(t) <= plan.layers => Gives(t, layer(t), offset(t))
  PROVE  OrderInv'
  <1>1. state[t] = "running" /\ ~finished(t) /\ t \in contexts
    BY RunsAt, Zenon
  <1>2. /\ at' \in [Thread -> 1 .. plan'.layers * Len(layer_program') + 2]
        /\ at'[t] = at[t] + 1 /\ \A u \in Thread \ {t} : at'[u] = at[u]
    BY <1>1, AdvanceType, Zenon
  <1>3. ControlType'
    BY <1>2, Parts, Zenon DEF ControlType
  <1>4. ASSUME NEW u \in Thread, u # t PROVE Same(u) /\ HookSafe(u)
    BY <1>2, <1>4, HooksStay, Zenon DEF Same
  <1>5. \A u \in Thread : HookInv(u)'
    BY <1>2, <1>3, PlainHooks, Zenon
  <1>6. ThreadInv(t)' /\ Ready(t)'
    <2>1. state'[t] = "running" /\ t \in contexts' /\ state[t] \in {"running", "yielded"}
      BY <1>1
    <2> QED
      BY <1>1, <1>2, <1>3, <2>1, GoesOn, Zenon
  <1> QED
    BY <1>3, <1>4, <1>5, <1>6, OrderThread, Zenon

\* A launch.
LEMMA OrderLaunch ==
  ASSUME OrderInv, Inv', NEW t \in Thread, launch(t)
  PROVE  OrderInv'
  <1> USE Parts
  <1>1. /\ Runs(t, Kernels) /\ Advance(t) /\ plan' = plan
        /\ queue' = Enqueue(current_stream[t], <<Kernel(<<op(t), t, layer(t)>>)>>)
        /\ handles' = IF op(t) = "dispatch"
                      THEN [handles EXCEPT ![dbo_current_ubatch_id(t)] = <<t, layer(t)>>]
                      ELSE handles
        /\ UNCHANGED <<main, event, results, state, contexts, forward_context, current_stream,
                       recv_hook, handle, raised, asserted>>
        /\ UNCHANGED <<recorded, completed, done>>
    BY Zenon DEF launch
  <1>2. PICK k, l, o, p : k = <<p, t, l>> /\ l = layer(t) /\ o = offset(t) /\ p = op(t)
    BY Zenon
  <1>3. /\ ~finished(t) /\ p \in Kernels /\ dbo_current_ubatch_id(t) = t /\ Present(t)
        /\ plan.layers \in Nat \ {0} /\ plan.mode \in {"ht", "ll"}
        /\ \/ l = plan.layers + 1 /\ o = 1 /\ p = "norm"
           \/ /\ l \in 1 .. plan.layers
              /\ plan.mode = "ht" => HtOp(o, p)
              /\ plan.mode = "ll" => LlOp(o, p)
    BY <1>1, <1>2, RunsAt, Program, Zenon
  <1>4. QueueType' /\ QueueInv' /\ OrderKept /\ On(k, current_stream[t])'
    <2>1. PICK s \in Stream : s = current_stream[t] /\ current_stream'[t] = s
      BY <1>1, <1>2, LaunchInputs, Zenon
    <2>2. k \in AllKernels /\ \A i \in Inputs(k) : Before(i, s)
      BY <1>1, <1>2, <2>1, LaunchInputs, Zenon
    <2>3. queue' = Enqueue(s, <<Kernel(k)>>)
      BY <1>1, <1>2, <2>1, Zenon
    <2> QED
      BY <1>1, <2>1, <2>2, <2>3, KernelPut, Zenon
  <1>5. handles' = IF p = "dispatch" THEN [handles EXCEPT ![t] = <<t, l>>] ELSE handles
    BY <1>1, <1>2, <1>3, Zenon
  <1>6. /\ handles' \in [Thread -> (Thread \X (1 .. plan.layers)) \cup {None}]
        /\ \A u \in Thread : handles'[u] = IF u = t /\ p = "dispatch" THEN <<t, l>> ELSE handles[u]
    <2>1. p = "dispatch" => <<t, l>> \in Thread \X (1 .. plan.layers)
      BY <1>3, Zenon
    <2> QED
      BY <1>5, <2>1, Zenon DEF DataType
  <1>7. DataType'
    BY <1>1, <1>6, PlanFixes, Zenon DEF DataType
  <1>8. /\ plan.mode = "ll" => current_stream[t] = "compute"
        /\ plan.mode = "ht" =>
             current_stream[t] = IF o \in {3, 4, 8, 9, 12, 13} THEN "comm" ELSE "compute"
        /\ o >= 4 => handles[t] = <<t, l>>
        /\ o \in (IF plan.mode = "ht" THEN {7, 8} ELSE {8, 9}) => handle[t] = <<t, l>>
    BY <1>2, <1>3, Zenon DEF ThreadInv
  <1>9. ASSUME l <= plan.layers PROVE Gives(t, l, o)
    <2>1. /\ plan.mode = "ht" => HtOp(o, p)
          /\ plan.mode = "ll" => LlOp(o, p)
      BY <1>3, <1>9, SMT
    <2>2. PICK c : c = current_stream[t] /\ current_stream'[t] = c /\ On(<<p, t, l>>, c)'
      BY <1>1, <1>2, <1>4, Zenon
    <2>3. handle'[t] = handle[t] /\ handles'[t] = IF p = "dispatch" THEN <<t, l>> ELSE handles[t]
      BY <1>1, <1>6, Zenon
    <2>4. ASSUME plan.mode = "ht" PROVE Gives(t, l, o)
      <3>1. \/ (o = 1 /\ p = "attention") \/ (o = 3 /\ p = "dispatch") \/ (o = 5 /\ p = "experts")
            \/ (o = 8 /\ p = "combine") \/ (o = 10 /\ p = "shared") \/ (o = 12 /\ p = "copy")
        BY <1>3, <2>1, <2>4, Zenon DEF HtOp, Kernels
      <3>2. HtGives(t, l, o)
        BY <1>8, <2>2, <2>4, <3>1, SMT DEF HtGives
      <3>3. /\ c = IF o \in {2, 3, 7, 8, 11, 12} THEN "comm" ELSE "compute"
            /\ o >= 3 => p = "dispatch" \/ o >= 4
            /\ o \notin {6, 7}
        BY <1>8, <2>2, <2>4, <3>1, SMT
      <3> QED
        BY <1>8, <2>2, <2>3, <2>4, <3>2, <3>3, Zenon DEF Gives
    <2>5. ASSUME plan.mode = "ll" PROVE Gives(t, l, o)
      <3>1. \/ (o = 1 /\ p = "attention") \/ (o = 3 /\ p = "dispatch") \/ (o = 6 /\ p = "experts")
            \/ (o = 9 /\ p = "combine") \/ (o = 10 /\ p = "shared")
        BY <1>3, <2>1, <2>5, Zenon DEF LlOp, Kernels
      <3>2. LlGives(t, l, o)
        BY <1>8, <2>2, <2>5, <3>1, SMT DEF LlGives
      <3>3. /\ o >= 3 => p = "dispatch" \/ o >= 4
            /\ o \notin {7, 8}
        BY <3>1, SMT
      <3> QED
        BY <1>8, <2>3, <2>5, <3>2, <3>3, Zenon DEF Gives
    <2> QED
      BY <1>3, <2>4, <2>5, Zenon
  <1>10. Kernels \cap (Yields \cup {"run_hook"}) = {}
    BY DEF Kernels, Yields
  <1>11. /\ current_stream' \in [Thread -> Stream] /\ ~asserted'
         /\ plan.mode = "ll" => current_stream'[t] = "compute"
         /\ \A u \in Thread \ {t} :
              /\ current_stream'[u] = current_stream[u]
              /\ handles'[u] = handles[u] /\ handle'[u] = handle[u]
              /\ \A s \in Stream : recorded'[s][u] = recorded[s][u]
    BY <1>1, <1>6, <1>8, Zenon DEF ControlType
  <1> QED
    BY <1>1, <1>2, <1>4, <1>7, <1>9, <1>10, <1>11, OrderAdvance, Zenon

\* The start of a finalize: the handle it reads is that of its own dispatch.
LEMMA OrderFinalize ==
  ASSUME OrderInv, Inv', NEW t \in Thread, finalize(t)
  PROVE  OrderInv'
  <1> USE Parts
  <1>1. /\ Runs(t, {"finalize"}) /\ Advance(t) /\ plan' = plan
        /\ handle' = [handle EXCEPT ![t] = handles[dbo_current_ubatch_id(t)]]
        /\ asserted' = (asserted \/ handles[dbo_current_ubatch_id(t)] = None)
        /\ UNCHANGED <<main, event, results, state, contexts, forward_context, current_stream,
                       recv_hook, handles, raised, gpu>>
    BY Zenon DEF finalize
  <1>2. PICK l, o : l = layer(t) /\ o = offset(t)
    BY Zenon
  <1>3. /\ ~finished(t) /\ dbo_current_ubatch_id(t) = t /\ Present(t) /\ op(t) \in {"finalize"}
        /\ plan.layers \in Nat \ {0} /\ plan.mode \in {"ht", "ll"}
        /\ \/ op(t) = "norm"
           \/ /\ l \in 1 .. plan.layers
              /\ plan.mode = "ht" => HtOp(o, op(t))
              /\ plan.mode = "ll" => LlOp(o, op(t))
    BY <1>1, <1>2, RunsAt, Program, Zenon
  <1>4. l \in 1 .. plan.layers /\ (plan.mode = "ht" => o = 6) /\ (plan.mode = "ll" => o = 7)
    BY <1>3, Zenon DEF HtOp, LlOp
  <1>5. handles[t] = <<t, l>> /\ current_stream[t] = "compute"
    BY <1>2, <1>3, <1>4, SMT DEF ThreadInv
  <1>6. QueueType' /\ QueueInv' /\ OrderKept
    BY <1>1, Quiet, Zenon
  <1>7. /\ <<t, l>> # None /\ handle' = [handle EXCEPT ![t] = <<t, l>>]
        /\ <<t, l>> \in Thread \X (1 .. plan.layers)
    BY <1>1, <1>3, <1>4, <1>5, Zenon DEF None
  <1>8. DataType'
    BY <1>1, <1>7, PlanFixes, ZenonT(30) DEF DataType, gpu
  <1>9. handle'[t] = <<t, l>> /\ \A u \in Thread \ {t} : handle'[u] = handle[u]
    BY <1>7, Zenon DEF DataType
  <1>10. Gives(t, l, o)
    <2>1. handles'[t] = <<t, l>> /\ current_stream'[t] = "compute"
      BY <1>1, <1>5, Zenon
    <2> QED
      BY <1>3, <1>4, <1>9, <2>1, SMT DEF Gives, HtGives, LlGives
  <1>11. {"finalize"} \cap (Yields \cup {"run_hook"}) = {}
    BY DEF Yields
  <1>12. /\ current_stream' \in [Thread -> Stream] /\ ~asserted' /\ current_stream'[t] = "compute"
         /\ \A u \in Thread \ {t} :
              /\ current_stream'[u] = current_stream[u] /\ handles'[u] = handles[u]
              /\ \A s \in Stream : recorded'[s][u] = recorded[s][u]
    BY <1>1, <1>3, <1>5, <1>7, Zenon DEF ControlType, gpu
  <1> QED
    BY <1>1, <1>2, <1>6, <1>8, <1>9, <1>10, <1>11, <1>12, OrderAdvance, Zenon

\* A switch of streams.
LEMMA OrderSwitch ==
  ASSUME OrderInv, Inv', NEW t \in Thread, switch(t)
  PROVE  OrderInv'
  <1> USE Parts
  <1>1. /\ Runs(t, {"to_compute", "to_comm"}) /\ Advance(t) /\ plan' = plan
        /\ current_stream' = [current_stream EXCEPT ![t] = IF op(t) = "to_comm" THEN "comm" ELSE "compute"]
        /\ UNCHANGED <<main, event, results, state, contexts, forward_context,
                       recv_hook, handles, handle, raised, asserted, gpu>>
    BY Zenon DEF switch
  <1>2. PICK l, o : l = layer(t) /\ o = offset(t)
    BY Zenon
  <1>3. /\ ~finished(t) /\ Present(t) /\ op(t) \in {"to_compute", "to_comm"}
        /\ plan.layers \in Nat \ {0} /\ plan.mode \in {"ht", "ll"}
        /\ \/ op(t) = "norm"
           \/ /\ l \in 1 .. plan.layers
              /\ plan.mode = "ht" => HtOp(o, op(t))
              /\ plan.mode = "ll" => LlOp(o, op(t))
    BY <1>1, <1>2, RunsAt, Program, Zenon
  <1>4. /\ plan.mode = "ht" /\ plan.mode # "ll"
        /\ \/ o = 9 /\ op(t) = "to_compute"
           \/ o = 11 /\ op(t) = "to_comm"
    BY <1>3, Zenon DEF HtOp, LlOp
  <1>5. handles'[t] = <<t, l>>
    <2>1. o >= 4 => handles[t] = <<t, l>>
      BY <1>2, <1>3, Zenon DEF ThreadInv
    <2> QED
      BY <1>1, <1>4, <2>1
  <1>6. QueueType' /\ QueueInv' /\ OrderKept
    BY <1>1, Quiet, Zenon
  <1>7. /\ current_stream' \in [Thread -> Stream]
        /\ current_stream'[t] = IF op(t) = "to_comm" THEN "comm" ELSE "compute"
        /\ \A u \in Thread \ {t} : current_stream'[u] = current_stream[u]
    BY <1>1, Zenon DEF ControlType, Stream
  <1>8. DataType'
    BY <1>1, PlanFixes, Zenon DEF DataType, gpu
  <1>9. Gives(t, l, o)
    BY <1>3, <1>4, <1>5, <1>7, SMT DEF Gives, HtGives
  <1>10. {"to_compute", "to_comm"} \cap (Yields \cup {"run_hook"}) = {}
    BY DEF Yields
  <1>11. /\ ~asserted'
         /\ \A u \in Thread \ {t} :
              /\ handles'[u] = handles[u] /\ handle'[u] = handle[u]
              /\ \A s \in Stream : recorded'[s][u] = recorded[s][u]
    BY <1>1, Zenon DEF gpu
  <1> QED
    BY <1>1, <1>2, <1>4, <1>6, <1>7, <1>8, <1>9, <1>10, <1>11, OrderAdvance, Zenon

\* switch_to_compute_sync: what is on the communication stream comes before what
\* the thread goes on to put on the compute stream.
LEMMA OrderSync ==
  ASSUME OrderInv, Inv', NEW t \in Thread, switch_to_compute_sync(t)
  PROVE  OrderInv'
  <1> USE Parts
  <1>1. /\ Runs(t, {"sync_to_compute"}) /\ Advance(t) /\ plan' = plan
        /\ current_stream' = [current_stream EXCEPT ![t] = "compute"]
        /\ queue' = [queue EXCEPT !["comm"] = Append(@, Record("comm", t)),
                                  !["compute"] = Append(@, WaitFor("comm", t, recorded["comm"][t] + 1))]
        /\ recorded' = [recorded EXCEPT !["comm"][t] = @ + 1]
        /\ UNCHANGED <<main, event, results, state, contexts, forward_context,
                       recv_hook, handles, handle, raised, asserted>>
        /\ UNCHANGED <<completed, done>>
    BY Zenon DEF switch_to_compute_sync
  <1>2. PICK l, o : l = layer(t) /\ o = offset(t)
    BY Zenon
  <1>3. /\ ~finished(t) /\ Present(t) /\ op(t) \in {"sync_to_compute"}
        /\ plan.layers \in Nat \ {0} /\ plan.mode \in {"ht", "ll"}
        /\ \/ op(t) = "norm"
           \/ /\ l \in 1 .. plan.layers
              /\ plan.mode = "ht" => HtOp(o, op(t)) /\ HtReady(t, l, o)
              /\ plan.mode = "ll" => LlOp(o, op(t))
    BY <1>1, <1>2, RunsAt, Program, Zenon
  <1>4. plan.mode = "ht" /\ plan.mode # "ll" /\ o = 4
    BY <1>3, Zenon DEF HtOp, LlOp
  <1>5. handles'[t] = <<t, l>>
    <2>1. o >= 4 => handles[t] = <<t, l>>
      BY <1>2, <1>3, Zenon DEF ThreadInv
    <2> QED
      BY <1>1, <1>4, <2>1
  <1>6. /\ QueueType' /\ QueueInv' /\ OrderKept
        /\ \A k : On(k, "comm") => Before(k, "compute")'
    BY <1>1, SyncPut, Zenon
  <1>7. /\ current_stream' \in [Thread -> Stream] /\ current_stream'[t] = "compute"
        /\ \A u \in Thread \ {t} : current_stream'[u] = current_stream[u]
    BY <1>1, Zenon DEF ControlType, Stream
  <1>8. DataType'
    BY <1>1, PlanFixes, Zenon DEF DataType
  <1>9. Gives(t, l, o)
    <2>1. On(<<"dispatch", t, l>>, "comm")
      BY <1>3, <1>4, Zenon DEF HtReady
    <2>2. Before(<<"dispatch", t, l>>, "compute")'
      BY <1>6, <2>1, Zenon
    <2> QED
      BY <1>3, <1>4, <1>5, <1>7, <2>2, SMT DEF Gives, HtGives
  <1>10. {"sync_to_compute"} \cap (Yields \cup {"run_hook"}) = {}
    BY DEF Yields
  <1>11. /\ ~asserted'
         /\ \A u \in Thread \ {t} :
              /\ handles'[u] = handles[u] /\ handle'[u] = handle[u]
              /\ \A s \in Stream : recorded'[s][u] = recorded[s][u]
    BY <1>1, Zenon DEF QueueType
  <1> QED
    BY <1>1, <1>2, <1>4, <1>6, <1>7, <1>8, <1>9, <1>10, <1>11, OrderAdvance, Zenon

\* maybe_run_recv_hook launches the receiving half of a transfer after the other.
LEMMA HookRun ==
  ASSUME OrderInv, plan' = plan, NEW t \in Thread, UNCHANGED <<recorded, completed, done>>,
         queue' = Enqueue(current_stream[t], hook_kernels(t))
  PROVE  /\ QueueType' /\ QueueInv' /\ OrderKept
         /\ \A k : recv_hook[t] = k => k = None \/ On(k, "compute")'
  <1> USE Parts
  <1>1. CASE recv_hook[t] = None
    <2>1. queue' = queue
      <3>1. queue' = [queue EXCEPT ![current_stream[t]] = queue[current_stream[t]] \o <<>>]
        BY <1>1, Zenon DEF Enqueue, hook_kernels
      <3>2. current_stream[t] \in Stream
        BY Zenon DEF ControlType
      <3>3. queue[current_stream[t]] \in Seq(Item)
        BY <3>2, Lengths, Zenon
      <3>4. queue[current_stream[t]] \o <<>> = queue[current_stream[t]]
        BY <3>3, SMT
      <3> QED
        BY <3>1, <3>4, Zenon DEF QueueType
    <2>2. UNCHANGED gpu
      BY <2>1, Zenon DEF gpu
    <2> QED
      BY <1>1, <2>2, Quiet, Zenon
  <1>2. CASE recv_hook[t] # None
    <2>1. PICK v \in Thread : next(v) = t
      BY Ring, Zenon
    <2>2. PICK k : k = recv_hook[t]
      BY Zenon
    <2>3. /\ plan.mode = "ll" /\ k # None
          /\ \E l \in 1 .. plan.layers :
               \/ k = <<"recv_dispatch", v, l>> /\ On(<<"dispatch", v, l>>, "compute")
               \/ k = <<"recv_combine", v, l>> /\ On(<<"combine", v, l>>, "compute")
      BY <1>2, <2>1, <2>2, Zenon DEF HookInv
    <2>4. "compute" \in Stream /\ current_stream[t] = "compute"
      BY <2>3, Zenon DEF ThreadInv, Stream
    <2>5. k \in AllKernels
      BY <1>2, <2>2, Zenon DEF DataType
    <2>6. \A i \in Inputs(k) : Before(i, "compute")
      <3>1. \A i \in Inputs(k) : On(i, "compute")
        BY <2>3, SMT DEF Inputs
      <3> QED
        BY <2>4, <3>1, OnBefore, Zenon
    <2>7. queue' = Enqueue("compute", <<Kernel(k)>>)
      BY <1>2, <2>2, <2>4, Zenon DEF hook_kernels
    <2> QED
      BY <2>2, <2>4, <2>5, <2>6, <2>7, KernelPut, Zenon
  <1> QED
    BY <1>1, <1>2, Zenon

\* A thread launches the hook that it has been left.
LEMMA OrderRunHook ==
  ASSUME OrderInv, Inv', NEW t \in Thread, maybe_run_recv_hook(t)
  PROVE  OrderInv'
  <1> USE Parts
  <1>1. /\ Runs(t, {"run_hook"}) /\ Advance(t) /\ plan' = plan
        /\ queue' = Enqueue(current_stream[t], hook_kernels(t))
        /\ recv_hook' = [recv_hook EXCEPT ![t] = None]
        /\ UNCHANGED <<main, event, results, state, contexts, forward_context, current_stream,
                       handles, handle, raised, asserted>>
        /\ UNCHANGED <<recorded, completed, done>>
    BY Zenon DEF maybe_run_recv_hook
  <1>2. PICK l, o : l = layer(t) /\ o = offset(t)
    BY Zenon
  <1>3. /\ state[t] = "running" /\ ~finished(t) /\ t \in contexts
        /\ Present(t) /\ op(t) \in {"run_hook"}
        /\ plan.layers \in Nat \ {0} /\ plan.mode \in {"ht", "ll"}
        /\ \/ op(t) = "norm"
           \/ /\ l \in 1 .. plan.layers
              /\ plan.mode = "ht" => HtOp(o, op(t))
              /\ plan.mode = "ll" => LlOp(o, op(t))
    BY <1>1, <1>2, RunsAt, Program, Zenon
  <1>4. plan.mode = "ll" /\ plan.mode # "ht" /\ o \in {2, 8}
    BY <1>3, Zenon DEF HtOp, LlOp
  <1>5. /\ current_stream[t] = "compute"
        /\ o = 8 => handles[t] = <<t, l>> /\ handle[t] = <<t, l>>
    BY <1>2, <1>3, <1>4, SMT DEF ThreadInv
  <1>6. /\ QueueType' /\ QueueInv' /\ OrderKept
        /\ \A k : recv_hook[t] = k => k = None \/ On(k, "compute")'
    BY <1>1, HookRun, Zenon
  <1>7. /\ at' \in [Thread -> 1 .. plan'.layers * Len(layer_program') + 2]
        /\ at'[t] = at[t] + 1 /\ \A u \in Thread \ {t} : at'[u] = at[u]
    BY <1>1, <1>3, AdvanceType, Zenon
  <1>8. ControlType'
    BY <1>1, <1>7, Zenon DEF ControlType
  <1>9. DataType'
    BY <1>1, PlanFixes, Zenon DEF DataType
  <1>10. recv_hook'[t] = None /\ \A u \in Thread \ {t} : recv_hook'[u] = recv_hook[u]
    BY <1>1, Zenon DEF DataType
  <1>11. ASSUME NEW u \in Thread, u # t PROVE Same(u) /\ HookSafe(u)
    <2>1. Same(u)
      BY <1>1, <1>7, <1>11, Zenon DEF Same
    <2>2. CASE next(u) = t
      BY <1>6, <2>1, <2>2, Zenon DEF HookSafe
    <2>3. CASE next(u) # t
      BY <1>10, <2>1, <2>3, Zenon DEF HookSafe
    <2> QED
      BY <2>2, <2>3, Zenon
  <1>12. ASSUME NEW u \in Thread PROVE HookInv(u)'
    <2>1. recv_hook'[next(u)] = None
      <3>1. CASE next(u) = t
        BY <1>10, <3>1, Zenon
      <3>2. CASE next(u) # t
        <4>1. o \notin {5, 12}
          BY <1>4
        <4> QED
          BY <1>2, <1>3, <1>10, <3>2, <4>1, HooksOfRunning, Zenon
      <3> QED
        BY <3>1, <3>2, Zenon
    <2> QED
      BY <1>1, <1>6, <2>1, HookKept, Zenon
  <1>13. ThreadInv(t)' /\ Ready(t)'
    <2>1. /\ handles'[t] = handles[t] /\ handle'[t] = handle[t] /\ current_stream'[t] = "compute"
          /\ t \in contexts' /\ state'[t] = "running"
      BY <1>1, <1>3, <1>5, Zenon
    <2>2. Gives(t, l, o)
      BY <1>3, <1>4, <1>5, <2>1, SMT DEF Gives, LlGives
    <2> QED
      BY <1>1, <1>2, <1>3, <1>4, <1>6, <1>7, <1>8, <2>1, <2>2, GoesOn, Zenon
  <1>14. ~asserted'
    BY <1>1, Zenon
  <1> QED
    BY <1>1, <1>6, <1>8, <1>9, <1>11, <1>12, <1>13, <1>14, OrderThread, Zenon

\* dbo_register_recv_hook: the receiving half of the transfer that the thread has
\* just launched is left to the next thread, or the thread raises.
LEMMA OrderRegister ==
  ASSUME OrderInv, Inv', NEW t \in Thread, dbo_register_recv_hook(t)
  PROVE  OrderInv'
  <1> USE Parts
  <1> DEFINE name(p) == IF p = "register_dispatch" THEN "recv_dispatch" ELSE "recv_combine"
  <1>1. PICK l, o, p : l = layer(t) /\ o = offset(t) /\ p = op(t)
    BY Zenon
  <1>2. /\ Runs(t, {"register_dispatch", "register_combine"}) /\ plan' = plan
        /\ UNCHANGED <<main, event, results, state, contexts, forward_context, current_stream,
                       handles, handle, asserted, gpu>>
        /\ \/ /\ next(t) \in contexts /\ Advance(t) /\ UNCHANGED raised
              /\ recv_hook' = [recv_hook EXCEPT ![next(t)] = <<name(p), t, l>>]
           \/ raised' = raised \cup {t} /\ UNCHANGED <<recv_hook, at>>
    BY <1>1, Zenon DEF dbo_register_recv_hook
  <1>3. /\ state[t] = "running" /\ ~finished(t) /\ t \in contexts
        /\ p \in {"register_dispatch", "register_combine"}
        /\ plan.layers \in Nat \ {0} /\ plan.mode \in {"ht", "ll"}
        /\ \/ p = "norm"
           \/ /\ l \in 1 .. plan.layers
              /\ plan.mode = "ht" => HtOp(o, p)
              /\ plan.mode = "ll" => LlOp(o, p) /\ LlReady(t, l, o)
    BY <1>1, <1>2, RunsAt, Program, Zenon
  <1>4. QueueType' /\ QueueInv' /\ OrderKept
    BY <1>2, Quiet, Zenon
  <1>5. CASE raised' = raised \cup {t} /\ UNCHANGED <<recv_hook, at>>
    <2>1. ControlType'
      BY <1>2, <1>5, Zenon DEF ControlType, layer_program
    <2>2. \A u \in Thread : Stage(u)
      BY <1>2, <1>5, Zenon DEF Stage, Present, ThreadInv
    <2>3. ASSUME NEW u \in Thread, HookPhase(u) PROVE HookPhase(u)'
      <3>1. offset(u)' = offset(u) /\ offset(next(u))' = offset(next(u))
        BY <1>2, <1>5, Zenon DEF offset, layer_program, next
      <3> QED
        BY <1>2, <1>5, <2>3, <3>1, Zenon DEF HookPhase, next
    <2>4. \A u \in Thread : recv_hook[next(u)] # None => next(u) \in contexts'
      BY <1>2, Zenon DEF HookInv
    <2> QED
      BY <1>2, <1>5, <2>1, <2>2, <2>3, <2>4, OrderStage, Zenon
  <1>6. CASE /\ next(t) \in contexts /\ Advance(t) /\ UNCHANGED raised
             /\ recv_hook' = [recv_hook EXCEPT ![next(t)] = <<name(p), t, l>>]
    <2>1. /\ plan.mode = "ll" /\ plan.mode # "ht" /\ l \in 1 .. plan.layers
          /\ \/ o = 4 /\ p = "register_dispatch" /\ On(<<"dispatch", t, l>>, "compute")
             \/ o = 11 /\ p = "register_combine" /\ On(<<"combine", t, l>>, "compute")
      BY <1>3, SMT DEF HtOp, LlOp, LlReady
    <2>2. PICK k : k = <<name(p), t, l>>
      BY Zenon
    <2>3. /\ k \in AllKernels
          /\ \/ o = 4 /\ k = <<"recv_dispatch", t, l>> /\ On(<<"dispatch", t, l>>, "compute")
             \/ o = 11 /\ k = <<"recv_combine", t, l>> /\ On(<<"combine", t, l>>, "compute")
      <3>1. \/ o = 4 /\ k = <<"recv_dispatch", t, l>> /\ On(<<"dispatch", t, l>>, "compute")
            \/ o = 11 /\ k = <<"recv_combine", t, l>> /\ On(<<"combine", t, l>>, "compute")
        BY <2>1, <2>2
      <3>2. k \in AllKernels
        BY <2>1, <3>1, SMT DEF AllKernels, Transfers
      <3> QED
        BY <3>1, <3>2, Zenon
    <2>4. recv_hook'[next(t)] = k /\ \A u \in Thread \ {next(t)} : recv_hook'[u] = recv_hook[u]
      BY <1>6, <2>2, Zenon DEF DataType
    <2>5. /\ at' \in [Thread -> 1 .. plan'.layers * Len(layer_program') + 2]
          /\ at'[t] = at[t] + 1 /\ \A u \in Thread \ {t} : at'[u] = at[u]
      BY <1>2, <1>3, <1>6, AdvanceType, Zenon
    <2>6. ControlType'
      BY <1>2, <1>6, <2>5, Zenon DEF ControlType
    <2>7. DataType'
      <3>1. recv_hook' \in [Thread -> AllKernels \cup {None}]
        BY <1>6, <2>2, <2>3, Zenon DEF DataType
      <3> QED
        BY <1>2, <3>1, PlanFixes, Zenon DEF DataType, gpu
    <2>8. ASSUME NEW u \in Thread, u # t PROVE Same(u) /\ HookSafe(u)
      <3>1. next(u) # next(t) /\ next(u) \in Thread
        BY <2>8, Ring, Zenon
      <3>2. recv_hook'[next(u)] = recv_hook[next(u)]
        BY <2>4, <3>1, Zenon
      <3> QED
        BY <1>2, <2>5, <2>8, <3>2, Zenon DEF Same, HookSafe, gpu
    <2>9. ASSUME NEW u \in Thread PROVE HookInv(u)'
      <3>1. CASE u = t
        <4>1. offset(t)' = o + 1
          <5>1. o < Size
            BY <2>1, Program, SMT
          <5> QED
            BY <1>1, <1>2, <2>5, <2>6, <5>1, Advanced, Zenon
        <4>2. offset(t)' \in {5, 12}
          BY <2>1, <4>1, SMT
        <4>3. HookPhase(t)'
          BY <1>2, <1>3, <4>2, Zenon DEF HookPhase
        <4>4. \E m \in 1 .. plan.layers :
                \/ k = <<"recv_dispatch", t, m>> /\ On(<<"dispatch", t, m>>, "compute")'
                \/ k = <<"recv_combine", t, m>> /\ On(<<"combine", t, m>>, "compute")'
          <5>1. \A i : On(i, "compute") => On(i, "compute")'
            BY <1>4, Zenon DEF OrderKept, Stream
          <5> QED
            BY <2>1, <2>3, <5>1, Zenon
        <4> QED
          BY <1>2, <1>6, <2>1, <2>4, <3>1, <4>3, <4>4, Zenon DEF HookInv, next
      <3>2. CASE u # t
        <4>1. next(u) # next(t) /\ next(u) \in Thread
          BY <3>2, Ring, Zenon
        <4>2. recv_hook'[next(u)] = recv_hook[next(u)]
          BY <2>4, <4>1, Zenon
        <4>3. recv_hook[next(u)] = None
          <5>1. o \notin {1, 2, 6, 7, 8}
            BY <2>1
          <5> QED
            BY <1>1, <1>3, <3>2, <5>1, HooksOfRunning, Zenon
        <4> QED
          BY <1>2, <1>4, <4>2, <4>3, HookKept, Zenon
      <3> QED
        BY <3>1, <3>2, Zenon
    <2>10. ThreadInv(t)' /\ Ready(t)'
      <3>1. /\ current_stream'[t] = "compute" /\ o >= 4
            /\ handles'[t] = handles[t] /\ t \in contexts' /\ state'[t] = "running"
        BY <1>2, <1>3, <2>1, SMT DEF ThreadInv
      <3>2. handles'[t] = <<t, l>>
        <4>1. o >= 4 => handles[t] = <<t, l>>
          BY <1>1, <1>2, <1>3, RunsAt, Zenon DEF ThreadInv
        <4> QED
          BY <3>1, <4>1, Zenon
      <3>3. /\ o = 4 => recv_hook'[next(t)] = <<"recv_dispatch", t, l>>
            /\ o = 11 => recv_hook'[next(t)] = <<"recv_combine", t, l>>
        BY <2>3, <2>4, SMT
      <3>4. Gives(t, l, o)
        BY <2>1, <3>2, <3>3, SMT DEF Gives, LlGives
      <3> QED
        BY <1>1, <1>2, <1>3, <1>4, <2>1, <2>5, <2>6, <3>1, <3>4, GoesOn, ZenonT(30)
    <2>11. ~asserted'
      BY <1>2, Zenon
    <2> QED
      BY <1>2, <1>4, <2>6, <2>7, <2>8, <2>9, <2>10, <2>11, OrderThread, Zenon
  <1> QED
    BY <1>2, <1>5, <1>6, Zenon

-----------------------------------------------------------------------------
(* The other steps. *)

\* Such are the steps before the first thread runs, those of the main thread, a
\* thread's last and a launch that raises.
LEMMA OrderStages ==
  ASSUME OrderInv, Inv',
         \/ start_threads \/ ready_barrier \/ wake_first \/ join
         \/ \E t \in Thread : enter(t) \/ exit_clear(t) \/ launch_raises(t)
  PROVE  OrderInv'
  <1> USE Parts
  <1>1. /\ plan' = plan
        /\ UNCHANGED <<at, current_stream, recv_hook, handles, handle, asserted, gpu>>
    BY Zenon DEF start_threads, ready_barrier, wake_first, join, enter, exit_clear, launch_raises, threads
  <1>2. \A u \in Thread : offset(u)' = offset(u)
    BY <1>1, Stays, Zenon
  <1>3. \A u \in Thread : recv_hook[next(u)] # None => next(u) \in contexts
    BY Zenon DEF HookInv
  <1>4. layer_program' = layer_program
    BY <1>1, Zenon DEF layer_program
  <1>5. CASE start_threads
    <2>1. /\ UNCHANGED <<event, results, contexts, forward_context, raised>>
          /\ main = "start" /\ main' = "barrier" /\ state' = [t \in Thread |-> "starting"]
      BY <1>5, Zenon DEF start_threads
    <2>2. ControlType'
      BY <1>1, <1>4, <2>1, Zenon DEF ControlType
    <2>3. \A u \in Thread : state[u] = "new" /\ state'[u] = "starting" /\ at[u] = 1 /\ u \notin contexts
      BY <2>1, Zenon DEF ThreadInv
    <2>4. \A u \in Thread : Stage(u)
      BY <2>1, <2>3, Zenon DEF Stage, Present
    <2>5. \A u \in Thread : recv_hook[next(u)] = None
      BY <1>3, <2>3, Zenon
    <2> QED
      BY <1>1, <2>2, <2>4, <2>5, OrderStage, Zenon
  <1>6. CASE ready_barrier
    <2>1. /\ UNCHANGED <<event, results, contexts, forward_context, raised>>
          /\ main' = "wake" /\ state' = [t \in Thread |-> "waiting"]
          /\ \A u \in Thread : state[u] = "barrier"
      BY <1>6, Zenon DEF ready_barrier
    <2>2. ControlType'
      BY <1>1, <1>4, <2>1, Zenon DEF ControlType
    <2>3. \A u \in Thread : state'[u] = "waiting" /\ at[u] = 1 /\ u \in contexts
      BY <2>1, Zenon DEF ThreadInv
    <2>4. \A u \in Thread : Stage(u)
      BY <2>1, <2>3, Zenon DEF Stage, Present
    <2>5. \A u \in Thread : HookPhase(u) => HookPhase(u)'
      BY <1>2, <2>1, Zenon DEF HookPhase, next
    <2> QED
      BY <1>1, <1>3, <2>1, <2>2, <2>4, <2>5, OrderStage, Zenon
  <1>7. CASE wake_first \/ join
    <2>1. /\ UNCHANGED <<state, results, contexts, forward_context, raised>>
          /\ main' \in {"join", "done"} /\ (event' = event \/ event' = [event EXCEPT ![0] = TRUE])
      BY <1>7, Zenon DEF wake_first, join, threads
    <2>2. event' \in [Thread -> BOOLEAN] /\ \A u \in Thread : event[u] => event'[u]
      <3>1. event \in [Thread -> BOOLEAN]
        BY Zenon DEF ControlType
      <3> QED
        BY ONLY <2>1, <3>1, Zenon
    <2>3. ControlType'
      BY <1>1, <1>4, <2>1, <2>2, Zenon DEF ControlType
    <2>4. \A u \in Thread : Stage(u)
      BY <2>1, Zenon DEF Stage, Present, ThreadInv
    <2>5. \A u \in Thread : HookPhase(u) => HookPhase(u)'
      BY <1>2, <2>1, <2>2, Zenon DEF HookPhase, next
    <2> QED
      BY <1>1, <1>3, <2>1, <2>3, <2>4, <2>5, OrderStage, Zenon
  <1>8. ASSUME NEW t \in Thread, enter(t) PROVE OrderInv'
    <2>1. /\ UNCHANGED <<main, event, results, forward_context, raised>>
          /\ state[t] = "starting" /\ state' = [state EXCEPT ![t] = "barrier"]
          /\ contexts' = contexts \cup {t}
      BY <1>8, Zenon DEF enter
    <2>2. ControlType'
      BY <1>1, <1>4, <2>1, Zenon DEF ControlType
    <2>3. state'[t] = "barrier" /\ \A u \in Thread \ {t} : state'[u] = state[u]
      BY <2>1, Zenon DEF ControlType
    <2>4. \A u \in Thread : Stage(u)
      BY <2>1, <2>3, SMT DEF Stage, Present, ThreadInv
    <2>5. \A u \in Thread : HookPhase(u) => HookPhase(u)'
      BY <1>2, <2>1, <2>3, Zenon DEF HookPhase, next
    <2> QED
      BY <1>1, <1>3, <2>1, <2>2, <2>4, <2>5, OrderStage, Zenon
  <1>9. ASSUME NEW t \in Thread, exit_clear(t) PROVE OrderInv'
    <2>1. /\ UNCHANGED <<main, contexts, forward_context, raised>>
          /\ state[t] = "exiting" /\ state' = [state EXCEPT ![t] = "done"]
          /\ event' = [event EXCEPT ![t] = FALSE] /\ results' \in {results, results \cup {t}}
      BY <1>9, Zenon DEF exit_clear
    <2>2. ControlType'
      BY <1>1, <1>4, <2>1, Zenon DEF ControlType
    <2>3. /\ state'[t] = "done" /\ \A u \in Thread \ {t} : state'[u] = state[u] /\ event'[u] = event[u]
          /\ t \notin contexts
      <3>1. t \notin contexts
        BY <2>1, Zenon DEF ThreadInv
      <3> QED
        BY <2>1, <3>1, Zenon DEF ControlType
    <2>4. \A u \in Thread : Stage(u)
      BY <2>1, <2>3, Zenon DEF Stage, Present, ThreadInv
    <2>5. ASSUME NEW u \in Thread, HookPhase(u), recv_hook[next(u)] # None PROVE HookPhase(u)'
      <3>1. next(u) # t
        BY <1>3, <2>3, <2>5, Zenon
      <3> QED
        BY <1>2, <2>1, <2>3, <2>5, <3>1, Zenon DEF HookPhase, next
    <2> QED
      BY <1>1, <1>3, <2>1, <2>2, <2>4, <2>5, OrderStage, Zenon
  <1>10. ASSUME NEW t \in Thread, launch_raises(t) PROVE OrderInv'
    <2>1. /\ UNCHANGED <<main, event, state, results, contexts, forward_context>>
          /\ raised' = raised \cup {t}
      BY <1>10, Zenon DEF launch_raises
    <2>2. ControlType'
      BY <1>1, <1>4, <2>1, Zenon DEF ControlType
    <2>3. \A u \in Thread : Stage(u)
      BY <2>1, Zenon DEF Stage, Present, ThreadInv
    <2>4. \A u \in Thread : HookPhase(u) => HookPhase(u)'
      BY <1>2, <2>1, Zenon DEF HookPhase, next
    <2> QED
      BY <1>1, <1>3, <2>1, <2>2, <2>3, <2>4, OrderStage, Zenon
  <1> QED
    BY <1>5, <1>6, <1>7, <1>8, <1>9, <1>10, Zenon

\* A thread that has been woken for the first time runs.
LEMMA OrderEnterWait ==
  ASSUME OrderInv, Inv', NEW t \in Thread, enter_wait(t)
  PROVE  OrderInv'
  <1> USE Parts
  <1>1. /\ plan' = plan /\ state[t] = "waiting" /\ event[t]
        /\ UNCHANGED <<main, at, contexts, recv_hook, handles, handle, asserted, gpu>>
        /\ UNCHANGED <<results, raised>>
        /\ event' = [event EXCEPT ![t] = FALSE] /\ state' = [state EXCEPT ![t] = "running"]
        /\ forward_context' = t /\ current_stream' = [current_stream EXCEPT ![t] = "compute"]
    BY Zenon DEF enter_wait
  <1>2. QueueType' /\ QueueInv' /\ OrderKept
    BY <1>1, Quiet, Zenon
  <1>3. /\ state'[t] = "running" /\ current_stream'[t] = "compute"
        /\ \A u \in Thread \ {t} : state'[u] = state[u] /\ current_stream'[u] = current_stream[u]
    BY <1>1, Zenon DEF ControlType
  <1>4. ControlType' /\ DataType'
    <2>1. ControlType'
      BY <1>1, Zenon DEF ControlType, layer_program, Stream
    <2>2. DataType'
      BY <1>1, PlanFixes, Zenon DEF DataType, gpu
    <2> QED
      BY <2>1, <2>2
  <1>5. at[t] = 1 /\ t \in contexts /\ offset(t)' = offset(t)
    BY <1>1, Stays, Zenon DEF ThreadInv
  <1>6. offset(t) = 1 /\ ~finished(t)
    <2>1. Place(t)
      BY Places, Zenon DEF PlaceFacts
    <2>2. PICK l, o, n : l = layer(t) /\ o = offset(t) /\ n = Size
      BY Zenon
    <2>3. l \in Nat \ {0} /\ o \in Nat \ {0} /\ (n = 13 \/ n = 12) /\ 1 = (l - 1) * n + o
      <3>1. /\ plan.layers \in Nat /\ (n = 13 \/ n = 12)
            /\ l \in 1 .. plan.layers + 1 /\ o \in 1 .. n /\ 1 = (l - 1) * n + o
        BY <1>5, <2>1, <2>2, Program, Zenon DEF Place
      <3> QED
        BY ONLY <3>1, SMT
    <2>4. o = 1 /\ ~(o > 1)
      BY ONLY <2>3, SMT
    <2> QED
      BY <2>1, <2>2, <2>4, Zenon DEF Place
  <1>7. current_stream[t] = "compute"
    BY <1>1, <1>6, Program, SMT DEF ThreadInv, Present
  <1>8. ThreadInv(t)' /\ Ready(t)'
    <2>1. Present(t) /\ main # "start" /\ state'[t] # "yielded"
      BY <1>1, <1>3, Zenon DEF Present, ThreadInv
    <2>2. t \in contexts' <=> state'[t] \in {"barrier", "waiting", "running", "yielded"}
      BY <1>1, <1>3, <1>5
    <2>3. \A s \in Stream : recorded'[s][t] = recorded[s][t]
      BY <1>1, Zenon DEF gpu
    <2> QED
      BY <1>1, <1>2, <1>3, <1>5, <1>7, <2>1, <2>2, <2>3, HooksStay, Moved, Zenon
  <1>9. ASSUME NEW u \in Thread, u # t PROVE Same(u) /\ HookSafe(u)
    BY <1>1, <1>3, <1>9, HooksStay, Zenon DEF Same, gpu
  <1>10. ASSUME NEW u \in Thread PROVE HookInv(u)'
    <2>1. ASSUME recv_hook[next(u)] # None PROVE HookPhase(u)' /\ next(u) \in contexts'
      <3>1. next(u) = t
        BY <1>1, <2>1, HooksOfWoken, Zenon
      <3>2. next(u)' = t
        BY <3>1, Zenon DEF next
      <3> QED
        BY <1>1, <1>3, <1>5, <1>6, <3>1, <3>2 DEF HookPhase
    <2> QED
      BY <1>1, <1>2, <2>1, HookKept, Zenon
  <1>11. main' = main /\ ~asserted'
    BY <1>1, Zenon
  <1> QED
    BY <1>1, <1>2, <1>4, <1>8, <1>9, <1>10, <1>11, OrderThread, Zenon

\* A thread leaves, launching the hook that it has been left.
LEMMA OrderExit ==
  ASSUME OrderInv, Inv', NEW t \in Thread, exit(t)
  PROVE  OrderInv'
  <1> USE Parts
  <1>1. /\ plan' = plan /\ state[t] = "running"
        /\ UNCHANGED <<main, at, forward_context, current_stream, handles, handle, asserted>>
        /\ UNCHANGED <<recorded, completed, done, results, raised>>
        /\ state' = [state EXCEPT ![t] = "exiting"] /\ contexts' = contexts \ {t}
        /\ recv_hook' = [recv_hook EXCEPT ![t] = None] /\ event' = [event EXCEPT ![next(t)] = TRUE]
        /\ queue' = Enqueue(current_stream[t], hook_kernels(t))
    BY Zenon DEF exit, exit_event
  <1>2. /\ QueueType' /\ QueueInv' /\ OrderKept
        /\ \A k : recv_hook[t] = k => k = None \/ On(k, "compute")'
    BY <1>1, HookRun, Zenon
  <1>3. state'[t] = "exiting" /\ \A u \in Thread \ {t} : state'[u] = state[u]
    BY <1>1, Zenon DEF ControlType
  <1>4. ControlType'
    BY <1>1, Zenon DEF ControlType, layer_program
  <1>5. DataType'
    BY <1>1, PlanFixes, Zenon DEF DataType
  <1>6. ThreadInv(t)' /\ Ready(t)'
    <2>1. ~Present(t)' /\ main # "start" /\ state'[t] # "yielded" /\ t \notin contexts'
      BY <1>1, <1>3, Zenon DEF Present, ThreadInv
    <2>2. \A s \in Stream : recorded'[s][t] = recorded[s][t]
      BY <1>1, Zenon
    <2>3. t \in contexts' <=> state'[t] \in {"barrier", "waiting", "running", "yielded"}
      BY <1>3, <2>1
    <2>4. state'[t] \notin {"new", "starting", "barrier", "waiting"}
      BY <1>3
    <2>5. recv_hook'[next(t)] = recv_hook[next(t)]
      BY <1>1, Ring, Zenon DEF DataType
    <2>6. HookSafe(t)
      BY <2>5, Zenon DEF HookSafe
    <2> QED
      BY <1>1, <1>2, <2>1, <2>2, <2>3, <2>4, <2>6, Moved, Zenon
  <1>7. ASSUME NEW u \in Thread, u # t PROVE Same(u) /\ HookSafe(u)
    <2>1. Same(u)
      BY <1>1, <1>3, <1>7, Zenon DEF Same
    <2>2. CASE next(u) = t
      BY <1>2, <2>1, <2>2, Zenon DEF HookSafe
    <2>3. CASE next(u) # t
      <3>1. recv_hook'[next(u)] = recv_hook[next(u)]
        BY <1>1, <2>3, Zenon DEF DataType
      <3> QED
        BY <2>1, <3>1, Zenon DEF HookSafe
    <2> QED
      BY <2>1, <2>2, <2>3, Zenon
  <1>8. ASSUME NEW u \in Thread PROVE HookInv(u)'
    <2>1. ASSUME recv_hook'[next(u)] # None
          PROVE  recv_hook'[next(u)] = recv_hook[next(u)] /\ next(u) \in contexts' /\ HookPhase(u)'
      <3>1. next(u) # t /\ recv_hook'[next(u)] = recv_hook[next(u)]
        BY <1>1, <2>1, Zenon DEF DataType
      <3>2. u = t
        BY <1>1, <2>1, <3>1, HooksOfRunning, Zenon
      <3>3. event'[next(t)]
        BY <1>1, Zenon DEF ControlType
      <3>4. HookPhase(u)'
        BY <3>2, <3>3, Zenon DEF HookPhase, next
      <3> QED
        BY <1>1, <2>1, <3>1, <3>4, Zenon DEF HookInv
    <2> QED
      BY <1>1, <1>2, <2>1, HookKept, Zenon
  <1>9. main' = main /\ ~asserted'
    BY <1>1, Zenon
  <1> QED
    BY <1>1, <1>2, <1>4, <1>5, <1>6, <1>7, <1>8, <1>9, OrderThread, Zenon

\* The GPU takes the next of a stream.
LEMMA OrderGpu ==
  ASSUME OrderInv, Inv', NEW s \in Stream, gpu_step(s)
  PROVE  OrderInv'
  <1> USE Parts
  <1>1. plan' = plan /\ main' = main /\ UNCHANGED <<event, results, threads, recorded>>
    BY Zenon DEF gpu_step
  <1>2. QueueType' /\ QueueInv' /\ OrderKept
    BY StepKeeps, Zenon
  <1>3. done' \subseteq AllKernels
    <2>1. queue[s][1] \in Item /\ Head(queue[s]) = queue[s][1]
      BY Taken, Zenon
    <2>2. done' = done \/ (queue[s][1].op = "kernel" /\ done' = done \cup {queue[s][1].kernel})
      BY <2>1, Zenon DEF gpu_step
    <2>3. queue[s][1].op = "kernel" => queue[s][1].kernel \in AllKernels
      BY <2>1, Zenon DEF Item
    <2> QED
      BY <2>2, <2>3, Zenon DEF DataType
  <1>4. ControlType'
    BY <1>1, Zenon DEF ControlType, layer_program, threads
  <1>5. DataType'
    BY <1>1, <1>3, PlanFixes, Zenon DEF DataType, threads
  <1>6. ASSUME NEW u \in Thread PROVE ThreadInv(u)' /\ Ready(u)' /\ HookInv(u)'
    <2>1. Same(u) /\ recv_hook' = recv_hook
      BY <1>1, Zenon DEF Same, threads
    <2>2. ThreadInv(u)' /\ Ready(u)'
      BY <1>1, <1>2, <2>1, HooksStay, Untouched, Zenon
    <2>3. HookPhase(u) => HookPhase(u)'
      <3>1. offset(u)' = offset(u) /\ offset(next(u))' = offset(next(u))
        BY <1>1, Zenon DEF offset, layer_program, next, threads
      <3> QED
        BY <1>1, <3>1, Zenon DEF HookPhase, next, threads
    <2>4. HookInv(u)'
      <3>1. contexts' = contexts
        BY <1>1, Zenon DEF threads
      <3> QED
        BY <1>1, <1>2, <2>1, <2>3, <3>1, HookKept, Zenon DEF HookInv
    <2> QED
      BY <2>2, <2>4
  <1>7. ~asserted'
    BY <1>1, Zenon DEF threads
  <1> QED
    BY <1>1, <1>2, <1>4, <1>5, <1>6, <1>7, Together, Zenon

-----------------------------------------------------------------------------
(* The order holds in every state. *)

\* Every step keeps it.
LEMMA NextOrder == OrderInv /\ [Next]_vars => OrderInv'
  <1> SUFFICES ASSUME OrderInv, [Next]_vars PROVE OrderInv'
    OBVIOUS
  <1>1. Inv'
    BY NextInv, Zenon DEF OrderInv
  <1>2. CASE UNCHANGED vars
    <2>1. UNCHANGED <<plan, main, event, results, threads, gpu>>
      BY <1>2, Zenon DEF vars
    <2>2. /\ UNCHANGED <<plan, main, event, results, state, at, contexts, forward_context>>
          /\ UNCHANGED <<current_stream, recv_hook, handles, handle, raised, asserted>>
          /\ UNCHANGED <<queue, recorded, completed, done>>
      BY <2>1, Zenon DEF threads, gpu
    <2>3. ControlType'
      BY <2>2, Parts, Zenon DEF ControlType, layer_program
    <2>4. \A u \in Thread : Stage(u)
      BY <2>2, Parts, Zenon DEF Stage, Present, ThreadInv
    <2>5. ASSUME NEW u \in Thread, recv_hook[next(u)] # None, HookPhase(u)
          PROVE  next(u) \in contexts' /\ HookPhase(u)'
      <3>1. offset(u)' = offset(u) /\ offset(next(u))' = offset(next(u))
        BY <2>2, Zenon DEF offset, layer_program, next
      <3>2. HookPhase(u)'
        BY <2>2, <2>5, <3>1, Zenon DEF HookPhase, next
      <3> QED
        BY <2>2, <2>5, <3>2, Parts, Zenon DEF HookInv
    <2>6. UNCHANGED gpu
      BY <2>1, Zenon
    <2> QED
      BY <1>1, <2>2, <2>3, <2>4, <2>5, <2>6, OrderStage, Zenon
  <1>3. CASE \/ start_threads \/ ready_barrier \/ wake_first \/ join
             \/ \E t \in Thread : enter(t) \/ exit_clear(t) \/ launch_raises(t)
    BY <1>1, <1>3, OrderStages, Zenon
  <1>4. ASSUME NEW t \in Thread,
               \/ enter_wait(t) \/ exit(t) \/ launch(t) \/ finalize(t) \/ switch(t)
               \/ switch_to_compute_sync(t) \/ maybe_run_recv_hook(t) \/ dbo_register_recv_hook(t)
               \/ yield_signal(t) \/ yield_resume(t)
        PROVE  OrderInv'
    BY <1>1, <1>4, OrderEnterWait, OrderExit, OrderLaunch, OrderFinalize, OrderSwitch, OrderSync,
       OrderRunHook, OrderRegister, OrderYieldSignal, OrderYieldResume, Zenon
  <1>5. ASSUME NEW s \in Stream, gpu_step(s) PROVE OrderInv'
    BY <1>1, <1>5, OrderGpu, Zenon
  <1> QED
    BY <1>2, <1>3, <1>4, <1>5, Zenon DEF Next, Step, thread

\* In every reachable state of every pass, for any number of micro-batches and of
\* layers, with either back end and whatever raises: the GPU runs a kernel only
\* after those whose outputs it reads, and no assertion of a yield or of a
\* finalize has failed.
THEOREM KernelsRunAfterTheirInputs == Spec => []KernelsHaveInputs
  <1>1. OrderInv => KernelsHaveInputs
    BY Parts, Zenon DEF KernelsHaveInputs, QueueInv
  <1> QED
    BY <1>1, InitOrder, NextOrder, PTL DEF Spec

=============================================================================
