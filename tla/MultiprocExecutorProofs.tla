----------------------- MODULE MultiprocExecutorProofs -----------------------
(***************************************************************************)
(* A call is answered by the replies to that call, for any number of       *)
(* workers, calls and chunks and in every configuration, although a reply  *)
(* does not say which call it answers.  Every queue of the executor holds  *)
(* consecutive calls; as long as no call has failed, the replies under way *)
(* from a worker are, in order, those to the calls that it has read and    *)
(* whose futures have not taken them.                                      *)
(***************************************************************************)
EXTENDS MultiprocExecutor, TLAPS

\* The engine ended in the last call, after shutdown(): it has no future.
late == pc = "dead" /\ \E c \in Call : c = calls /\ outcome[c] = "none"

\* Calls that have been broadcast, whose future has been taken from the queue,
\* and that a worker has read.
issued == IF pc = "enqueue" \/ late THEN calls - 1 ELSE calls
drained == issued - Len(futures_queue)
consumed(w) == issued - Len(rpc_broadcast_mq[w])

Reply == [call : Call, success : BOOLEAN]

TypeInv ==
    /\ TypeOK
    /\ config \in Configs
    /\ outputs \in [Worker -> Seq(Reply)]
    /\ response_mqs \in [Worker -> Seq(Reply)]

\* The queues of calls and of futures hold consecutive calls, up to the last one.
QueueInv ==
    /\ issued \in Nat /\ drained \in Nat
    /\ \A i \in DOMAIN futures_queue : futures_queue[i] = drained + i
    /\ \A w \in Worker :
          /\ consumed(w) \in Nat
          /\ \A i \in DOMAIN rpc_broadcast_mq[w] : rpc_broadcast_mq[w][i] = consumed(w) + i

\* Futures are resolved in the order of the calls; the one that is being drained
\* still waits for a reply.
FutureInv ==
    /\ pc # "result" => current = 0
    /\ pc = "result" => target \in 1 .. issued
    /\ current # 0 => /\ current = drained
                      /\ Len(got[current]) < Len(reply_ranks(kind[current]))
    /\ \A c \in Call :
          /\ kind[c] = "none" <=> c > calls
          /\ outcome[c] = "none" <=> c > issued
          /\ outcome[c] \in {"ok", "error"} <=> c <= drained /\ c # current
          /\ c > drained => got[c] = <<>>

\* The reply of worker w to call c has been taken.
taken(w, c) ==
    /\ c <= drained
    /\ c = current => \E i \in DOMAIN got[c] : reply_ranks(kind[c])[i] = w

\* A reply of worker w to call c is under way.
underway(w, c) ==
    \/ \E i \in DOMAIN response_mqs[w] : response_mqs[w][i].call = c
    \/ \E i \in DOMAIN outputs[w] : outputs[w][i].call = c

NoError == \A c \in Call : outcome[c] # "error"

\* The replies under way from a worker are in the order of the calls, and they
\* are the ones that are still to be taken.
PipeInv ==
    NoError => \A w \in Worker :
        /\ \A i, j \in DOMAIN response_mqs[w] :
              i < j => response_mqs[w][i].call < response_mqs[w][j].call
        /\ \A i, j \in DOMAIN outputs[w] : i < j => outputs[w][i].call < outputs[w][j].call
        /\ \A i \in DOMAIN response_mqs[w], j \in DOMAIN outputs[w] :
              response_mqs[w][i].call < outputs[w][j].call
        /\ \A c \in Call :
              /\ underway(w, c) <=> c <= consumed(w) /\ replies(w, c) /\ ~taken(w, c)
              /\ replies(w, c) /\ taken(w, c) => c <= consumed(w)

GotInv ==
    \A c \in Call : (\A d \in 1 .. c - 1 : outcome[d] # "error") =>
        \A i \in DOMAIN got[c] : got[c][i] = c

IInv == TypeInv /\ QueueInv /\ FutureInv /\ PipeInv /\ GotInv

-----------------------------------------------------------------------------

\* What is left of a queue when its first element is taken.
LEMMA TailFacts ==
  ASSUME NEW S, NEW s \in Seq(S), s # <<>>
  PROVE  /\ Len(s) \in Nat \ {0} /\ DOMAIN s = 1 .. Len(s)
         /\ Head(s) = s[1] /\ Head(s) \in S
         /\ Tail(s) \in Seq(S) /\ Len(Tail(s)) = Len(s) - 1 /\ DOMAIN Tail(s) = 1 .. Len(s) - 1
         /\ \A i \in 1 .. Len(s) - 1 : Tail(s)[i] = s[i + 1]
  OBVIOUS

\* A queue to which an element is added.
LEMMA AppendFacts ==
  ASSUME NEW S, NEW s \in Seq(S), NEW e \in S
  PROVE  /\ Len(s) \in Nat /\ DOMAIN s = 1 .. Len(s)
         /\ Append(s, e) \in Seq(S) /\ Len(Append(s, e)) = Len(s) + 1
         /\ DOMAIN Append(s, e) = 1 .. Len(s) + 1
         /\ \A i \in 1 .. Len(s) : Append(s, e)[i] = s[i]
         /\ Append(s, e)[Len(s) + 1] = e
  OBVIOUS

\* get_response asks every worker that replies, each once.
LEMMA RanksFacts ==
  ASSUME NEW k
  PROVE  /\ reply_ranks(k) \in Seq(Worker) /\ Len(reply_ranks(k)) \in Nat \ {0}
         /\ DOMAIN reply_ranks(k) = 1 .. Len(reply_ranks(k))
         /\ \A i, j \in DOMAIN reply_ranks(k) : reply_ranks(k)[i] = reply_ranks(k)[j] => i = j
  <1>1. CASE k = "step" /\ ~config.kv_aggregator
    <2>1. reply_ranks(k) = <<OutputRank>> /\ OutputRank \in Worker
      BY <1>1, MultiprocExecutorAssumption, Zenon DEF reply_ranks, Worker
    <2> QED
      BY <2>1
  <1>2. CASE ~(k = "step" /\ ~config.kv_aggregator)
    <2> DEFINE f == [i \in 1 .. WorldSize |-> i - 1]
    <2>1. reply_ranks(k) = f
      BY <1>2, Zenon DEF reply_ranks
    <2>2. \A i \in 1 .. WorldSize : f[i] \in Worker /\ f[i] = i - 1
      BY MultiprocExecutorAssumption DEF Worker
    <2>3. f \in Seq(Worker) /\ Len(f) = WorldSize /\ DOMAIN f = 1 .. WorldSize
      BY <2>2, MultiprocExecutorAssumption
    <2> QED
      BY <2>1, <2>2, <2>3, MultiprocExecutorAssumption
  <1> QED
    BY <1>1, <1>2, Zenon

\* The initial state: no call has been made.
LEMMA InitInv == Init => IInv
  <1> SUFFICES ASSUME Init PROVE IInv
    BY Zenon
  <1>1. /\ calls = 0 /\ pc = "idle" /\ Len(futures_queue) = 0
        /\ \A w \in Worker : Len(rpc_broadcast_mq[w]) = 0 /\ Len(response_mqs[w]) = 0
    BY Zenon DEF Init
  <1>2. issued = 0 /\ drained = 0 /\ \A w \in Worker : consumed(w) = 0
    BY <1>1 DEF issued, late, drained, consumed
  <1>3. TypeInv
    <2>1. config \in Configs /\ config.max_chunks \in Nat
      BY MultiprocExecutorAssumption, Zenon DEF Init
    <2>2. /\ futures_queue \in Seq(Call) /\ got \in [Call -> Seq(Call)]
          /\ rpc_broadcast_mq \in [Worker -> Seq(Call)]
          /\ outputs \in [Worker -> Seq(Reply)] /\ response_mqs \in [Worker -> Seq(Reply)]
      BY DEF Init
    <2>3. target \in 0 .. MaxCalls /\ current \in 0 .. MaxCalls /\ calls \in 0 .. MaxCalls
      BY MultiprocExecutorAssumption DEF Init
    <2>4. /\ kind \in [Call -> {"none", "step", "utility"}] /\ alive \in [Worker -> BOOLEAN]
          /\ outcome \in [Call -> {"none", "pending", "ok", "error"}]
          /\ is_failed \in BOOLEAN /\ shutting_down \in BOOLEAN
      BY Zenon DEF Init
    <2> QED
      BY <1>1, <2>1, <2>2, <2>3, <2>4 DEF TypeInv, TypeOK
  <1>4. QueueInv
    BY <1>2 DEF Init, QueueInv
  <1>5. FutureInv
    BY <1>1, <1>2, MultiprocExecutorAssumption DEF Init, FutureInv, Call
  <1>6. PipeInv
    BY <1>2 DEF Init, PipeInv, underway, taken, Call
  <1>7. GotInv
    BY DEF Init, GotInv
  <1> QED
    BY <1>3, <1>4, <1>5, <1>6, <1>7, Zenon DEF IInv

\* The counters never pass each other.
LEMMA Counters ==
  ASSUME IInv
  PROVE  /\ calls \in Nat /\ issued \in Nat /\ drained \in Nat
         /\ issued <= calls /\ calls <= MaxCalls /\ drained <= issued
         /\ Len(futures_queue) \in Nat /\ DOMAIN futures_queue = 1 .. Len(futures_queue)
         /\ drained + Len(futures_queue) = issued
         /\ \A w \in Worker :
               /\ consumed(w) \in Nat /\ consumed(w) <= issued
               /\ Len(rpc_broadcast_mq[w]) \in Nat
               /\ DOMAIN rpc_broadcast_mq[w] = 1 .. Len(rpc_broadcast_mq[w])
               /\ consumed(w) + Len(rpc_broadcast_mq[w]) = issued
  <1>1. /\ Len(futures_queue) \in Nat /\ DOMAIN futures_queue = 1 .. Len(futures_queue)
        /\ calls \in 0 .. MaxCalls
    BY DEF IInv, TypeInv, TypeOK
  <1>2. \A w \in Worker : /\ Len(rpc_broadcast_mq[w]) \in Nat
                          /\ DOMAIN rpc_broadcast_mq[w] = 1 .. Len(rpc_broadcast_mq[w])
    BY DEF IInv, TypeInv, TypeOK
  <1>3. issued \in Nat /\ drained \in Nat /\ \A w \in Worker : consumed(w) \in Nat
    BY Zenon DEF IInv, QueueInv
  <1>4. issued <= calls
    BY <1>1 DEF issued
  <1> QED
    BY <1>1, <1>2, <1>3, <1>4, MultiprocExecutorAssumption DEF drained, consumed

\* A step that leaves the calls, the futures and the queues alone.
LEMMA Frame ==
  ASSUME IInv, TypeInv', UNCHANGED <<config, kind, futures_queue, current, outcome, got, queueVars>>,
         issued' = issued, calls' = calls,
         pc' # "result" => current = 0,
         pc' = "result" => target' \in 1 .. issued
  PROVE  IInv'
  <1>1. drained' = drained /\ \A w \in Worker : consumed(w)' = consumed(w)
    BY Zenon DEF drained, consumed, queueVars
  <1>2. \A k : reply_ranks(k)' = reply_ranks(k)
    BY Zenon DEF reply_ranks
  <1>3. \A w, c : replies(w, c)' = replies(w, c) /\ taken(w, c)' = taken(w, c) /\ underway(w, c)' = underway(w, c)
    BY <1>1, <1>2, Zenon DEF replies, taken, underway, queueVars
  <1>4. QueueInv'
    BY <1>1, Zenon DEF IInv, QueueInv, queueVars
  <1>5. FutureInv'
    BY <1>1, <1>2, Zenon DEF IInv, FutureInv
  <1>6. PipeInv' /\ GotInv'
    BY <1>1, <1>3, Zenon DEF IInv, PipeInv, NoError, GotInv, queueVars
  <1> QED
    BY <1>4, <1>5, <1>6, Zenon DEF IInv

\* Wherever else the engine is, every call has a future.
LEMMA NotLate ==
  ASSUME IInv, pc \in {"idle", "result"}
  PROVE  \A c \in Call : c = calls => outcome[c] # "none"
  <1>1. issued = calls
    BY DEF issued, late
  <1> QED
    BY <1>1, Counters DEF IInv, FutureInv, Call

\* The steps that change only where the engine is, and which workers are alive.
LEMMA Moves ==
  IInv /\ (enqueue_late \/ executor_failed \/ result_done \/ (\E c \in Call : result(c)) \/ Monitor
           \/ (\E w \in Worker : die(w)) \/ UNCHANGED vars) => IInv'
  <1> USE DEF engineVars, queueVars
  <1>1. ASSUME IInv, executor_failed PROVE IInv'
    <2>1. TypeInv' /\ issued' = issued
      BY <1>1, NotLate, Zenon DEF executor_failed, IInv, TypeInv, TypeOK, issued, late
    <2> QED
      BY <1>1, <2>1, Frame, Zenon DEF executor_failed, IInv, FutureInv
  <1>2. ASSUME IInv, result_done PROVE IInv'
    <2>1. TypeInv'
      BY <1>2, MultiprocExecutorAssumption, Zenon DEF result_done, IInv, TypeInv, TypeOK
    <2>2. issued' = issued
      BY <1>2, NotLate, Zenon DEF result_done, issued, late
    <2> QED
      BY <1>2, <2>1, <2>2, Frame, Zenon DEF result_done
  <1>3. ASSUME IInv, NEW c \in Call, result(c) PROVE IInv'
    <2>1. TypeInv' /\ issued' = issued
      BY <1>3, MultiprocExecutorAssumption DEF result, IInv, TypeInv, TypeOK, issued, late, Call
    <2>2. c \in 1 .. issued
      BY <1>3, Counters DEF result, IInv, FutureInv, Call
    <2> QED
      BY <1>3, <2>1, <2>2, Frame, Zenon DEF result
  <1>4. ASSUME IInv, Monitor \/ (\E w \in Worker : die(w)) \/ UNCHANGED vars PROVE IInv'
    <2>1. /\ UNCHANGED <<config, pc, calls, kind, futures_queue, target, current, outcome, got, queueVars>>
          /\ alive' \in [Worker -> BOOLEAN] /\ {is_failed', shutting_down'} \subseteq BOOLEAN
      BY <1>4, Zenon DEF Monitor, monitor_workers, shutdown, die, vars, IInv, TypeInv, TypeOK
    <2>2. TypeInv' /\ issued' = issued
      BY <1>4, <2>1, Zenon DEF IInv, TypeInv, TypeOK, issued, late
    <2> QED
      BY <1>4, <2>1, <2>2, Frame, Zenon DEF IInv, FutureInv
  <1>5. ASSUME IInv, enqueue_late PROVE IInv'
    <2>1. TypeInv'
      BY <1>5, Zenon DEF enqueue_late, IInv, TypeInv, TypeOK
    <2>2. issued = calls - 1 /\ calls > issued /\ calls \in Call
      BY <1>5, Counters DEF enqueue_late, issued, Call
    <2>3. outcome[calls] = "none"
      BY <2>2, <1>5, Zenon DEF IInv, FutureInv
    <2>4. issued' = issued
      BY <1>5, <2>2, <2>3, Zenon DEF enqueue_late, issued, late
    <2> QED
      BY <1>5, <2>1, <2>4, Frame, Zenon DEF enqueue_late, IInv, FutureInv
  <1> QED
    BY <1>1, <1>2, <1>3, <1>4, <1>5, Zenon

\* collective_rpc numbers the call; no queue knows of it yet.
LEMMA CollectiveRpc ==
  ASSUME IInv, NEW k \in {"step", "utility"}, collective_rpc(k)
  PROVE  IInv'
  <1>1. calls' = calls + 1 /\ calls + 1 \in Call /\ pc = "idle" /\ pc' = "enqueue"
        /\ kind' = [kind EXCEPT ![calls + 1] = k]
    BY MultiprocExecutorAssumption DEF collective_rpc, IInv, TypeInv, TypeOK, Call
  <1>2. UNCHANGED <<config, futures_queue, target, current, outcome, got, rpc_broadcast_mq, outputs,
                    response_mqs, alive, is_failed, shutting_down>>
    BY Zenon DEF collective_rpc, queueVars
  <1>3. issued' = issued /\ issued = calls
    BY <1>1, Counters DEF issued, late
  <1>4. drained' = drained /\ \A w \in Worker : consumed(w)' = consumed(w)
    BY <1>2, <1>3, Zenon DEF drained, consumed
  <1>5. \A x : reply_ranks(x)' = reply_ranks(x)
    BY <1>2, Zenon DEF reply_ranks
  <1>6. kind' \in [Call -> {"none", "step", "utility"}] /\ kind'[calls + 1] = k
        /\ \A c \in Call : c # calls + 1 => kind'[c] = kind[c]
    BY <1>1, Zenon DEF IInv, TypeInv, TypeOK
  <1>7. TypeInv'
    BY <1>1, <1>2, <1>6, MultiprocExecutorAssumption DEF IInv, TypeInv, TypeOK, Call
  <1>8. QueueInv'
    BY <1>2, <1>3, <1>4, Zenon DEF IInv, QueueInv
  <1>9. FutureInv'
    <2>1. current = 0
      BY <1>1, Zenon DEF IInv, FutureInv
    <2> QED
      BY <1>1, <1>2, <1>3, <1>4, <1>6, <2>1, Counters DEF IInv, FutureInv, Call
  <1>10. PipeInv'
    <2>1. \A w \in Worker, c \in Call : c # calls + 1 =>
            (replies(w, c)' <=> replies(w, c)) /\ (taken(w, c)' <=> taken(w, c))
      BY <1>2, <1>4, <1>5, <1>6, Zenon DEF replies, taken
    <2>2. \A w \in Worker, c \in Call : c = calls + 1 => ~(c <= consumed(w)) /\ ~taken(w, c)'
      BY <1>3, <1>4, Counters DEF taken, Call
    <2>3. \A w \in Worker, c \in Call : underway(w, c)' <=> underway(w, c)
      BY <1>2, Zenon DEF underway
    <2> QED
      BY <1>2, <1>4, <2>1, <2>2, <2>3, Zenon DEF IInv, PipeInv, NoError
  <1>11. GotInv'
    BY <1>2, Zenon DEF IInv, GotInv
  <1> QED
    BY <1>7, <1>8, <1>9, <1>10, <1>11, Zenon DEF IInv

\* enqueue: the call is the last one of every queue.
LEMMA Enqueue == ASSUME IInv, enqueue PROVE IInv'
  <1>1. pc = "enqueue" /\ pc' \in {"idle", "result"} /\ calls' = calls /\ calls = issued + 1 /\ issued' = issued + 1
    BY Counters DEF enqueue, issued, late
  <1>2. calls \in Call
    BY <1>1, Counters DEF Call
  <1>3. UNCHANGED <<config, kind, current, got, outputs, response_mqs, alive, is_failed, shutting_down>>
    BY Zenon DEF enqueue
  <1>4. /\ futures_queue \in Seq(Call) /\ futures_queue' = Append(futures_queue, calls)
        /\ \A w \in Worker : /\ rpc_broadcast_mq[w] \in Seq(Call)
                             /\ rpc_broadcast_mq'[w] = Append(rpc_broadcast_mq[w], calls)
    BY Zenon DEF enqueue, IInv, TypeInv, TypeOK
  <1>5. /\ Len(futures_queue') = Len(futures_queue) + 1
        /\ DOMAIN futures_queue' = 1 .. Len(futures_queue) + 1
        /\ \A i \in 1 .. Len(futures_queue) : futures_queue'[i] = futures_queue[i]
        /\ futures_queue'[Len(futures_queue) + 1] = issued + 1
    BY <1>1, <1>2, <1>4, AppendFacts
  <1>6. ASSUME NEW w \in Worker
        PROVE  /\ Len(rpc_broadcast_mq'[w]) = Len(rpc_broadcast_mq[w]) + 1
               /\ DOMAIN rpc_broadcast_mq'[w] = 1 .. Len(rpc_broadcast_mq[w]) + 1
               /\ \A i \in 1 .. Len(rpc_broadcast_mq[w]) : rpc_broadcast_mq'[w][i] = rpc_broadcast_mq[w][i]
               /\ rpc_broadcast_mq'[w][Len(rpc_broadcast_mq[w]) + 1] = issued + 1
    <2> DEFINE s == rpc_broadcast_mq[w]
    <2>1. s \in Seq(Call) /\ rpc_broadcast_mq'[w] = Append(s, calls)
      BY <1>4, Zenon
    <2> HIDE DEF s
    <2>2. /\ Len(Append(s, calls)) = Len(s) + 1 /\ DOMAIN Append(s, calls) = 1 .. Len(s) + 1
          /\ \A i \in 1 .. Len(s) : Append(s, calls)[i] = s[i]
          /\ Append(s, calls)[Len(s) + 1] = calls
      BY <1>2, <2>1, AppendFacts
    <2> QED
      BY <1>1, <2>1, <2>2, Zenon DEF s
  <1>7. drained' = drained /\ \A w \in Worker : consumed(w)' = consumed(w)
    <2>1. drained' = drained
      BY <1>1, <1>5, Counters DEF drained
    <2>2. ASSUME NEW w \in Worker PROVE consumed(w)' = consumed(w)
      <3>1. Len(rpc_broadcast_mq'[w]) = Len(rpc_broadcast_mq[w]) + 1
        BY <1>6, Zenon
      <3> QED
        BY <1>1, <3>1, Counters DEF consumed
    <2> QED
      BY <2>1, <2>2, Zenon
  <1>8. current = 0
    BY <1>1, Zenon DEF IInv, FutureInv
  <1>9. /\ outcome' \in [Call -> {"none", "pending", "ok", "error"}] /\ outcome'[calls] = "pending"
        /\ \A c \in Call : c # calls => outcome'[c] = outcome[c]
    BY <1>2, Zenon DEF enqueue, IInv, TypeInv, TypeOK
  <1>10. TypeInv'
    <2>1. futures_queue' \in Seq(Call)
      BY <1>2, <1>4, AppendFacts, Zenon
    <2>2. rpc_broadcast_mq' \in [Worker -> Seq(Call)]
      BY <1>2, <1>4, AppendFacts, Zenon DEF enqueue
    <2>3. \A w \in Worker : Len(rpc_broadcast_mq'[w]) <= config.max_chunks
      <3>1. config.max_chunks \in Nat
        BY MultiprocExecutorAssumption, Zenon DEF IInv, TypeInv
      <3> QED
        BY <1>6, <3>1, Counters, SMTT(30) DEF enqueue, chunk_free
    <2>4. target' \in 0 .. MaxCalls
      BY <1>2, MultiprocExecutorAssumption, Zenon DEF enqueue, IInv, TypeInv, TypeOK, Call
    <2> QED
      BY <1>1, <1>3, <1>9, <2>1, <2>2, <2>3, <2>4, Zenon DEF IInv, TypeInv, TypeOK
  <1>11. QueueInv'
    <2>1. \A i \in DOMAIN futures_queue' : futures_queue'[i] = drained + i
      <3>1. \A i \in 1 .. Len(futures_queue) : futures_queue[i] = drained + i
        BY Counters, Zenon DEF IInv, QueueInv
      <3>2. drained + (Len(futures_queue) + 1) = issued + 1 /\ Len(futures_queue) \in Nat
        BY Counters
      <3> QED
        BY <1>5, <3>1, <3>2
    <2>2. ASSUME NEW w \in Worker
          PROVE  \A i \in DOMAIN rpc_broadcast_mq'[w] : rpc_broadcast_mq'[w][i] = consumed(w) + i
      <3>1. \A i \in 1 .. Len(rpc_broadcast_mq[w]) : rpc_broadcast_mq[w][i] = consumed(w) + i
        BY Counters, Zenon DEF IInv, QueueInv
      <3>2. consumed(w) + (Len(rpc_broadcast_mq[w]) + 1) = issued + 1 /\ Len(rpc_broadcast_mq[w]) \in Nat
        BY Counters
      <3> QED
        BY <1>6, <3>1, <3>2, SMTT(60)
    <2> QED
      BY <1>1, <1>7, <2>1, <2>2, Counters, Zenon DEF QueueInv
  <1>12. FutureInv'
    <2>1. pc' = "result" => target' \in 1 .. issued'
      BY <1>1, Counters DEF enqueue
    <2>2. \A c \in Call :
            /\ kind[c] = "none" <=> c > calls
            /\ outcome'[c] = "none" <=> c > issued + 1
            /\ outcome'[c] \in {"ok", "error"} <=> c <= drained /\ c # 0
            /\ c > drained => got[c] = <<>>
      BY <1>1, <1>8, <1>9, Counters DEF IInv, FutureInv, Call
    <2> QED
      BY <1>1, <1>3, <1>7, <1>8, <2>1, <2>2, Zenon DEF FutureInv
  <1>13. PipeInv'
    <2>1. \A x : reply_ranks(x)' = reply_ranks(x)
      BY <1>3, Zenon DEF reply_ranks
    <2>2. \A w \in Worker, c \in Call : /\ replies(w, c)' <=> replies(w, c)
                                        /\ taken(w, c)' <=> taken(w, c)
                                        /\ underway(w, c)' <=> underway(w, c)
      BY <1>3, <1>7, <2>1, Zenon DEF replies, taken, underway
    <2>3. NoError' => NoError
      BY <1>1, <1>2, <1>9, Counters DEF NoError, IInv, FutureInv
    <2> QED
      BY <1>3, <1>7, <2>2, <2>3, Zenon DEF IInv, PipeInv
  <1>14. GotInv'
    <2>1. \A c \in Call : outcome'[c] # "error" => outcome[c] # "error"
      BY <1>1, <1>2, <1>9, Counters DEF IInv, FutureInv
    <2>2. \A c \in Call : \A d \in 1 .. c - 1 : d \in Call
      BY MultiprocExecutorAssumption DEF Call
    <2> QED
      BY <1>3, <2>1, <2>2, Zenon DEF IInv, GotInv
  <1> QED
    BY <1>10, <1>11, <1>12, <1>13, <1>14, Zenon DEF IInv

\* drain_next takes the future of the oldest call that is not yet resolved.
LEMMA DrainNext == ASSUME IInv, drain_next PROVE IInv'
  <1> DEFINE n == drained + 1
             q == futures_queue
  <1>1. pc = "result" /\ current = 0 /\ UNCHANGED <<config, pc, calls, kind, target, outcome, got,
           rpc_broadcast_mq, outputs, response_mqs, alive, is_failed, shutting_down>>
    BY Zenon DEF drain_next, queueVars
  <1>2. target \in 1 .. issued /\ target \in Call /\ outcome[target] = "pending" /\ target > drained
    <2>1. target \in 1 .. issued /\ target \in Call /\ outcome[target] = "pending"
      BY <1>1, Counters, MultiprocExecutorAssumption DEF drain_next, IInv, FutureInv, Call
    <2> QED
      BY <1>1, <2>1, Counters DEF IInv, FutureInv, Call
  <1>3. q \in Seq(Call) /\ q # <<>>
    <2>1. q \in Seq(Call) /\ Len(q) > 0
      BY <1>2, Counters DEF IInv, TypeInv, TypeOK
    <2> QED
      BY <2>1
  <1>4. /\ Head(q) = n /\ n \in Call
        /\ futures_queue' \in Seq(Call) /\ Len(futures_queue') = Len(q) - 1
        /\ DOMAIN futures_queue' = 1 .. Len(q) - 1 /\ Len(q) \in Nat \ {0}
        /\ \A i \in 1 .. Len(q) - 1 : futures_queue'[i] = drained + (i + 1)
    <2>1. \A i \in 1 .. Len(q) : q[i] = drained + i
      BY Counters, Zenon DEF IInv, QueueInv
    <2>2. futures_queue' = Tail(q) /\ Len(q) \in Nat
      BY Counters, Zenon DEF drain_next
    <2> HIDE DEF q
    <2> QED
      BY <1>3, <2>1, <2>2, TailFacts
  <1>5. issued' = issued /\ drained' = n /\ current' = n /\ \A w \in Worker : consumed(w)' = consumed(w)
    BY <1>1, <1>4, Counters DEF drain_next, issued, late, drained, consumed
  <1>6. \A x : reply_ranks(x)' = reply_ranks(x)
    BY <1>1, Zenon DEF reply_ranks
  <1>7. TypeInv'
    BY <1>1, <1>4, <1>5, SMTT(30) DEF IInv, TypeInv, TypeOK, Call
  <1>8. QueueInv'
    <2>1. \A i \in DOMAIN futures_queue' : futures_queue'[i] = n + i
      BY <1>4, Counters, SMTT(30)
    <2> QED
      BY <1>1, <1>5, <2>1, Counters DEF IInv, QueueInv
  <1>9. got[n] = <<>> /\ Len(got[n]) = 0 /\ DOMAIN got[n] = {}
    BY <1>4, Counters DEF IInv, FutureInv
  <1>10. FutureInv'
    <2>1. Len(got[n]) < Len(reply_ranks(kind[n]))
      BY <1>9, RanksFacts
    <2>2. \A c \in Call : /\ outcome[c] \in {"ok", "error"} <=> c <= n /\ c # n
                          /\ c > n => got[c] = <<>>
      BY <1>1, Counters, SMTT(60) DEF IInv, FutureInv, Call
    <2> QED
      BY <1>1, <1>2, <1>5, <1>6, <2>1, <2>2, Zenon DEF IInv, FutureInv
  <1>11. PipeInv'
    <2>1. \A w \in Worker, c \in Call : taken(w, c)' <=> taken(w, c)
      BY <1>1, <1>5, <1>6, <1>9, Counters DEF taken, Call
    <2>2. \A w \in Worker, c \in Call : /\ replies(w, c)' <=> replies(w, c)
                                        /\ underway(w, c)' <=> underway(w, c)
      BY <1>1, <1>6, Zenon DEF replies, underway
    <2> QED
      BY <1>1, <1>5, <2>1, <2>2, Zenon DEF IInv, PipeInv, NoError
  <1>12. GotInv'
    BY <1>1, Zenon DEF IInv, GotInv
  <1> QED
    BY <1>7, <1>8, <1>10, <1>11, <1>12, Zenon DEF IInv

\* What holds while a future is being drained.
LEMMA Draining ==
  ASSUME IInv, current # 0
  PROVE  /\ current \in Call /\ current = drained /\ outcome[current] = "pending"
         /\ next_rank \in Worker /\ Len(got[current]) \in Nat
         /\ Len(got[current]) + 1 \in DOMAIN reply_ranks(kind[current])
         /\ replies(next_rank, current) /\ ~taken(next_rank, current)
  <1> DEFINE ranks == reply_ranks(kind[current])
             n == Len(got[current])
  <1>1. current \in Call /\ current = drained
    BY Counters DEF IInv, TypeInv, TypeOK, FutureInv, Call
  <1>2. outcome[current] = "pending"
    BY <1>1, Counters DEF IInv, FutureInv, TypeInv, TypeOK
  <1>3. got[current] \in Seq(Call) /\ n \in Nat /\ DOMAIN got[current] = 1 .. n
    BY <1>1, SMTT(30) DEF IInv, TypeInv, TypeOK
  <1>4. /\ n < Len(ranks) /\ ranks \in Seq(Worker) /\ DOMAIN ranks = 1 .. Len(ranks)
        /\ Len(ranks) \in Nat
        /\ \A i, j \in DOMAIN ranks : ranks[i] = ranks[j] => i = j
    BY RanksFacts, Zenon DEF IInv, FutureInv
  <1> HIDE DEF ranks, n
  <1>5. n + 1 \in DOMAIN ranks /\ ranks[n + 1] \in Worker
    BY <1>3, <1>4
  <1>6. next_rank = ranks[n + 1]
    BY Zenon DEF next_rank, ranks, n
  <1>7. replies(next_rank, current)
    BY <1>5, <1>6, Zenon DEF replies, ranks
  <1>8. \A i \in 1 .. n : ranks[i] # ranks[n + 1]
    BY <1>3, <1>4
  <1>9. ~taken(next_rank, current)
    BY <1>3, <1>6, <1>8, Zenon DEF taken, ranks
  <1> QED
    BY <1>1, <1>2, <1>3, <1>5, <1>6, <1>7, <1>9, Zenon DEF ranks, n

\* Replies under way are replies to calls.
LEMMA ReplyTypes ==
  ASSUME IInv, NEW w \in Worker
  PROVE  /\ \A i \in DOMAIN response_mqs[w] : response_mqs[w][i].call \in Call
         /\ \A i \in DOMAIN outputs[w] : outputs[w][i].call \in Call
  <1>1. ASSUME NEW s \in Seq(Reply), NEW i \in DOMAIN s PROVE s[i].call \in Call
    <2>1. s[i] \in Reply
      OBVIOUS
    <2> QED
      BY <2>1, Zenon DEF Reply
  <1>2. response_mqs[w] \in Seq(Reply) /\ outputs[w] \in Seq(Reply)
    BY Zenon DEF IInv, TypeInv
  <1> QED
    BY <1>1, <1>2, Zenon

\* As long as no call has failed, the first reply in the queue that get_response
\* reads is the reply to the call whose future it drains.
LEMMA HeadIsCurrent ==
  ASSUME IInv, NoError, current # 0, response_mqs[next_rank] # <<>>
  PROVE  response_mqs[next_rank][1].call = current
  <1> DEFINE w == next_rank
             r == response_mqs[w]
  <1>1. w \in Worker /\ replies(w, current) /\ ~taken(w, current) /\ current \in Call /\ current = drained
    BY Draining, Zenon
  <1>2. r \in Seq(Reply) /\ DOMAIN r = 1 .. Len(r) /\ Len(r) \in Nat \ {0}
    BY <1>1, TailFacts, Zenon DEF IInv, TypeInv
  <1>3. \A i \in DOMAIN r : r[i].call \in Call
    BY <1>1, ReplyTypes, Zenon
  <1>4. 1 \in DOMAIN r /\ underway(w, r[1].call)
    BY <1>2 DEF underway
  <1>5. r[1].call <= consumed(w) /\ ~taken(w, r[1].call)
    BY <1>1, <1>3, <1>4, Zenon DEF IInv, PipeInv
  <1>6. r[1].call >= current
    BY <1>1, <1>3, <1>4, <1>5, Counters DEF taken, Call
  <1>7. current <= consumed(w)
    BY <1>1, <1>3, <1>4, <1>5, <1>6, Counters DEF Call
  <1>8. underway(w, current)
    BY <1>1, <1>7, Zenon DEF IInv, PipeInv
  <1>9. \A i \in DOMAIN r : i # 1 => r[1].call < r[i].call
    BY <1>1, <1>2, <1>4 DEF IInv, PipeInv
  <1>10. \A i \in DOMAIN outputs[w] : r[1].call < outputs[w][i].call /\ outputs[w][i].call \in Call
    BY <1>1, <1>4, ReplyTypes, SMTT(30) DEF IInv, PipeInv
  <1> QED
    BY <1>1, <1>3, <1>4, <1>6, <1>8, <1>9, <1>10 DEF underway, Call

\* get_response_raises: the future is resolved with an error.
LEMMA GetResponseRaises == ASSUME IInv, get_response_raises PROVE IInv'
  <1>1. pc = "result" /\ current # 0 /\ current' = 0 /\ UNCHANGED <<config, pc, calls, kind, futures_queue, target, got,
           rpc_broadcast_mq, outputs, response_mqs, alive, is_failed, shutting_down>>
    BY Zenon DEF get_response_raises, queueVars
  <1>2. current \in Call /\ current = drained /\ outcome[current] = "pending"
    BY <1>1, Draining, Zenon
  <1>3. /\ outcome' \in [Call -> {"none", "pending", "ok", "error"}] /\ outcome'[current] = "error"
        /\ \A c \in Call : c # current => outcome'[c] = outcome[c]
    BY <1>2, Zenon DEF get_response_raises, IInv, TypeInv, TypeOK
  <1>4. issued' = issued /\ drained' = drained /\ \A w \in Worker : consumed(w)' = consumed(w)
    BY <1>1, Zenon DEF issued, late, drained, consumed
  <1>5. TypeInv'
    BY <1>1, <1>3, MultiprocExecutorAssumption DEF IInv, TypeInv, TypeOK
  <1>6. QueueInv'
    BY <1>1, <1>4, Zenon DEF IInv, QueueInv
  <1>7. FutureInv'
    BY <1>1, <1>2, <1>3, <1>4, Counters DEF IInv, FutureInv, Call
  <1>8. PipeInv'
    BY <1>2, <1>3, Zenon DEF PipeInv, NoError
  <1>9. GotInv'
    <2>1. \A c \in Call : outcome'[c] # "error" => outcome[c] # "error"
      BY <1>2, <1>3, Zenon
    <2>2. \A c \in Call : \A d \in 1 .. c - 1 : d \in Call
      BY MultiprocExecutorAssumption DEF Call
    <2> QED
      BY <1>1, <2>1, <2>2, Zenon DEF IInv, GotInv
  <1> QED
    BY <1>5, <1>6, <1>7, <1>8, <1>9, Zenon DEF IInv

\* get_response gives the future the next reply and resolves it after the last.
LEMMA GetResponse == ASSUME IInv, get_response PROVE IInv'
  <1> PICK cur, w, n, ranks, reply :
         /\ cur = current /\ w = next_rank /\ n = Len(got[current])
         /\ ranks = reply_ranks(kind[current]) /\ reply = Head(response_mqs[next_rank])
    BY Zenon
  <1> DEFINE last == ~reply.success \/ n + 1 = Len(ranks)
  <1>1. current = cur /\ cur # 0 /\ pc = "result" /\ response_mqs[w] # <<>>
        /\ UNCHANGED <<config, pc, calls, kind, futures_queue, target, rpc_broadcast_mq, outputs,
                       alive, is_failed, shutting_down>>
    BY Zenon DEF get_response
  <1>2. /\ cur \in Call /\ cur = drained /\ outcome[cur] = "pending"
        /\ w \in Worker /\ n \in Nat /\ n + 1 \in DOMAIN ranks
        /\ got[cur] \in Seq(Call) /\ DOMAIN got[cur] = 1 .. n
        /\ DOMAIN ranks = 1 .. Len(ranks) /\ Len(ranks) \in Nat
    <2>1. /\ cur \in Call /\ cur = drained /\ outcome[cur] = "pending"
          /\ w \in Worker /\ n \in Nat /\ n + 1 \in DOMAIN ranks
      BY <1>1, Draining, Zenon
    <2>2. DOMAIN ranks = 1 .. Len(ranks) /\ Len(ranks) \in Nat
      BY RanksFacts, Zenon
    <2>3. got[cur] \in Seq(Call)
      BY <2>1, Zenon DEF IInv, TypeInv, TypeOK
    <2>4. DOMAIN got[cur] = 1 .. n
      BY <1>1, <2>3
    <2> QED
      BY <2>1, <2>2, <2>3, <2>4, Zenon
  <1>3. /\ response_mqs[w] \in Seq(Reply)
        /\ reply = response_mqs[w][1] /\ reply \in Reply
        /\ reply.call \in Call /\ reply.success \in BOOLEAN
        /\ Tail(response_mqs[w]) \in Seq(Reply)
        /\ Len(response_mqs[w]) \in Nat \ {0} /\ DOMAIN response_mqs[w] = 1 .. Len(response_mqs[w])
        /\ Len(Tail(response_mqs[w])) = Len(response_mqs[w]) - 1
        /\ DOMAIN Tail(response_mqs[w]) = 1 .. Len(response_mqs[w]) - 1
        /\ \A i \in 1 .. Len(response_mqs[w]) - 1 : Tail(response_mqs[w])[i] = response_mqs[w][i + 1]
    <2>1. response_mqs[w] \in Seq(Reply)
      BY <1>2, Zenon DEF IInv, TypeInv
    <2>2. reply \in Reply
      BY <1>1, <2>1, TailFacts, Zenon
    <2>3. reply.call \in Call /\ reply.success \in BOOLEAN
      BY <2>2, SMTT(30) DEF Reply
    <2> QED
      BY <1>1, <2>1, <2>2, <2>3, TailFacts, Zenon
  <1>4. /\ response_mqs'[w] = Tail(response_mqs[w])
        /\ \A v \in Worker : v # w => response_mqs'[v] = response_mqs[v]
        /\ response_mqs' \in [Worker -> Seq(Reply)]
    BY <1>2, <1>3, Zenon DEF get_response, IInv, TypeInv
  <1>5. got' = [got EXCEPT ![cur] = Append(got[cur], reply.call)]
    BY SMTT(30) DEF get_response
  <1>6. /\ got' \in [Call -> Seq(Call)]
        /\ Len(got'[cur]) = n + 1 /\ DOMAIN got'[cur] = 1 .. n + 1
        /\ got'[cur][n + 1] = reply.call /\ \A i \in 1 .. n : got'[cur][i] = got[cur][i]
        /\ \A c \in Call : c # cur => got'[c] = got[c]
    <2>1. got \in [Call -> Seq(Call)]
      BY Zenon DEF IInv, TypeInv, TypeOK
    <2>2. got'[cur] = Append(got[cur], reply.call)
      BY <1>2, <1>5, <2>1, Zenon
    <2>3. Append(got[cur], reply.call) \in Seq(Call)
      BY <1>2, <1>3, AppendFacts, Zenon
    <2>4. got' \in [Call -> Seq(Call)] /\ \A c \in Call : c # cur => got'[c] = got[c]
      BY <1>2, <1>5, <2>1, <2>3, Zenon
    <2> QED
      BY <1>2, <1>3, <2>2, <2>4, AppendFacts, SMTT(60)
  <1>7. /\ current' = IF last THEN 0 ELSE cur
        /\ outcome' = IF last THEN [outcome EXCEPT ![cur] = IF reply.success THEN "ok" ELSE "error"]
                              ELSE outcome
    <2>1. Len(Append(got[cur], reply.call)) = n + 1
      BY <1>2, <1>3, AppendFacts
    <2> QED
      BY <2>1, Zenon DEF get_response
  <1> HIDE DEF last
  <1>8. /\ outcome' \in [Call -> {"none", "pending", "ok", "error"}]
        /\ outcome'[cur] = IF ~last THEN "pending" ELSE IF reply.success THEN "ok" ELSE "error"
        /\ \A c \in Call : c # cur => outcome'[c] = outcome[c]
    BY <1>2, <1>7, Zenon DEF IInv, TypeInv, TypeOK
  <1>9. issued' = issued /\ drained' = drained /\ \A v \in Worker : consumed(v)' = consumed(v)
    BY <1>1, Zenon DEF issued, late, drained, consumed
  <1>10. \A x : reply_ranks(x)' = reply_ranks(x)
    BY <1>1, Zenon DEF reply_ranks
  <1>11. TypeInv'
    <2>1. \A v \in Worker : Len(response_mqs'[v]) <= config.max_chunks
      <3>1. config.max_chunks \in Nat
        BY MultiprocExecutorAssumption, Zenon DEF IInv, TypeInv
      <3>2. \A v \in Worker : Len(response_mqs[v]) <= config.max_chunks
        BY Zenon DEF IInv, TypeInv, TypeOK
      <3>3. Len(response_mqs'[w]) <= config.max_chunks
        BY <1>2, <1>3, <1>4, <3>1, <3>2
      <3> QED
        BY <1>4, <3>2, <3>3, Zenon
    <2>2. current' \in 0 .. MaxCalls
      BY <1>7, MultiprocExecutorAssumption DEF IInv, TypeInv, TypeOK
    <2> QED
      BY <1>1, <1>4, <1>6, <1>8, <2>1, <2>2, Zenon DEF IInv, TypeInv, TypeOK
  <1>12. QueueInv'
    BY <1>1, <1>9, SMTT(30) DEF IInv, QueueInv
  <1>13. FutureInv'
    <2>1. ~last => n + 1 < Len(reply_ranks(kind[cur]))
      BY <1>2, SMTT(30) DEF last
    <2>2. \A c \in Call :
            /\ outcome'[c] = "none" <=> c > issued
            /\ outcome'[c] \in {"ok", "error"} <=> c <= drained /\ c # current'
            /\ c > drained => got'[c] = <<>>
      <3>1. cur <= issued /\ cur <= drained /\ 0 \notin Call
        BY <1>2, Counters DEF Call
      <3>2. CASE last
        BY <1>1, <1>2, <1>6, <1>7, <1>8, <3>1, <3>2 DEF IInv, FutureInv, Call
      <3>3. CASE ~last
        BY <1>1, <1>2, <1>6, <1>7, <1>8, <3>1, <3>3, SMTT(30) DEF IInv, FutureInv, Call
      <3> QED
        BY <3>2, <3>3, Zenon
    <2> QED
      BY <1>1, <1>2, <1>6, <1>7, <1>9, <1>10, <2>1, <2>2, Zenon DEF IInv, FutureInv
  <1>14. GotInv'
    <2>1. \A c \in Call : outcome'[c] # "error" => outcome[c] # "error"
      BY <1>2, <1>8, Zenon
    <2>2. \A c \in Call : \A d \in 1 .. c - 1 : d \in Call
      BY MultiprocExecutorAssumption DEF Call
    <2>3. ASSUME \A d \in 1 .. cur - 1 : outcome[d] # "error"
          PROVE  \A i \in DOMAIN got'[cur] : got'[cur][i] = cur
      <3>1. NoError
        BY <1>2, <2>3, Counters DEF NoError, IInv, FutureInv, Call
      <3>2. reply.call = cur
        BY <1>1, <1>3, <3>1, HeadIsCurrent, Zenon
      <3>3. \A i \in 1 .. n : got[cur][i] = cur
        BY <1>2, <2>3, Zenon DEF IInv, GotInv
      <3>4. \A i \in 1 .. n + 1 : i \in 1 .. n \/ i = n + 1
        BY <1>2, SMTT(30)
      <3> QED
        BY <1>6, <3>2, <3>3, <3>4, Zenon
    <2> QED
      BY <1>2, <1>6, <2>1, <2>2, <2>3, Zenon DEF IInv, GotInv
  <1>15. PipeInv'
    <2> SUFFICES ASSUME NoError' PROVE PipeInv'
      BY Zenon DEF PipeInv
    <2>1. NoError /\ reply.success
      BY <1>2, <1>3, <1>8, Zenon DEF NoError, last
    <2>2. reply.call = cur
      BY <1>1, <1>3, <2>1, HeadIsCurrent, Zenon
    <2>3. \A v \in Worker, c \in Call : replies(v, c)' <=> replies(v, c)
      BY <1>1, <1>10, Zenon DEF replies
    <2>4. w = ranks[n + 1] /\ \A i \in DOMAIN ranks : ranks[i] = w => i = n + 1
      BY <1>2, RanksFacts, Zenon DEF next_rank
    <2>cur. /\ cur <= drained
           /\ reply_ranks(kind[cur]) = ranks /\ reply_ranks(kind[cur])' = ranks
      <3>1. cur <= drained
        BY <1>2, Counters
      <3>2. reply_ranks(kind[cur]) = ranks /\ kind' = kind
        BY <1>1, Zenon
      <3> QED
        BY <1>10, <3>1, <3>2, Zenon
    <2>5. \A v \in Worker, c \in Call : c # cur => (taken(v, c)' <=> taken(v, c))
      <3>1. \A v \in Worker, c \in Call : c # cur => (taken(v, c) <=> c <= drained)
        BY Zenon DEF taken
      <3>2. \A v \in Worker, c \in Call : c # cur => (taken(v, c)' <=> c <= drained)
        BY <1>7, <1>9 DEF taken, Call
      <3> QED
        BY <3>1, <3>2, Zenon
    <2>6. taken(w, cur)'
      <3>1. cur <= drained'
        BY <1>9, <2>cur, Zenon
      <3>2. n + 1 \in DOMAIN got'[cur]
        <4>1. n + 1 \in 1 .. n + 1
          BY <1>2
        <4> QED
          BY <1>6, <4>1, Zenon
      <3> QED
        BY <2>4, <2>cur, <3>1, <3>2, Zenon DEF taken
    <2>7. ASSUME NEW v \in Worker, v # w, replies(v, cur) PROVE taken(v, cur)' <=> taken(v, cur)
      <3>1. taken(v, cur) <=> \E i \in 1 .. n : ranks[i] = v
        BY <1>1, <1>2, <2>cur, Zenon DEF taken
      <3>2. CASE last
        <4>1. \E i \in 1 .. n + 1 : ranks[i] = v
          BY <1>2, <2>1, <2>7, <3>2, Zenon DEF last, replies
        <4>2. \E i \in 1 .. n : ranks[i] = v
          BY <1>2, <2>4, <2>7, <4>1, SMTT(30)
        <4>3. taken(v, cur)'
          BY <1>2, <1>7, <1>9, <3>2, Counters DEF taken, Call
        <4> QED
          BY <3>1, <4>2, <4>3, Zenon
      <3>3. CASE ~last
        <4>1. taken(v, cur)' <=> \E i \in 1 .. n + 1 : ranks[i] = v
          <5>1. cur <= drained'
            BY <1>9, <2>cur, SMTT(30)
          <5>2. DOMAIN got'[cur] = 1 .. n + 1 /\ current' = cur
            BY <1>6, <1>7, <3>3, Zenon
          <5> QED
            BY <2>cur, <5>1, <5>2, Zenon DEF taken
        <4>2. (\E i \in 1 .. n + 1 : ranks[i] = v) <=> \E i \in 1 .. n : ranks[i] = v
          BY <1>2, <2>4, <2>7
        <4> QED
          BY <3>1, <4>1, <4>2, Zenon
      <3> QED
        BY <3>2, <3>3, SMTT(30)
    <2>8. \A v \in Worker, c \in Call : v # w => (underway(v, c)' <=> underway(v, c))
      BY <1>1, <1>4, SMTT(30) DEF underway
    <2>9. \A c \in Call : underway(w, c)' <=> underway(w, c) /\ c # cur
      <3>1. \A i \in DOMAIN response_mqs[w] : i # 1 => response_mqs[w][i].call > cur
        <4>1. 1 \in DOMAIN response_mqs[w] /\ \A i \in DOMAIN response_mqs[w] : i # 1 => 1 < i
          BY <1>3, SMTT(30)
        <4>2. \A i \in DOMAIN response_mqs[w] : 1 < i => response_mqs[w][1].call < response_mqs[w][i].call
          BY <1>2, <2>1, <4>1, SMTT(30) DEF IInv, PipeInv
        <4>3. \A i \in DOMAIN response_mqs[w] : response_mqs[w][i].call \in Call
          BY <1>2, ReplyTypes, SMTT(30)
        <4> QED
          BY <1>2, <1>3, <2>2, <4>1, <4>2, <4>3, Zenon DEF Call
      <3>2. \A i \in DOMAIN outputs[w] : outputs[w][i].call > cur
        BY <1>2, <1>3, <2>1, <2>2, ReplyTypes, SMTT(60) DEF IInv, PipeInv, Call
      <3>3. \A c \in Call : (\E i \in DOMAIN response_mqs'[w] : response_mqs'[w][i].call = c)
                              <=> (\E i \in DOMAIN response_mqs[w] : response_mqs[w][i].call = c) /\ c # cur
        <4> TAKE c \in Call
        <4>1. ASSUME NEW i \in DOMAIN response_mqs'[w], response_mqs'[w][i].call = c
              PROVE  i + 1 \in DOMAIN response_mqs[w] /\ response_mqs[w][i + 1].call = c /\ c # cur
          <5>1. i \in 1 .. Len(response_mqs[w]) - 1
            BY <1>3, <1>4, <4>1, Zenon
          <5>2. response_mqs'[w][i] = response_mqs[w][i + 1] /\ i + 1 \in DOMAIN response_mqs[w] /\ i + 1 # 1
            BY <1>3, <1>4, <5>1
          <5>3. c > cur
            BY <3>1, <4>1, <5>2, Zenon
          <5> QED
            BY <4>1, <5>2, <5>3, SMTT(30) DEF Call
        <4>2. ASSUME NEW i \in DOMAIN response_mqs[w], response_mqs[w][i].call = c, c # cur
              PROVE  i - 1 \in DOMAIN response_mqs'[w] /\ response_mqs'[w][i - 1].call = c
          BY <1>3, <1>4, <2>2, <4>2, SMTT(30)
        <4> QED
          BY <4>1, <4>2, Zenon
      <3> QED
        BY <1>1, <1>2, <3>2, <3>3, SMTT(30) DEF underway, Call
    <2>10. ASSUME NEW v \in Worker
           PROVE  \A i, j \in DOMAIN response_mqs'[v] :
                     i < j => response_mqs'[v][i].call < response_mqs'[v][j].call
      <3>1. \A i, j \in DOMAIN response_mqs[v] : i < j => response_mqs[v][i].call < response_mqs[v][j].call
        BY <2>1, Zenon DEF IInv, PipeInv
      <3>2. CASE v # w
        BY <1>4, <3>1, <3>2, Zenon
      <3>3. CASE v = w
        <4> SUFFICES ASSUME NEW i \in DOMAIN response_mqs'[w], NEW j \in DOMAIN response_mqs'[w], i < j
                     PROVE  response_mqs'[w][i].call < response_mqs'[w][j].call
          BY <3>3, Zenon
        <4>1. i + 1 \in DOMAIN response_mqs[w] /\ j + 1 \in DOMAIN response_mqs[w] /\ i + 1 < j + 1
          BY <1>3, <1>4, SMTT(30)
        <4>2. response_mqs'[w][i] = response_mqs[w][i + 1] /\ response_mqs'[w][j] = response_mqs[w][j + 1]
          BY <1>3, <1>4, Zenon
        <4> QED
          BY <3>1, <3>3, <4>1, <4>2, Zenon
      <3> QED
        BY <3>2, <3>3, Zenon
    <2>11. ASSUME NEW v \in Worker
           PROVE  \A i \in DOMAIN response_mqs'[v], j \in DOMAIN outputs[v] :
                     response_mqs'[v][i].call < outputs[v][j].call
      <3>1. \A i \in DOMAIN response_mqs[v], j \in DOMAIN outputs[v] :
              response_mqs[v][i].call < outputs[v][j].call
        BY <2>1, SMTT(30) DEF IInv, PipeInv
      <3>2. CASE v # w
        BY <1>4, <3>1, <3>2, Zenon
      <3>3. CASE v = w
        <4> SUFFICES ASSUME NEW i \in DOMAIN response_mqs'[w], NEW j \in DOMAIN outputs[w]
                     PROVE  response_mqs'[w][i].call < outputs[w][j].call
          BY <3>3, Zenon
        <4>1. i + 1 \in DOMAIN response_mqs[w] /\ response_mqs'[w][i] = response_mqs[w][i + 1]
          BY <1>3, <1>4
        <4> QED
          BY <3>1, <3>3, <4>1, Zenon
      <3> QED
        BY <3>2, <3>3, Zenon
    <2>12. ASSUME NEW v \in Worker, NEW c \in Call
           PROVE  underway(v, c)' <=> c <= consumed(v) /\ replies(v, c) /\ ~taken(v, c)'
      <3>1. underway(v, c) <=> c <= consumed(v) /\ replies(v, c) /\ ~taken(v, c)
        BY <2>1, Zenon DEF IInv, PipeInv
      <3>2. CASE v # w
        BY <2>5, <2>7, <2>8, <3>1, <3>2, Zenon
      <3>3. CASE v = w
        BY <2>5, <2>6, <2>9, <3>1, <3>3, Zenon
      <3> QED
        BY <3>2, <3>3, SMTT(30)
    <2>14. ASSUME NEW v \in Worker, NEW c \in Call, replies(v, c), taken(v, c)'
           PROVE  c <= consumed(v)
      <3>1. /\ underway(v, c) => c <= consumed(v)
            /\ taken(v, c) => c <= consumed(v)
        BY <2>1, <2>14, Zenon DEF IInv, PipeInv
      <3>2. CASE v # w \/ c # cur
        BY <2>5, <2>7, <2>14, <3>1, <3>2, Zenon
      <3>3. CASE v = w /\ c = cur
        BY <1>3, <2>2, <3>1, <3>3, SMTT(30) DEF underway
      <3> QED
        BY <3>2, <3>3, SMTT(30)
    <2>13. \A v \in Worker : \A i, j \in DOMAIN outputs[v] : i < j => outputs[v][i].call < outputs[v][j].call
      BY <2>1, Zenon DEF IInv, PipeInv
    <2> QED
      BY <1>1, <1>9, <2>3, <2>10, <2>11, <2>12, <2>13, <2>14, Zenon DEF PipeInv
  <1> QED
    BY <1>11, <1>12, <1>13, <1>14, <1>15, Zenon DEF IInv

\* What the steps of a worker leave alone.
LEMMA WorkerFrame ==
  ASSUME UNCHANGED <<config, engineVars>>
  PROVE  /\ issued' = issued /\ drained' = drained
         /\ \A x : reply_ranks(x)' = reply_ranks(x)
         /\ \A w \in Worker, c \in Call : /\ replies(w, c)' <=> replies(w, c)
                                          /\ taken(w, c)' <=> taken(w, c)
         /\ NoError' <=> NoError
         /\ GotInv' <=> GotInv
  <1> USE DEF engineVars
  <1>1. issued' = issued /\ drained' = drained
    BY Zenon DEF issued, late, drained
  <1>2. \A x : reply_ranks(x)' = reply_ranks(x)
    BY SMTT(30) DEF reply_ranks
  <1> QED
    BY <1>1, <1>2, Zenon DEF replies, taken, NoError, GotInv

\* worker_busy_loop reads the next call; the reply follows the worker's earlier ones.
LEMMA WorkerBusyLoop == ASSUME IInv, NEW w \in Worker, worker_busy_loop(w) PROVE IInv'
  <1> PICK q, o, c : q = rpc_broadcast_mq[w] /\ o = outputs[w] /\ c = Head(q)
    BY SMTT(30)
  <1>1. UNCHANGED <<config, engineVars, response_mqs, alive, is_failed, shutting_down>>
    BY SMTT(30) DEF worker_busy_loop
  <1>2. /\ q \in Seq(Call) /\ q # <<>> /\ o \in Seq(Reply)
        /\ rpc_broadcast_mq \in [Worker -> Seq(Call)] /\ outputs \in [Worker -> Seq(Reply)]
        /\ response_mqs \in [Worker -> Seq(Reply)]
    BY SMTT(30) DEF worker_busy_loop, IInv, TypeInv, TypeOK
  <1>3. /\ rpc_broadcast_mq' = [rpc_broadcast_mq EXCEPT ![w] = Tail(q)]
        /\ rpc_broadcast_mq'[w] = Tail(q)
        /\ \A v \in Worker : v # w => rpc_broadcast_mq'[v] = rpc_broadcast_mq[v]
    BY <1>2, Zenon DEF worker_busy_loop
  <1>4. /\ Len(q) \in Nat \ {0} /\ DOMAIN q = 1 .. Len(q) /\ c = q[1] /\ c \in Call
        /\ Tail(q) \in Seq(Call) /\ Len(Tail(q)) = Len(q) - 1 /\ DOMAIN Tail(q) = 1 .. Len(q) - 1
        /\ \A i \in 1 .. Len(q) - 1 : Tail(q)[i] = q[i + 1]
    BY <1>2, TailFacts, Zenon
  <1>5. /\ consumed(w)' = consumed(w) + 1 /\ consumed(w) \in Nat
        /\ \A v \in Worker : v # w => consumed(v)' = consumed(v)
    <2>1. issued' = issued /\ issued \in Nat /\ consumed(w) \in Nat
      BY <1>1, WorkerFrame, Counters, Zenon
    <2>2. consumed(w)' = issued - (Len(q) - 1) /\ consumed(w) = issued - Len(q)
      BY <1>3, <1>4, <2>1, Zenon DEF consumed
    <2>3. \A v \in Worker : v # w => consumed(v)' = consumed(v)
      BY <1>3, <2>1, Zenon DEF consumed
    <2> QED
      BY <1>4, <2>1, <2>2, <2>3, SMTT(30)
  <1>6. \A i \in 1 .. Len(q) : q[i] = consumed(w) + i
    BY <1>4, Zenon DEF IInv, QueueInv
  <1>7. c = consumed(w) + 1
    BY <1>4, <1>6
  <1>8. \A v \in Worker : v # w => outputs'[v] = outputs[v]
    BY <1>2, Zenon DEF worker_busy_loop
  <1>9. \/ replies(w, c) /\ \E s \in BOOLEAN : outputs'[w] = Append(o, [call |-> c, success |-> s])
        \/ ~replies(w, c) /\ outputs'[w] = o
    BY <1>2, Zenon DEF worker_busy_loop
  <1>10. outputs' \in [Worker -> Seq(Reply)]
    <2>1. \A s \in BOOLEAN : [call |-> c, success |-> s] \in Reply
      BY <1>4, Zenon DEF Reply
    <2>2. \A s \in BOOLEAN : Append(o, [call |-> c, success |-> s]) \in Seq(Reply)
      BY <1>2, <2>1, AppendFacts, Zenon
    <2> QED
      BY <1>2, <2>2, Zenon DEF worker_busy_loop
  <1>11. TypeInv'
    <2>1. rpc_broadcast_mq' \in [Worker -> Seq(Call)]
      BY <1>2, <1>3, <1>4, Zenon
    <2>2. \A v \in Worker : Len(rpc_broadcast_mq'[v]) <= config.max_chunks
      <3>1. config.max_chunks \in Nat
        BY MultiprocExecutorAssumption, Zenon DEF IInv, TypeInv
      <3>2. \A v \in Worker : Len(rpc_broadcast_mq[v]) <= config.max_chunks
        BY Zenon DEF IInv, TypeInv, TypeOK
      <3>3. Len(rpc_broadcast_mq'[w]) <= config.max_chunks
        BY <1>3, <1>4, <3>1, <3>2
      <3> QED
        BY <1>3, <3>2, <3>3, Zenon
    <2> QED
      BY <1>1, <1>10, <2>1, <2>2, Zenon DEF IInv, TypeInv, TypeOK, engineVars
  <1>12. QueueInv'
    <2>1. \A i \in DOMAIN rpc_broadcast_mq'[w] : rpc_broadcast_mq'[w][i] = consumed(w) + 1 + i
      <3>1. \A i \in 1 .. Len(q) - 1 : Tail(q)[i] = consumed(w) + 1 + i
        BY <1>4, <1>5, <1>6, SMTT(60)
      <3>2. DOMAIN rpc_broadcast_mq'[w] = 1 .. Len(q) - 1
        BY <1>3, <1>4, Zenon
      <3> QED
        BY <1>3, <3>1, <3>2, Zenon
    <2>2. ASSUME NEW v \in Worker
          PROVE  /\ consumed(v)' \in Nat
                 /\ \A i \in DOMAIN rpc_broadcast_mq'[v] : rpc_broadcast_mq'[v][i] = consumed(v)' + i
      <3>1. CASE v = w
        BY <1>5, <2>1, <3>1
      <3>2. CASE v # w
        BY <1>3, <1>5, <3>2 DEF IInv, QueueInv
      <3> QED
        BY <3>1, <3>2, Zenon
    <2>3. /\ issued' \in Nat /\ drained' \in Nat
          /\ \A i \in DOMAIN futures_queue' : futures_queue'[i] = drained' + i
      BY <1>1, WorkerFrame, SMTT(30) DEF IInv, QueueInv, engineVars
    <2> QED
      BY <2>2, <2>3, Zenon DEF QueueInv
  <1>13. FutureInv'
    BY <1>1, WorkerFrame, Zenon DEF IInv, FutureInv, engineVars
  <1>14. PipeInv'
    <2> SUFFICES ASSUME NoError' PROVE PipeInv'
      BY Zenon DEF PipeInv
    <2>1. NoError
      BY <1>1, WorkerFrame, Zenon
    <2>2. \A v \in Worker, d \in Call : /\ replies(v, d)' <=> replies(v, d)
                                        /\ taken(v, d)' <=> taken(v, d)
      BY <1>1, WorkerFrame, SMTT(30)
    <2> DEFINE Ordered(r, p) ==
                 /\ \A i, j \in DOMAIN r : i < j => r[i].call < r[j].call
                 /\ \A i, j \in DOMAIN p : i < j => p[i].call < p[j].call
                 /\ \A i \in DOMAIN r, j \in DOMAIN p : r[i].call < p[j].call
    <2>3. \A v \in Worker : Ordered(response_mqs[v], outputs[v])
      BY <2>1, Zenon DEF IInv, PipeInv
    <2>4. \A v \in Worker, d \in Call : underway(v, d) <=> d <= consumed(v) /\ replies(v, d) /\ ~taken(v, d)
      BY <2>1, Zenon DEF IInv, PipeInv
    <2>5. /\ \A i \in DOMAIN response_mqs[w] : response_mqs[w][i].call < c
          /\ \A i \in DOMAIN o : o[i].call < c
      <3>1. \A d \in Call : underway(w, d) => d < c
        BY <1>5, <1>7, <2>4 DEF Call
      <3>2. \A i \in DOMAIN response_mqs[w] : underway(w, response_mqs[w][i].call) /\ response_mqs[w][i].call \in Call
        BY ReplyTypes, Zenon DEF underway
      <3>3. \A i \in DOMAIN o : underway(w, o[i].call) /\ o[i].call \in Call
        BY ReplyTypes, SMTT(30) DEF underway
      <3> QED
        BY <3>1, <3>2, <3>3, Zenon
    <2>6. replies(w, c) => ~taken(w, c)
      BY <1>4, <1>5, <1>7, <2>1, SMTT(60) DEF IInv, PipeInv
    <2>7. \A d \in Call : d <= consumed(w) + 1 <=> d <= consumed(w) \/ d = c
      BY <1>5, <1>7 DEF Call
    <2>8. CASE ~replies(w, c)
      <3>1. outputs' = outputs
        BY <1>2, <1>8, <1>9, <1>10, <2>8
      <3>2. \A v \in Worker, d \in Call : underway(v, d)' <=> underway(v, d)
        BY <1>1, <3>1, SMTT(30) DEF underway
      <3>3. \A d \in Call : underway(w, d)' <=> d <= consumed(w) + 1 /\ replies(w, d) /\ ~taken(w, d)
        BY <2>4, <2>7, <2>8, <3>2, SMTT(30)
      <3>4. ASSUME NEW v \in Worker, NEW d \in Call
            PROVE  /\ underway(v, d)' <=> d <= consumed(v)' /\ replies(v, d) /\ ~taken(v, d)
                   /\ replies(v, d) /\ taken(v, d) => d <= consumed(v)'
        <4>1. replies(v, d) /\ taken(v, d) => d <= consumed(v)
          BY <2>1, Zenon DEF IInv, PipeInv
        <4>2. CASE v = w
          BY <1>5, <2>7, <3>3, <4>1, <4>2, SMTT(30)
        <4>3. CASE v # w
          BY <1>5, <2>4, <3>2, <4>1, <4>3, SMTT(30)
        <4> QED
          BY <4>2, <4>3, SMTT(30)
      <3> QED
        BY <1>1, <2>2, <2>3, <3>1, <3>4, Zenon DEF PipeInv
    <2>9. CASE replies(w, c)
      <3>1. PICK s \in BOOLEAN : outputs'[w] = Append(o, [call |-> c, success |-> s])
        BY <1>9, <2>9, Zenon
      <3>2. PICK e \in Reply : e.call = c /\ outputs'[w] = Append(o, e)
        BY <1>4, <3>1, Zenon DEF Reply
      <3>3. /\ Len(o) \in Nat /\ DOMAIN o = 1 .. Len(o) /\ DOMAIN outputs'[w] = 1 .. Len(o) + 1
            /\ \A i \in 1 .. Len(o) : outputs'[w][i] = o[i]
            /\ outputs'[w][Len(o) + 1] = e
        BY <1>2, <3>2, AppendFacts
      <3>4. \A i \in DOMAIN outputs'[w] : \/ i \in DOMAIN o /\ outputs'[w][i] = o[i]
                                          \/ i = Len(o) + 1 /\ outputs'[w][i].call = c
        BY <3>2, <3>3
      <3>5. ASSUME NEW i \in DOMAIN outputs'[w], NEW j \in DOMAIN outputs'[w], i < j
            PROVE  outputs'[w][i].call < outputs'[w][j].call
        <4>1. i \in DOMAIN o /\ outputs'[w][i] = o[i]
          BY <3>3, <3>5, SMTT(30)
        <4>2. CASE j \in DOMAIN o
          BY <2>3, <3>3, <3>5, <4>1, <4>2, Zenon
        <4>3. CASE j = Len(o) + 1
          BY <2>5, <3>2, <3>3, <4>1, <4>3, SMTT(30)
        <4> QED
          BY <3>4, <4>2, <4>3, Zenon
      <3>6. Ordered(response_mqs[w], outputs'[w])
        BY <2>3, <2>5, <3>4, <3>5, Zenon
      <3>7. \A d \in Call : underway(w, d)' <=> underway(w, d) \/ d = c
        <4>1. \A d : (\E i \in DOMAIN outputs'[w] : outputs'[w][i].call = d)
                       <=> (\E i \in DOMAIN o : o[i].call = d) \/ d = c
          <5>1. \A i \in DOMAIN o : i \in DOMAIN outputs'[w] /\ outputs'[w][i] = o[i]
            BY <3>3
          <5>2. Len(o) + 1 \in DOMAIN outputs'[w] /\ outputs'[w][Len(o) + 1].call = c
            BY <3>2, <3>3
          <5> QED
            BY <3>4, <5>1, <5>2, Zenon
        <4> QED
          BY <1>1, <4>1, Zenon DEF underway
      <3>8. \A v \in Worker, d \in Call : v # w => (underway(v, d)' <=> underway(v, d))
        BY <1>1, <1>8, SMTT(30) DEF underway
      <3>9. ASSUME NEW v \in Worker, NEW d \in Call
            PROVE  /\ underway(v, d)' <=> d <= consumed(v)' /\ replies(v, d) /\ ~taken(v, d)
                   /\ replies(v, d) /\ taken(v, d) => d <= consumed(v)'
        <4>1. replies(v, d) /\ taken(v, d) => d <= consumed(v)
          BY <2>1, Zenon DEF IInv, PipeInv
        <4>2. CASE v = w
          BY <1>5, <2>4, <2>6, <2>7, <2>9, <3>7, <4>1, <4>2, Zenon
        <4>3. CASE v # w
          BY <1>5, <2>4, <3>8, <4>1, <4>3, Zenon
        <4> QED
          BY <4>2, <4>3, Zenon
      <3>10. \A v \in Worker : Ordered(response_mqs[v], outputs'[v])
        BY <1>8, <2>3, <3>6, SMTT(30)
      <3> QED
        BY <1>1, <2>2, <3>9, <3>10, Zenon DEF PipeInv
    <2> QED
      BY <2>8, <2>9, SMTT(30)
  <1> QED
    BY <1>11, <1>12, <1>13, <1>14, <1>1, WorkerFrame, Zenon DEF IInv

\* enqueue_output moves the oldest reply of the worker to its response queue.
LEMMA EnqueueOutput == ASSUME IInv, NEW w \in Worker, enqueue_output(w) PROVE IInv'
  <1> PICK r, o, e : r = response_mqs[w] /\ o = outputs[w] /\ e = Head(o)
    BY Zenon
  <1>1. UNCHANGED <<config, engineVars, rpc_broadcast_mq, alive, is_failed, shutting_down>>
    BY Zenon DEF enqueue_output
  <1>2. /\ o \in Seq(Reply) /\ o # <<>> /\ r \in Seq(Reply)
        /\ outputs \in [Worker -> Seq(Reply)] /\ response_mqs \in [Worker -> Seq(Reply)]
    BY Zenon DEF enqueue_output, IInv, TypeInv
  <1>3. /\ outputs' = [outputs EXCEPT ![w] = Tail(o)] /\ outputs'[w] = Tail(o)
        /\ response_mqs' = [response_mqs EXCEPT ![w] = Append(r, e)] /\ response_mqs'[w] = Append(r, e)
        /\ \A v \in Worker : v # w => response_mqs'[v] = response_mqs[v] /\ outputs'[v] = outputs[v]
    BY <1>2, Zenon DEF enqueue_output
  <1>4. /\ Len(o) \in Nat \ {0} /\ DOMAIN o = 1 .. Len(o) /\ e = o[1] /\ e \in Reply
        /\ Tail(o) \in Seq(Reply) /\ DOMAIN Tail(o) = 1 .. Len(o) - 1
        /\ \A i \in 1 .. Len(o) - 1 : Tail(o)[i] = o[i + 1]
    BY <1>2, TailFacts, Zenon
  <1>5. /\ Len(r) \in Nat /\ DOMAIN r = 1 .. Len(r)
        /\ Append(r, e) \in Seq(Reply) /\ Len(Append(r, e)) = Len(r) + 1
        /\ DOMAIN Append(r, e) = 1 .. Len(r) + 1
        /\ \A i \in 1 .. Len(r) : Append(r, e)[i] = r[i]
        /\ Append(r, e)[Len(r) + 1] = e
    <2>1. r \in Seq(Reply) /\ e \in Reply
      BY <1>2, <1>4, Zenon
    <2> QED
      BY ONLY <2>1
  <1>6. TypeInv'
    <2>1. outputs' \in [Worker -> Seq(Reply)] /\ response_mqs' \in [Worker -> Seq(Reply)]
      BY <1>2, <1>3, <1>4, <1>5, Zenon
    <2>2. \A v \in Worker : Len(response_mqs'[v]) <= config.max_chunks
      <3>1. config.max_chunks \in Nat
        BY MultiprocExecutorAssumption, Zenon DEF IInv, TypeInv
      <3>2. Len(r) < config.max_chunks
        BY Zenon DEF enqueue_output
      <3>3. Len(response_mqs'[w]) <= config.max_chunks
        BY <1>3, <1>5, <3>1, <3>2, SMTT(30)
      <3> QED
        BY <1>3, <3>3, SMTT(30) DEF IInv, TypeInv, TypeOK
    <2> QED
      BY <1>1, <2>1, <2>2, SMTT(30) DEF IInv, TypeInv, TypeOK, engineVars
  <1>7. \A v \in Worker : consumed(v)' = consumed(v)
    BY <1>1, WorkerFrame, Zenon DEF consumed
  <1>8. QueueInv' /\ FutureInv'
    BY <1>1, <1>7, WorkerFrame, Zenon DEF IInv, QueueInv, FutureInv, engineVars
  <1>9. PipeInv'
    <2> SUFFICES ASSUME NoError' PROVE PipeInv'
      BY Zenon DEF PipeInv
    <2>1. NoError
      BY <1>1, WorkerFrame, Zenon
    <2>2. \A v \in Worker, d \in Call : /\ replies(v, d)' <=> replies(v, d)
                                        /\ taken(v, d)' <=> taken(v, d)
      BY <1>1, WorkerFrame, Zenon
    <2> DEFINE Ordered(s, p) ==
                 /\ \A i, j \in DOMAIN s : i < j => s[i].call < s[j].call
                 /\ \A i, j \in DOMAIN p : i < j => p[i].call < p[j].call
                 /\ \A i \in DOMAIN s, j \in DOMAIN p : s[i].call < p[j].call
    <2>3. \A v \in Worker : Ordered(response_mqs[v], outputs[v])
      BY <2>1, Zenon DEF IInv, PipeInv
    <2>4. \A i \in DOMAIN Append(r, e) : (i \in DOMAIN r /\ Append(r, e)[i] = r[i])
                                         \/ (i = Len(r) + 1 /\ Append(r, e)[i] = o[1])
      BY <1>4, <1>5, SMTT(60)
    <2>5. \A i \in DOMAIN Tail(o) : /\ i + 1 \in DOMAIN o /\ Tail(o)[i] = o[i + 1]
                                    /\ 1 \in DOMAIN o /\ 1 < i + 1
      BY <1>4
    <2>6. /\ \A i, j \in DOMAIN r : i < j => r[i].call < r[j].call
          /\ \A i, j \in DOMAIN o : i < j => o[i].call < o[j].call
          /\ \A i \in DOMAIN r, j \in DOMAIN o : r[i].call < o[j].call
      BY <2>3, Zenon
    <2>7. ASSUME NEW i \in DOMAIN Append(r, e), NEW j \in DOMAIN Append(r, e), i < j
          PROVE  Append(r, e)[i].call < Append(r, e)[j].call
      <3>1. i \in DOMAIN r /\ Append(r, e)[i] = r[i] /\ 1 \in DOMAIN o
        BY <1>4, <1>5, <2>7
      <3> QED
        BY <2>4, <2>6, <2>7, <3>1, Zenon
    <2>8. ASSUME NEW i \in DOMAIN Tail(o), NEW j \in DOMAIN Tail(o), i < j
          PROVE  Tail(o)[i].call < Tail(o)[j].call
      <3>1. i + 1 < j + 1
        BY <1>4, <2>8
      <3> QED
        BY <2>5, <2>6, <3>1, Zenon
    <2>9. ASSUME NEW i \in DOMAIN Append(r, e), NEW j \in DOMAIN Tail(o)
          PROVE  Append(r, e)[i].call < Tail(o)[j].call
      BY <2>4, <2>5, <2>6, Zenon
    <2>10. \A v \in Worker : Ordered(response_mqs'[v], outputs'[v])
      <3>1. Ordered(Append(r, e), Tail(o))
        BY <2>7, <2>8, <2>9, SMTT(30)
      <3> HIDE DEF Ordered
      <3> QED
        BY <1>3, <2>3, <3>1, Zenon
    <2>11. \A v \in Worker, d \in Call : underway(v, d)' <=> underway(v, d)
      <3>1. \A v \in Worker, d \in Call : v # w => (underway(v, d)' <=> underway(v, d))
        BY <1>3, SMTT(30) DEF underway
      <3>2. ASSUME NEW d \in Call, underway(w, d)' PROVE underway(w, d)
        <4>1. 1 \in DOMAIN o
          BY <1>4
        <4> QED
          BY <1>3, <2>4, <2>5, <3>2, <4>1, SMTT(60) DEF underway
      <3>3. ASSUME NEW d \in Call, underway(w, d) PROVE underway(w, d)'
        <4>1. ASSUME NEW i \in DOMAIN r, r[i].call = d PROVE underway(w, d)'
          <5>1. i \in DOMAIN Append(r, e) /\ Append(r, e)[i].call = d
            BY <1>5, <4>1, SMTT(60)
          <5> QED
            BY <1>3, <5>1, SMTT(30) DEF underway
        <4>2. ASSUME NEW i \in DOMAIN o, i # 1, o[i].call = d PROVE underway(w, d)'
          <5>1. i - 1 \in DOMAIN Tail(o) /\ Tail(o)[i - 1] = o[i]
            BY <1>4, <4>2, SMTT(30)
          <5> QED
            BY <1>3, <4>2, <5>1, Zenon DEF underway
        <4>3. ASSUME o[1].call = d PROVE underway(w, d)'
          <5>1. Len(r) + 1 \in DOMAIN Append(r, e) /\ Append(r, e)[Len(r) + 1].call = d
            BY <1>4, <1>5, <4>3
          <5> QED
            BY <1>3, <5>1, Zenon DEF underway
        <4> QED
          BY <3>3, <4>1, <4>2, <4>3, Zenon DEF underway
      <3> QED
        BY <3>1, <3>2, <3>3, SMTT(30)
    <2> QED
      BY <1>7, <2>1, <2>2, <2>10, <2>11, Zenon DEF IInv, PipeInv
  <1> QED
    BY <1>6, <1>8, <1>9, <1>1, WorkerFrame, Zenon DEF IInv

\* Every step preserves the invariant.
LEMMA NextInv == IInv /\ [Next]_vars => IInv'
  BY Moves, CollectiveRpc, Enqueue, DrainNext, GetResponse, GetResponseRaises, WorkerBusyLoop,
     EnqueueOutput, Zenon DEF Next, Engine, Workers

\* A call returns the replies to that call, and futures are resolved in the order of
\* the calls: for any number of workers, chunks and calls, whether or not every
\* worker replies, whichever result is asked for first, and whatever dies, raises
\* or times out, up to the first call that fails.
THEOREM CallsGetTheirReplies == Spec => []RepliesMatchCalls
  <1>1. IInv => RepliesMatchCalls
    <2> SUFFICES ASSUME IInv PROVE RepliesMatchCalls
      BY Zenon
    <2>1. ASSUME NEW c \in Call, NEW d \in Call, c < d, outcome[d] \in {"ok", "error"}
          PROVE  outcome[c] \in {"ok", "error"}
      BY <2>1, Counters DEF IInv, FutureInv, Call
    <2> QED
      BY <2>1, Zenon DEF RepliesMatchCalls, IInv, TypeInv, GotInv
  <1> QED
    BY <1>1, InitInv, NextInv, PTL DEF Spec

=============================================================================
