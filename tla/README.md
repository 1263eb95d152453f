# TLA+ models of the vLLM serving engine and its DeepEP MoE layer

The repository is a workspace around a fork of vLLM (`src/vllm`) in which the
mixture-of-experts layer of DeepEP's high-throughput (HT) back end was rebuilt.
This directory holds specifications of the parts of that program whose
correctness depends on order: of operations on shared blocks, of batches and
copies in flight, of flags in shared memory, of messages between processes, of
threads and streams that overlap. TLC checks the specifications on small
instances. For every instance, TLAPS proves the invariants of the free list, the KV
cache, the message queue, the executor's replies, the data-parallel waves and the
hand-over between micro-batch threads, and that free list and message queue implement
their abstract specifications.

Paths below are relative to `src/vllm/vllm/`.

## 1. The system and its parts

A request enters through a **front end** (`v1/engine/core_client.py`) and is sent
to an **engine core** (`v1/engine/core.py`). With data parallelism there are
several engine cores; a **coordinator** (`v1/engine/coordinator.py`) keeps them in
common *waves*, because a forward pass of an MoE model is a collective in which
every engine takes part.

The engine core loops: the **scheduler** (`v1/core/sched/`) forms a batch, the
**executor** (`v1/executor/multiproc_executor.py`) sends it to the worker
processes over a **shared-memory message queue**
(`distributed/device_communicators/shm_broadcast.py`), and the sampled tokens are
given back to the scheduler. One or more batches may be in flight.

The scheduler keeps the KV of a request in blocks which it obtains from the
**KV cache manager** (`v1/core/kv_cache_manager.py`), on top of the **block pool**
(`v1/core/block_pool.py`) and its **free queue** (`v1/core/kv_cache_utils.py`).
Blocks with equal prefixes are shared. The **offloading connector**
(`distributed/kv_transfer/kv_connector/v1/offloading/`, `v1/kv_offload/`) copies
blocks to host memory while the model runs and back when a later request has the
same prefix.

In a worker, an **MoE layer** (`model_executor/layers/fused_moe/`) receives tokens
from all ranks, sorts them into blocks per expert, runs two GEMMs and reduces.
**Dual-batch overlap** (`v1/worker/ubatching.py`) splits a pass into micro-batches
whose threads take turns around the communication of each layer. The **expert
load balancer** (`distributed/eplb/`) moves experts between ranks while they serve.

| Part | Modules | Run |
| --- | --- | --- |
| Free queue | `FreeBlockQueue`, `FreeKVCacheBlockQueue`, `...Proofs` | `free_queue` |
| Block pool, KV cache manager | `BlockPool`, `KVCacheManager`, and `...Proofs` | `kv_cache` |
| Scheduler, engine step | `Scheduler` | `sched`, `sched_priority` |
| Offloading connector | `OffloadingConnector` | `offload` |
| Message queue | `BroadcastQueue`, `MessageQueue`, `...Proofs` | `mq` |
| Multiprocess executor | `MultiprocExecutor`, `...Proofs` | `exec` |
| DP coordinator, front end, DP engine loop | `DPCoordinator`, `...Proofs` | `dp`, `dp_pause` |
| DeepEP HT MoE layer | `DeepEPHTExperts` | `moe` |
| Dual-batch overlap | `Ubatching`, `UbatchingProofs`, `UbatchingOrderProofs` | `ubatch` |
| Expert load balancer | `Eplb` | `eplb` |

`MC<module>` holds the instances of a module. `PROJECT.json` lists every part with
its source files, every definition with the lines it stands for, and the hazards
of the code with the properties that cover them.

## 2. Modules and how they correspond to the code

Most modules have a constant `Configs` or `Plans`: a set of configurations,
workloads and faults. `Init` chooses one, which never changes, so that one run
covers all of them.

**FreeKVCacheBlockQueue** has the `prev_free_block` / `next_free_block` pointers,
the two sentinels and `num_free_blocks` as variables and one action per method.
`FreeBlockQueue` is the abstract queue: a sequence of blocks with removal from the
middle. `BlockPool` uses the abstract queue; the theorem `ListImplementsQueue` shows
that this is sound.

**BlockPool** defines the operations of the pool (`get_new_blocks`, `touch`,
`free_blocks`, `cache_full_blocks`, `maybe_evict`, `evict_blocks`,
`reset_prefix_cache`) as functions from a pool record to a pool record. A block
hash is modelled by what it identifies, the sequence of block contents from the
start of the request. Hash collisions are thereby left out.

**KVCacheManager** adds the block table of every request and one action per
method the scheduler calls. Its caller is any scheduler that respects what the
methods assert of their arguments. `error` becomes TRUE where the code would raise
in the middle of an operation.

**Scheduler** instantiates KVCacheManager on its own variables. `schedule()` and
`update_from_output()` are split into the steps of their loops: `pc` says which
one is next, and the environment acts only where the code lets it in (new
requests and resets between steps, aborts also just before outputs are
processed). `batch_queue` holds the batches in flight. `kv` is a history variable:
for every slot of every block, the token prefix whose KV a batch has written
there. `tokens` are really sampled values, so a token that is appended twice or at
the wrong position shows. The property `UsesKVCacheManager` says that whatever the
scheduler does with the cache is a behaviour of `KVCacheManager!Spec`, so on the
instances TLC checks, the theorems of section 6 apply to the scheduler's cache.

**OffloadingConnector** composes KVCacheManager with the connector's scheduler
half (`conn`: request states and transfer jobs), the manager of the host blocks
with its LRU order (`manager`), the connector's worker half on each rank
(`worker`), the aggregation of the workers' results and the part of the scheduler
they meet: allocation, preemption, requests that wait for a load, stops, aborts and
resets. `gpu` and `cpu` say whose KV a block really holds on each rank. Kernels run
in the order of their launch, the copies of one direction run in order, a store
waits for the kernels launched before it; nothing else is ordered, except by the
flushes the connector asks for. A block has one token, so a token stands for the
tokens of a block; a step computes all the tokens a request has left.

**MessageQueue** models the ring flag by flag: the written flag, one read flag per
reader, the payload, the overflow socket for large messages, the notification and
cancellation sockets, and a reader that sleeps between two looks at the flags.
`BroadcastQueue` is the abstract promise: every reader gets every message once, in
order. TLC's memory is sequentially consistent; the fences in the code are what
justifies this.

**MultiprocExecutor** uses one FIFO with a bound per ring, as `BroadcastQueue`
promises. It has the engine thread (`collective_rpc`, `FutureWrapper.result`), the
worker loops with their optional output threads, and the monitor thread that shuts
the queues down when a worker dies. Faults are deaths, methods that raise and
calls that time out. A call that is broadcast after `shutdown()` finds no response
queue (`enqueue_late`).

**DPCoordinator** has a FIFO channel for each socket, so messages of different
senders overtake each other. Engines take requests at their own pace and meet in a
forward pass; every `interval` passes (32 in the code) they agree on whether work
is left, and on whether a pause has reached all of them. A front end may pause the
engines in each of the three modes (finish the requests, keep them, abort them) and
resume them; an engine answers a pause when it has come to rest, and ignores
`START_DP_WAVE` from then until its resume.

**DeepEPHTExperts** follows two projections through one layer: which expert a
(row, top-k slot) pair is multiplied with, and how often the router's weight is
applied. `env` is chosen once and ranges over the settings of the layer. The scatter
kernel is one action per thread, so pairs meet the write offsets in any order. A row
that no kernel writes is an empty set, and reading it gives `Junk`.

**Ubatching** has one thread per micro-batch with its `UBatchContext`, the main
thread that starts and joins them, and the two streams of the GPU. A layer is a
short program of launches, yields, event records and waits, taken from the HT back
end (which switches streams) or the low-latency one (which leaves the receiving
half of a transfer to a hook run by the next thread). `dbo_yield` is cut where the
thread sleeps. Launched kernels wait in `queue` and run later. A launch may raise.
The event that the HT back end hands to its dispatch (`dbo_get_previous_event`) is left
out: the yield before it has made the communication stream wait for the same point.
The back ends keep two slots for handles; what the theorems say of more than two
micro-batches is about the scheme, with a slot for each.

**Eplb** has the main thread, the asynchronous worker and the stream of each rank.
`weights` and `buffer` hold the logical expert whose weights are in a row. Which
rank sends which row to which is computed by each rank for itself, as
`move_to_buffer` does. With the back ends that send and receive, a transfer happens
when both ends have posted it. With NIXL the receiver reads the weights of the source
in place, whatever the source is doing; the reads are on no stream, and a barrier
follows them. The synchronous exchange of all layers is one step, since no forward
pass comes between its layers.
`CpuGpuEvent` is split into record, wait and the clearing of its flag. The policy
is any placement of the instance that keeps every expert.

## 3. Properties and runs

| Run | Instance | What it shows |
| --- | --- | --- |
| `free_queue` | 5 blocks | Links and counter stay consistent (`ListConsistent`); the linked list implements the queue (`RefinesFreeBlockQueue`). |
| `kv_cache` | 2 requests, 2 contents, 3 usable blocks, tables of 2 | Reference counts are the holders; the free queue is what nobody references; hash map and blocks agree; blocks are shared only by equal prefixes; no admitted allocation fails. |
| `sched` | 1 to 3 requests, 4 usable blocks of 2; sync with drafts, async with a reset, async with drafts, two pipeline stages, whole prompts with a watermark, priority, three sharers | No request is lost or leaks blocks; computed tokens have their KV (FCFS); placeholders are the outputs in flight; every output continues its request; the common prefix for cascade attention is common; eviction keeps prefixes; every request finishes; the cache is used as its specification allows. |
| `offload` | 2 or 3 requests, 4 usable device blocks, up to 5 host blocks, 1 or 2 workers; sync and async, aborts, early stops, a reset | Transfer jobs and references of host blocks agree and no assertion fails; a host block that can be hit holds the KV of its key; a running batch attends to its own KV; every request finishes and is forgotten. |
| `mq` | 2 readers, 2 chunks, up to 3 messages, large ones, timeouts, shutdowns | Nobody reads a chunk being written; the ring implements the broadcast queue; no wake-up is lost, neither of a message nor of a shutdown. |
| `exec` | 2 workers, rings of 1 and 2, deaths, failures, timeouts | Every reply goes to its own call and futures resolve in order; engine and workers never wait for each other's full ring; a death ends the engine, unless it waits for a chunk that the dead worker has not read. |
| `dp` | 2 engines, 1 front end, 2 requests, an abort, a pause of each mode | Engines agree on the wave and nobody is ahead of them; idle engines are known to be idle; every pass is joined; a pause completes and holds. |
| `moe` | 2 ranks x 2 experts, 2 tokens, top-2, blocks of 2 and 3 | The rank's output is what the router's choice says, in every id space and on every path; kernels stay within their buffers. |
| `ubatch` | 2 micro-batches, 1 or 2 layers, HT and low latency, launches that raise | One thread runs at a time; kernels have their inputs; collectives come in one order with the right handles; the pass ends. |
| `eplb` | 2 to 5 ranks, 1 or 2 layers or models, replicated experts, uneven counts, workers that die, transfers by send and receive and by NIXL reads | In every forward pass each expert's tokens go to slots that hold it; main threads never hang; a rearrangement completes. |
| `sched_priority` | 3 requests by priority, a long prompt | Violation, see below. |
| `dp_pause` | `dp` with a pause in mode `keep` | Violation, see below. |

Every property of a passing run has a mutant in `PROJECT.json`: an operator next
to the one it replaces, marked `Fault:`, that changes the model as a plausible bug
would, and under which the property fails.

### Where the code does not do what it says

Two runs end in a violation; `PROJECT.json` quotes the sentences they refute.

- `sched_priority`: under the priority policy a victim that this very call of
  `schedule()` has already scheduled leaves blocks in the prefix cache that no batch
  will compute, and a later request hits them (`ComputedKVIsValid`).
- `dp_pause`: a `START_DP_WAVE` that overtakes the resume call on another socket is
  ignored and never sent again; the engine that has the request waits alone in its
  forward pass (`EveryPassIsJoined`). A pause in mode
  `abort` ends the same way.

The passing properties name the other cases as exceptions, or the configurations
of the runs leave them out:

- *Offloading, `StopsAreOrdered`.* With asynchronous scheduling a request can stop
  or be aborted while a batch it is part of has yet to run. Its blocks are freed and
  may become the target of a load, which waits for no kernel; the late batch then
  overwrites the loaded KV. Stores wait for earlier kernels, loads do not.
- *Offloading, `ResetWasQuiet`.* `reset_cache` clears the jobs but leaves their ids
  in the requests' `transfer_jobs`. The next look at them raises `KeyError`. The host
  blocks themselves stay right, as `v1/kv_offload/cpu/manager.py` says.
- *Scheduler, three batches in flight.* A preempted request can be resumed before its
  old output returns, and samples the same position twice. The runs have at most two.
- *Scheduler, forced reset.* Stale outputs are counted by placeholders, which only the
  asynchronous scheduler keeps, so a reset under pipeline parallelism loses count.
  With draft tokens the count is in tokens but is used up per output frame, and the
  request starves. The runs combine a reset with neither.
- *Message queue, `missed`.* A `dequeue` that times out between the chunk and the
  socket of a large message has used up the chunk; later large messages come one
  late.
- *Executor.* The replies that a failed or timed-out call leaves behind are taken for
  those of the next one: `RepliesMatchCalls` stops at the first call that raised.
- *Executor.* A writer that waits on a full ring whose reader is dead is not woken by
  `shutdown()`. With the output rank alone answering steps, it goes on answering after
  the death of another worker, and the calls that the dead one does not read fill its
  ring: if that happens before the monitor sees the death, the engine waits for ever.
  `DeathEndsEngine` allows this end and no other, and rules it out when every worker
  answers every step, no utility call fails or times out, and the ring has room for one
  call more than the steps outstanding; both cases are in the run. The model does not
  say that a live worker waits on the device for its dead peer in a collective.
- *Coordinator.* The engine that needs no `START_DP_WAVE` is named by bytes and
  compared with an integer, so it is never left out. `PassIsJoinedUnlessIgnored`
  depends on this: with the exclusion in effect (its mutant) it fails.
- *Dual-batch overlap.* A thread that raises wakes the next one once, on its way out.
  At its next yield that one sets the event of a thread that is gone and sleeps for
  ever, and `_run_ubatches` waits in `join`. `PassEnds` and `CollectivesInOrder`
  exclude a launch that raised; `OneThreadRuns` and `KernelsHaveInputs` do not.
- *Load balancer.* An exception in a worker is only logged. Inference stays right, but
  no rearrangement ever completes.
- *Load balancer, NIXL.* `consumed_event` makes the worker's stream wait, but the reads
  of NIXL into the buffer are on no stream. That the main stream has emptied the buffer
  by then rests on `_pad_out_tensor`, whose copy from the host blocks the main thread
  until the stream has done what came before. Without this guard in `record_consumed`,
  `TokensFindTheirExpert` fails; for the other back ends it holds without it. The barrier
  after the reads is not needed in async mode: `_all_ranks_result_ready` comes between.

## 4. Bounds and why they are enough

- *KV cache.* Two requests suffice for sharing. Two contents give equal and different
  prefixes. Three usable blocks are fewer than two full tables, so eviction and
  refused allocations occur. The theorems of section 6 remove these bounds, and those of
  the free list, the message queue, the executor and the waves for their invariants.
- *Scheduler.* Token budget, pool and limits are chosen so that a prompt is split into
  chunks, two requests cannot both grow to the end, and a request is preempted,
  resumed with a cache hit and finished by length and by end-of-sequence token. Three
  requests are needed for a prefix common to some and for priorities. `resets` bounds
  forced resets. Liveness is examined for the configurations in `FairConfigs`, which
  keep the graph small enough; with fairness for all of them it holds too, in a
  run of a quarter of an hour.
- *Offloading.* The host cache holds less than all requests store, so lookups miss,
  hit, and find blocks being written; `Evicted` makes a request load what another
  stored into device blocks a third one used. Two workers finish a load at different
  times.
- *Message queue.* The ring wraps, with small and large messages mixed, and the writer
  is once a full ring ahead.
- *Executor.* The number of calls exceeds ring size plus outstanding calls.
- *Waves.* Two requests allow a request to cross with the end of the wave of the other
  one. An interval of 1 makes every pass a possible end of the wave; an interval of 2
  lets engines run a pass without agreeing.
- *MoE.* Two tokens with two experts each, over four experts on two ranks, give every
  mixture of local and remote pairs on both ranks, including an empty rank and an
  expert with more pairs than a block. Block sizes 2 and 3 give partial and several
  blocks, and equal and different schedules for the two GEMMs.
- *Micro-batches.* Two is what `enable_dbo` uses; three micro-batches pass as well. Two layers let a late kernel of one layer meet the next.
- *Load balancer.* Five ranks with two experts give a sender several receivers and a
  remainder; six slots of three experts give local and remote sources.
  `MaxInFlight` bounds how far a main thread is ahead of its GPU.

Deadlock is not checked where the bounded instance ends: requests, messages, calls,
the layer or the pass are finite. It is checked in `free_queue`, `kv_cache` and
`eplb`, where some step is always possible.

## 5. Fairness

- *Scheduler*: weak fairness of the engine's step, which its busy loop takes whenever
  there is work, and of grammar compilation, which a thread pool runs. None for
  arrivals, aborts or resets.
- *OffloadingConnector*: weak fairness of the engine and, on each worker, of its loop,
  its kernels and its copies in each direction. None for arrivals, aborts or resets.
- *MessageQueue*: weak fairness of the writer and of each reader's steps, which are
  running processes. None for the choice to spin rather than sleep, which depends
  on the clock, nor for timeouts and shutdown.
- *MultiprocExecutor*: weak fairness of engine, monitor, worker loops and output
  threads. Nothing forces the engine to make a call or a worker to die.
- *DPCoordinator*: weak fairness of deliveries and engine steps together, and strong
  fairness of deliveries, because an engine empties its input queue before each step.
  None for a front end that sends, aborts, pauses or resumes.
- *Ubatching*, *Eplb*: weak fairness of the threads and of the GPU. Nothing forces a
  launch to raise or a worker to die.

## 6. What is proved

Every `...Proofs` module is checked by TLAPS. A theorem holds for every value of the
constants that satisfies the named assumption of its module. The assumptions say that
the constants have their types and that sizes are not zero, and TLC evaluates them on
each run. Each proof has an inductive invariant `IInv`, one lemma per action, and a last
step that combines them.

### Free list

For any number of blocks (`NumBlocksAssumption`):

| Theorem | Statement |
| --- | --- |
| `ListStaysConsistent` | both directions of the list agree, the counter is its length, the blocks outside it are those handed out |
| `ListImplementsQueue` | the list implements `FreeBlockQueue` |

*Argument.* That the two directions agree is not inductive: a ring of blocks apart from
the list agrees too, and removing a block would go wrong there. The invariant says that
the pointers are those of *some* chain of distinct nodes from the fake head to the fake
tail, that a node outside the chain points nowhere, and that the counter is the length
of the chain. All operations are two: a segment is cut out (`Cut`), or blocks are
inserted (`Insert`). `WalkIsChain` shows that `get_all_free_blocks`, which follows the
pointers, returns the chain; the effect of a cut or an insertion on the sequence then
is that of the abstract operation.

### KV cache

For any finite set of requests, any set of contents, any number of blocks, any block
size and any bound on the tables:

| Theorem | Statement |
| --- | --- |
| `TypeCorrect` | `Spec => []TypeOK` |
| `ReferencesCounted` | a block's reference count is the number of tables that hold it |
| `FreeQueueIsExact` | the free queue is exactly the blocks with count 0, each once |
| `CacheMapAgrees` | hash map and block hashes agree |
| `SharingIsSafe` | a block in two tables stands for the same prefix in both |
| `AllocationNeverFails` | no operation raises after it was admitted |

*Assumptions*: `NumBlocksAssumption` and `KVCacheAssumption`. They say that the
constants have their types, that the pool has at least the null block and that the
set of requests is finite.

*Argument.* The inductive invariant is

    IInv == TypeOK /\ PoolInv(pool) /\ RefCountIsHolders /\ SharedOnlyWithSamePrefix
            /\ NoError /\ CachedHaveHashes /\ HashesChain

`PoolInv` is the part about the pool alone. `BlockPoolProofs` shows that each pool
operation preserves it, from lemmas on the sequences the free queue is made of
(splitting, joining, removing). `KVCacheManagerProofs` has one lemma per action.
Safe sharing is not inductive by itself: a request that looks up the cache or whose
hashes grow could meet a block cached under a hash it does not have. `HashesChain`
(the i-th hash stands for i blocks) and `CachedHaveHashes` (a request has a hash
for every block it cached) exclude this. `AllocateSlotsInv` is the longest proof:
the admission test must count the hit blocks that sit in the free queue, because
touching them shortens the queue before new blocks are taken from it.

### Dual-batch overlap

For any number of micro-batches and layers, either back end and any set of passes, with
launches that raise:

| Theorem | Statement |
| --- | --- |
| `OnlyOneThreadRuns` | at most one thread runs |
| `YieldAssertionsHold` | a running thread has its own forward context, and its event is not set |
| `KernelsRunAfterTheirInputs` | `Spec => []KernelsHaveInputs`: the GPU runs a kernel only after those it reads from, and no assertion fails |

*Assumption*: `SizesAssumption`, that there are at least two micro-batches and that
plans have their types.

*Argument.* The right to run is a token: a thread has it while it runs, and so does the
thread whose event is set. `OneToken` says that at most one thread has it, that none has
it before the main thread sets the first event, and that a running thread's own event is
clear and the forward context its own. "At most one thread runs" alone says nothing of
set events, so a step that wakes a thread could break it.

The order of the kernels is not inductive either: that the kernels that *have run* found
their inputs says nothing of those still on the streams. `OrderInv` adds three things.

- `QueueInv`, about the streams: the inputs of a kernel that is queued have run, are
  earlier on the same stream, or come before an event, recorded on the other stream and not
  yet reached, that an earlier item of this stream waits for (`BeforeAt`). The numbers of
  the records of an event rise along a stream and are above the last one reached, so a
  wait that is passed means that everything ahead of its record has run.
- `Ready`, about the threads: at each place of a layer's program, which earlier kernels
  of the micro-batch are on which stream (`On`), before which stream (`Before`), or
  ahead of the mark that the thread will wait for when it wakes. There is one table for each
  back end (`HtReady`, `LlReady`).
- `HookInv`, about the low-latency hooks: a hook that is set is the receiving half of a
  transfer that has been launched, its owner is about to run it or is the next to run, and
  its owner has not left. Together with the token this shows that no hook is overwritten
  before it is launched.

A GPU step keeps what could be counted on (`StepKeeps`), and so does whatever a thread puts
at the end of a stream (`KernelPut`, `RecordPut`, `WaitPut`, `SyncPut`); `HtNext` and
`LlNext` show that an operation gives what its successor in the program needs.
`UbatchingOrderProofs` has one lemma per action.

### Message queue

For any number of readers, chunks and messages, with timeouts and shutdowns
(`MessageQueueAssumption`):

| Theorem | Statement |
| --- | --- |
| `NeverTorn` | no reader is in a chunk that the writer is writing |
| `RingImplementsBroadcast` | ring and socket implement `BroadcastQueue` |

*Argument.* The flags do not say which message a chunk holds. The invariant counts: with
P messages published and t taken by a reader, the reader is at chunk t mod `max_chunks`,
t <= P, and the writer is at most one ring ahead of every reader. Two messages that are
less than a ring apart have different chunks (`ModUnique` and the lemmas after it), so
the read flags of the last `max_chunks` messages say exactly who has taken them. For the
refinement the invariant also says that the overflow socket of a reader that missed
none holds the large messages it has not received, in order.

### Multiprocess executor

| Theorem | Statement |
| --- | --- |
| `CallsGetTheirReplies` | until a call raises, each call is resolved with its own replies, in the order of the calls |

for any number of workers, calls and chunks and every configuration
(`MultiprocExecutorAssumption`).

*Argument.* A reply does not name its call. The invariant is that every queue holds
consecutive calls, and that the replies under way from a worker (in its output thread or
its ring) are those to the calls it has read that ask it for a reply and whose futures
have not taken it, in order. The first reply a future finds is thus its own.

### Data-parallel waves

For any number of engines, front ends and requests and all plans, pauses and aborts
included (`SizesAssumption` of `DPCoordinator`):

| Theorem | Statement |
| --- | --- |
| `EnginesShareTheWave` | the engines count the same wave; neither coordinator nor front ends are ahead |
| `PausedEnginesStay` | no engine runs between the answer to a pause and the resume |
| `RestIsKnown` | at rest, coordinator and front ends know the engines are idle, unless one ignored a `START_DP_WAVE` |

*Argument.* The invariant is about what is in flight. `WaveInv`: no message carries a
wave ahead of the engines, and a wave that is reported complete is over.
`PauseInv`: the engines pass through a pause in four phases, which they may not mix.
`KnownInv`: wherever a belief is wrong, a message that corrects it is on its way.

### Only model-checked

- Every liveness property: it needs fairness, which the prover does not handle.
- The refinement `UsesKVCacheManager`, and the invariants of the scheduler and of
  offloading. They speak of the contents of batches in flight, which recursive functions
  and folds compute; what those return for every input needs an induction over data.
- The MoE layer and the load balancer, for the same reason: a prefix sum or a placement
  is a fold.
- The order of the collectives in `Ubatching` (`CollectivesInOrder`): it counts the rounds
  of the threads through all layers, which the invariants proved so far do not mention.

## 7. Not modelled

Inside the parts above:

- *KV cache*: sliding-window, chunked-local, mamba and cross attention, several
  groups, KV cache events, hash collisions.
- *Scheduler*: encoder inputs, LoRA limits, failed loads of a connector, pooling,
  streaming sessions, pipeline parallelism together with asynchronous scheduling, the
  block EAGLE drops. Pause is modelled where engines must agree on it, in
  `DPCoordinator`.
- *Offloading*: sliding-window and mamba groups, host blocks larger than device
  blocks, the ARC policy, thresholds for storing, the policy `REQUEST_LEVEL`,
  `max_offload_tokens` and `offload_prompt_only`, chunked prefill (a step computes
  what is left). Also `reset_prefix_cache(reset_running_requests=True)`: it preempts all
  requests between two steps, so they are not among `preempted_req_ids` of any step, and
  their blocks are not watched as those of finished requests are. Unless the connector
  is reset with it, their stores in flight are not flushed before the blocks are given
  out again, and nothing here says that those stores read the right KV.
- *Message queue*: readers on other hosts, weak memory, zmq high-water marks.
- *Executor*: start-up and termination of processes.
- *Waves*: load-balancing counts, engines without a coordinator, elastic scaling.
- *MoE layer*: quantised weights, LoRA, the token-major W2 reduction, round-robin
  placement, the combine across ranks.
- *Dual-batch overlap*: CUDA graph capture and replay, the split of the batch, other
  all-to-all back ends.
- *Load balancer*: recording of loads, profiling runs, rank mappings of elastic
  scaling, the policy's arithmetic. NIXL in sync mode: there the reads of one layer
  follow the copies of the layer before out of the same buffer without waiting for
  them, so nothing here says that those copies take the right weights.

Whole parts:

- *Elastic expert parallelism*: its stages are driven by barriers and stores of
  `torch.distributed` and end in a restart with a new configuration; what can go
  wrong lies in the behaviour of those.
- *Tiered and simple offloading*: the protocol of `OffloadingConnector` with other
  managers, over third-party storage.
- *Other KV and encoder connectors*: abstract interfaces, or clients of transports
  whose protocol is not in the repository.
- *Encoder cache manager*: bookkeeping inside `schedule()` that needs the multimodal
  inputs the scheduler model leaves out.
- *Output processor*: sequential work on outputs in one process.
- *Structured output*: compilation is an action of `Scheduler`; the rest is in
  third-party back ends.
- *Ray and single-process executors*: ordered by Ray, or without concurrency.
- *Sampling, draft models, model runner, attention kernels, custom all-reduce, weight
  transfer, models, compilation, configuration, API servers*: numerical code, wrappers
  of libraries, or code without a protocol. The models above take any sampled token,
  any number of accepted drafts, and collectives that all ranks enter together.
