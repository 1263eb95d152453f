------------------------- MODULE OffloadingConnector -------------------------
(***************************************************************************)
(* Offloading of KV blocks to host memory: the connector inside the        *)
(* scheduler, the manager of the host blocks with its LRU policy, and the  *)
(* workers that copy blocks while the model runs.                          *)
(*                                                                         *)
(* The scheduler appears with what the connector sees of it: allocation,   *)
(* preemption, requests that wait for a load, batches in flight, stops,    *)
(* aborts and resets.  Its KV cache is the one of KVCacheManager with      *)
(* blocks of one token, so a token stands for the tokens of a whole block; *)
(* every step computes all the tokens a request has left, there is one     *)
(* group of full-attention layers, and host blocks are as large as the     *)
(* ones of the device.                                                     *)
(*                                                                         *)
(* On a worker, kernels run in the order in which batches are launched.    *)
(* The copies of one direction run in order; a store also waits for the    *)
(* kernels launched before it.  Nothing else orders copies and kernels,    *)
(* except that the worker waits for the jobs it is told to flush.          *)
(*                                                                         *)
(* The policy is BLOCK_LEVEL; a request may store all its blocks            *)
(* (neither max_offload_tokens nor offload_prompt_only is set).            *)
(*                                                                         *)
(* gpu and cpu say whose KV every block holds: that of the last of a       *)
(* sequence of tokens, so the hash of the block that was meant.            *)
(***************************************************************************)
EXTENDS Integers, FiniteSets, Sequences, SequencesExt

CONSTANTS
    Request,
    Token,
    MaxTokens,
    NumBlocks,
    MaxWorkers,
    Configs,                 \* the configurations and workloads, one of which is run
    FairConfigs              \* those whose liveness is examined

OffloadConfig ==
    [text : [Request -> Seq(Token)],     \* prompt and output
     prompt : [Request -> Nat],          \* length of the prompt
     requests : SUBSET Request,          \* the requests that clients send
     eos : SUBSET Request,               \* those that stop before max_tokens
     aborts : SUBSET Request,            \* those a client may abort
     async_scheduling : BOOLEAN,
     num_workers : Nat \ {0},
     num_cpu_blocks : Nat,
     resets : Nat]                       \* bound on resets of the connector

ASSUME OffloadAssumption ==
    \A c \in Configs :
        /\ c \in OffloadConfig
        /\ c.num_workers <= MaxWorkers
        /\ \A r \in c.requests :
              /\ c.prompt[r] \in 1 .. Len(c.text[r]) - 1
              /\ Len(c.text[r]) <= MaxTokens
        \* One request fits in the cache, with the token after its last one.
        /\ MaxTokens < NumBlocks

VARIABLES
    config,                      \* never changes
    pool, req_to_blocks, num_cached_block, block_hashes, error,
    status,
    num_computed_tokens,
    num_output_placeholders,
    preempted_before,            \* num_preemptions > 0
    running, waiting, skipped_waiting,
    finished_req_ids,
    finished_recving,            \* finished_recving_kv_req_ids
    step,                        \* the local variables of schedule()
    conn,                        \* OffloadingConnectorScheduler
    manager,                     \* CPUOffloadingManager
    batch_queue,
    worker,                      \* OffloadingConnectorWorker of every rank
    gpu, cpu,                    \* contents of the blocks of every rank
    out,                         \* the output being processed
    recv_count,                  \* KVOutputAggregator: workers that finished a load
    resets,
    pc

kvVars == <<pool, req_to_blocks, num_cached_block, block_hashes, error>>
reqVars == <<status, num_computed_tokens, num_output_placeholders, preempted_before>>
queueVars == <<running, waiting, skipped_waiting>>
schedVars == <<reqVars, queueVars, finished_req_ids, finished_recving>>
connVars == <<conn, manager>>
deviceVars == <<worker, gpu, cpu>>
vars == <<config, kvVars, schedVars, step, connVars, batch_queue, deviceVars, out, recv_count, resets, pc>>

KV == INSTANCE KVCacheManager
        WITH Content <- Token, BlockSize <- 1, MaxBlocks <- MaxTokens, KVLoadFailures <- FALSE

\* Without asynchronous scheduling EngineCore.step runs one batch at a time.
batch_queue_size == IF config.async_scheduling THEN 2 ELSE 1

Workers == 1 .. config.num_workers
CpuBlock == 0 .. config.num_cpu_blocks - 1

Live == {"WAITING", "WAITING_FOR_REMOTE_KVS", "RUNNING", "PREEMPTED"}

\* A request aborted during its load keeps its blocks, and its place in
\* Scheduler.requests, until the load is done.
Status == Live \cup {"UNKNOWN", "FINISHED", "FINISHED_LOADING"}

finished(r) == status[r] \in {"FINISHED", "FINISHED_LOADING"}

num_tokens(r) == Len(block_hashes[r])
keys(r) == block_hashes[r]

\* The KV of the first p tokens of r; nothing useful after the end of its text.
Written(r, p) == IF p <= Len(config.text[r]) THEN SubSeq(config.text[r], 1, p) ELSE <<>>

Least(a, b) == IF a <= b THEN a ELSE b
Without(q, r) == SelectSeq(q, LAMBDA x : x # r)

-----------------------------------------------------------------------------
\* CPUOffloadingManager with LRUCachePolicy.  blocks is the OrderedDict of the
\* policy, oldest first; ref_cnt is -1 while a block is being written.

NewManager == [blocks |-> <<>>, free_list |-> <<>>, num_allocated |-> 0]

stored_keys(m) == {m.blocks[i].key : i \in DOMAIN m.blocks}
policy_get(m, key) == m.blocks[CHOOSE i \in DOMAIN m.blocks : m.blocks[i].key = key]
is_ready(m, key) == policy_get(m, key).ref_cnt >= 0

\* LRUCachePolicy.touch: the last key first, so that it is evicted first.
policy_touch(m, touched) ==
    LET present == SelectSeq(KV!Reverse(touched), LAMBDA k : k \in stored_keys(m))
    IN [m EXCEPT !.blocks =
          SelectSeq(@, LAMBDA b : b.key \notin KV!Elements(present))
            \o [i \in DOMAIN present |-> policy_get(m, present[i])]]

add_ref(m, touched, n) ==
    [m EXCEPT !.blocks = [i \in DOMAIN @ |->
        IF @[i].key \in touched THEN [@[i] EXCEPT !.ref_cnt = @ + n] ELSE @[i]]]

\* LRUCachePolicy.evict: the oldest blocks that nobody reads or writes.
evictable(m, protected) ==
    SelectSeq(m.blocks, LAMBDA b : b.ref_cnt = 0 /\ b.key \notin protected)

num_free_cpu_blocks(m) == Len(m.free_list) + config.num_cpu_blocks - m.num_allocated

\* prepare_store for keys none of which is stored, or nothing if there is no
\* room.  Blocks never used come first, then those freed last.
can_store(m, new, protected) ==
    Len(new) - num_free_cpu_blocks(m) <= Len(evictable(m, protected))

prepare_store(m, new, protected) ==
    LET num_evict == Len(new) - num_free_cpu_blocks(m)
        evicted == IF num_evict > 0 THEN SubSeq(evictable(m, protected), 1, num_evict) ELSE <<>>
        free == m.free_list \o [i \in DOMAIN evicted |-> evicted[i].id]
        num_fresh == Least(Len(new), config.num_cpu_blocks - m.num_allocated)
        Id(i) == IF i <= num_fresh THEN m.num_allocated + i - 1
                 ELSE free[Len(free) + 1 - (i - num_fresh)]
        inserted == [i \in DOMAIN new |-> [key |-> new[i], id |-> Id(i), ref_cnt |-> -1]]
    IN [blocks |-> SelectSeq(m.blocks, LAMBDA b : b \notin KV!Elements(evicted)) \o inserted,
        free_list |-> SubSeq(free, 1, Len(free) - (Len(new) - num_fresh)),
        num_allocated |-> m.num_allocated + num_fresh]

\* complete_store makes the blocks readable.
complete_store(m, stored) ==
    [m EXCEPT !.blocks = [i \in DOMAIN @ |->
        IF @[i].key \in stored /\ @[i].ref_cnt = -1 THEN [@[i] EXCEPT !.ref_cnt = 0] ELSE @[i]]]

complete_load_fails(m, loaded) ==
    \E k \in loaded : k \notin stored_keys(m) \/ policy_get(m, k).ref_cnt <= 0

-----------------------------------------------------------------------------
\* State

NewConnector ==
    [req_status |-> {},                                   \* the requests tracked
     block_ids |-> [r \in Request |-> <<>>],
     next_stored |-> [r \in Request |-> 0],               \* next_stored_block_idx
     transfer_jobs |-> [r \in Request |-> {}],
     jobs |-> <<>>,                                       \* _jobs: id -> job
     pending |-> {},                                      \* _block_id_to_pending_jobs
     being_loaded |-> {},                                 \* _blocks_being_loaded
     job_counter |-> 1,
     stale_threshold |-> 1,
     failed |-> FALSE,                                    \* an assertion or a lookup raised
     reset_in_flight |-> FALSE]                           \* history

\* flush, loads and stores are what the connector collects during a step.
NoStep == [index |-> 1, items |-> <<>>, preempted |-> {}, skipped |-> <<>>, loads |-> <<>>,
           stores |-> <<>>, flush |-> {}, allocated |-> {}]

NoOutput == [items |-> <<>>, completed |-> <<>>, recving |-> {}]

Init ==
    /\ config \in Configs
    /\ pool = KV!EmptyPool
    /\ req_to_blocks = [r \in Request |-> <<>>]
    /\ num_cached_block = [r \in Request |-> KV!Untracked]
    /\ block_hashes = [r \in Request |->
                         [i \in 1 .. config.prompt[r] |-> SubSeq(config.text[r], 1, i)]]
    /\ error = FALSE
    /\ status = [r \in Request |-> "UNKNOWN"]
    /\ num_computed_tokens = [r \in Request |-> 0]
    /\ num_output_placeholders = [r \in Request |-> 0]
    /\ preempted_before = {}
    /\ running = <<>> /\ waiting = <<>> /\ skipped_waiting = <<>>
    /\ finished_req_ids = {}
    /\ finished_recving = {}
    /\ step = NoStep
    /\ conn = NewConnector
    /\ manager = NewManager
    /\ batch_queue = <<>>
    /\ worker = [w \in Workers |-> [unsubmitted |-> <<>>, stores |-> <<>>, loads |-> <<>>]]
    /\ gpu = [w \in Workers |-> [b \in KV!Block |-> <<>>]]
    /\ cpu = [w \in Workers |-> [c \in CpuBlock |-> <<>>]]
    /\ out = NoOutput
    /\ recv_count = [r \in Request |-> 0]
    /\ resets = 0
    /\ pc = "idle"

-----------------------------------------------------------------------------
\* Requests come and go

add_request(r) ==
    /\ pc = "idle"
    /\ r \in config.requests
    /\ status[r] = "UNKNOWN"
    /\ status' = [status EXCEPT ![r] = "WAITING"]
    /\ waiting' = Append(waiting, r)
    /\ conn' = [conn EXCEPT !.req_status = @ \cup {r}]         \* on_new_request
    /\ UNCHANGED <<config, kvVars, num_computed_tokens, num_output_placeholders, preempted_before,
                   running, skipped_waiting, finished_req_ids, finished_recving, step, manager,
                   batch_queue, deviceVars, out, recv_count, resets, pc>>

\* request_finished: the blocks of stores in progress are watched from now on,
\* since the request gives them up.
request_finished(c, r) ==
    IF r \notin c.req_status THEN c
    ELSE IF c.transfer_jobs[r] = {} THEN [c EXCEPT !.req_status = @ \ {r}]
    ELSE LET known == c.transfer_jobs[r] \cap DOMAIN c.jobs
         IN [c EXCEPT
               !.pending = @ \cup UNION {{<<b, j>> : b \in KV!Elements(c.jobs[j].blocks)} : j \in known},
               !.failed = @ \/ known # c.transfer_jobs[r]]

\* finish_requests for a request that its client aborts.
finish_requests(r) ==
    /\ pc \in {"idle", "update"}
    /\ r \in config.aborts
    /\ status[r] \in Live
    /\ running' = Without(running, r)
    /\ waiting' = Without(waiting, r)
    /\ skipped_waiting' = Without(skipped_waiting, r)
    /\ IF status[r] = "WAITING_FOR_REMOTE_KVS" /\ r \notin finished_recving
       THEN /\ status' = [status EXCEPT ![r] = "FINISHED_LOADING"]
            /\ UNCHANGED kvVars
       ELSE /\ status' = [status EXCEPT ![r] = "FINISHED"]
            /\ KV!free(r)
    /\ finished_recving' = finished_recving \ {r}
    /\ conn' = request_finished(conn, r)
    /\ finished_req_ids' = finished_req_ids \cup {r}
    /\ UNCHANGED <<config, num_computed_tokens, num_output_placeholders, preempted_before, step, manager,
                   batch_queue, deviceVars, out, recv_count, resets, pc>>

-----------------------------------------------------------------------------
\* schedule(): the running requests

has_requests ==
    \/ running # <<>> \/ waiting # <<>> \/ skipped_waiting # <<>>
    \/ finished_req_ids # {}
    \/ \E r \in Request : status[r] = "FINISHED_LOADING"

schedule ==
    /\ pc = "idle"
    /\ has_requests
    /\ step' = [NoStep EXCEPT !.flush = step.flush]
    /\ pc' = "running"
    /\ UNCHANGED <<config, kvVars, schedVars, connVars, batch_queue, deviceVars, out, recv_count, resets>>

\* The request has been scheduled up to its max_tokens already; one that stops
\* by itself is allowed one more token.
max_total_tokens(r) == Len(config.text[r]) + (IF r \in config.eos THEN 1 ELSE 0)

last_token_in_flight(r) ==
    /\ num_output_placeholders[r] > 0
    /\ num_computed_tokens[r] + 2 - num_output_placeholders[r] >= max_total_tokens(r)

num_new_tokens(r) == num_tokens(r) + num_output_placeholders[r] - num_computed_tokens[r]

running_done ==
    /\ pc = "running"
    /\ step.index > Len(running)
    /\ pc' = IF step.preempted # {} THEN "meta" ELSE "waiting"
    /\ UNCHANGED <<config, kvVars, schedVars, step, connVars, batch_queue, deviceVars, out, recv_count,
                   resets>>

running_skip ==
    /\ pc = "running"
    /\ step.index <= Len(running)
    /\ last_token_in_flight(running[step.index]) \/ num_new_tokens(running[step.index]) = 0
    /\ step' = [step EXCEPT !.index = @ + 1]
    /\ UNCHANGED <<config, kvVars, schedVars, connVars, batch_queue, deviceVars, out, recv_count, resets,
                   pc>>

Fits(r, hit, num, reserved) ==
    KV!get_num_blocks_to_allocate(r, hit, num) <= KV!get_num_free_blocks(pool) - reserved

\* A request of a batch: the tokens from + 1 .. from + num are computed, with
\* the given block table, of which new is what the connector is told of.
Item(r, from, num, blocks, new, resumed) ==
    [req |-> r, from |-> from, num |-> num, blocks |-> blocks, new |-> new, resumed |-> resumed]

running_allocate ==
    /\ pc = "running"
    /\ step.index <= Len(running)
    /\ LET r == running[step.index]
           computed == num_computed_tokens[r]
           n == num_new_tokens(r)
       IN /\ ~last_token_in_flight(r) /\ n > 0
          /\ Fits(r, <<>>, computed + n, 0)
          /\ KV!allocate_slots(r, <<>>, FALSE, computed + n, Least(computed + n, num_tokens(r)))
          /\ LET blocks == req_to_blocks'[r]
                 new == SubSeq(blocks, Len(req_to_blocks[r]) + 1, Len(blocks))
             IN step' = [step EXCEPT !.index = @ + 1,
                                     !.items = Append(@, Item(r, computed, n, blocks, new, FALSE))]
    /\ UNCHANGED <<config, schedVars, connVars, batch_queue, deviceVars, out, recv_count, resets, pc>>

\* FCFS: the last running request is the victim, perhaps the one at hand.
running_preempt ==
    /\ pc = "running"
    /\ step.index <= Len(running)
    /\ LET r == running[step.index]
           victim == running[Len(running)]
       IN /\ ~last_token_in_flight(r) /\ num_new_tokens(r) > 0
          /\ ~Fits(r, <<>>, num_computed_tokens[r] + num_new_tokens(r), 0)
          /\ KV!free(victim)
          /\ status' = [status EXCEPT ![victim] = "PREEMPTED"]
          /\ num_computed_tokens' = [num_computed_tokens EXCEPT ![victim] = 0]
          /\ preempted_before' = preempted_before \cup {victim}
          /\ running' = Without(running, victim)
          /\ waiting' = <<victim>> \o waiting
          /\ step' = [step EXCEPT !.preempted = @ \cup {victim}]
    /\ UNCHANGED <<config, num_output_placeholders, skipped_waiting, finished_req_ids, finished_recving,
                   connVars, batch_queue, deviceVars, out, recv_count, resets, pc>>

-----------------------------------------------------------------------------
\* schedule(): the waiting requests

Deferred == -1

\* _maximal_prefix_lookup: how many of the keys are stored, up to the first miss.
prefix_hits(wanted) ==
    LET Hits(n) == \A i \in 1 .. n : wanted[i] \in stored_keys(manager)
    IN CHOOSE n \in 0 .. Len(wanted) : Hits(n) /\ (n < Len(wanted) => ~Hits(n + 1))

\* Fault: blocks that are being written are hits.
lookup_unready(r, local) == prefix_hits(SubSeq(keys(r), local + 1, num_tokens(r)))

\* _lookup: how many tokens after the local ones can be loaded.  It is
\* deferred while a block it would load is being written, or loaded for
\* another request.
lookup(r, local) ==
    LET hit == prefix_hits(SubSeq(keys(r), local + 1, num_tokens(r)))
        found == {keys(r)[i] : i \in local + 1 .. local + hit}
    IN IF \/ \E k \in found : ~is_ready(manager, k)
          \/ found \cap conn.being_loaded # {}
       THEN Deferred ELSE hit

cache_hits(r) == KV!find_longest_cache_hit(keys(r), num_tokens(r) - 1)

next_waiting == Head(IF skipped_waiting # <<>> THEN skipped_waiting ELSE waiting)

queued == KV!Elements(waiting \o skipped_waiting)

\* The request at the head has no tokens yet, or has loaded some.
starts(r) == status[r] \in {"WAITING", "PREEMPTED"} /\ num_computed_tokens[r] = 0
resumes_after_load(r) == status[r] \in {"WAITING", "PREEMPTED"} /\ num_computed_tokens[r] > 0

more_waiting == pc = "waiting" /\ waiting \o skipped_waiting # <<>>

waiting_done ==
    /\ pc = "waiting"
    /\ waiting \o skipped_waiting = <<>>
    /\ pc' = "meta"
    /\ UNCHANGED <<config, kvVars, schedVars, step, connVars, batch_queue, deviceVars, out, recv_count,
                   resets>>

pop_waiting(r) ==
    /\ waiting' = Without(waiting, r)
    /\ skipped_waiting' = Without(skipped_waiting, r)

\* What get_num_new_matched_tokens changes, whatever it returns.
matched == [conn EXCEPT !.block_ids[next_waiting] = <<>>]
matched_manager == policy_touch(manager, keys(next_waiting))

\* The request waits for a load, or the lookup is deferred.
waiting_skip ==
    /\ more_waiting
    /\ LET r == next_waiting
       IN /\ \/ /\ status[r] = "WAITING_FOR_REMOTE_KVS"
                /\ r \notin finished_recving
                /\ UNCHANGED connVars
             \/ /\ starts(r)
                /\ \E hit \in cache_hits(r) : lookup(r, Len(hit)) = Deferred
                /\ conn' = matched
                /\ manager' = matched_manager
          /\ pop_waiting(r)
          /\ step' = [step EXCEPT !.skipped = <<r>> \o @]
    /\ UNCHANGED <<config, kvVars, reqVars, running, finished_req_ids, finished_recving, batch_queue,
                   deviceVars, out, recv_count, resets, pc>>

\* _try_promote_blocked_waiting_request: the loaded blocks are cached, and if
\* nothing is left to compute the last token is computed again.
waiting_promote ==
    /\ more_waiting
    /\ LET r == next_waiting
           computed == num_computed_tokens[r]
       IN /\ status[r] = "WAITING_FOR_REMOTE_KVS"
          /\ r \in finished_recving
          /\ KV!cache_blocks(r, computed)
          /\ num_computed_tokens' = [num_computed_tokens EXCEPT ![r] = Least(@, num_tokens(r) - 1)]
          /\ status' = [status EXCEPT ![r] = IF r \in preempted_before THEN "PREEMPTED" ELSE "WAITING"]
          /\ finished_recving' = finished_recving \ {r}
    /\ UNCHANGED <<config, num_output_placeholders, preempted_before, queueVars, finished_req_ids, step,
                   connVars, batch_queue, deviceVars, out, recv_count, resets, pc>>

\* _inflight_prefill_reserved_blocks: what requests with a load still need.
reserved_blocks ==
    FoldSet(LAMBDA r, n : n + KV!num_new_blocks(r, <<>>, num_tokens(r)), 0,
            {r \in queued \cup KV!Elements(step.skipped) :
                status[r] = "WAITING_FOR_REMOTE_KVS" \/ num_computed_tokens[r] > 0})

\* Room for what the step needs, and for all of the request.
start_fits(r, hit, ext) ==
    /\ Fits(r, hit, num_tokens(r), 0)
    /\ ext > 0 => Fits(r, hit, Len(hit) + ext, reserved_blocks)

\* allocate_slots finds no room, which ends the loop.
waiting_no_room ==
    /\ more_waiting
    /\ LET r == next_waiting
       IN \/ /\ starts(r)
             /\ \E hit \in cache_hits(r) :
                  /\ lookup(r, Len(hit)) # Deferred
                  /\ ~start_fits(r, hit, lookup(r, Len(hit)))
             /\ conn' = matched
             /\ manager' = matched_manager
          \/ /\ resumes_after_load(r)
             /\ ~Fits(r, <<>>, num_tokens(r), 0)
             /\ UNCHANGED connVars
    /\ pc' = "meta"
    /\ UNCHANGED <<config, kvVars, schedVars, step, batch_queue, deviceVars, out, recv_count, resets>>

\* The request is scheduled with n tokens to compute.
run_waiting(r, computed, n) ==
    /\ pop_waiting(r)
    /\ running' = Append(running, r)
    /\ status' = [status EXCEPT ![r] = "RUNNING"]
    /\ num_computed_tokens' = [num_computed_tokens EXCEPT ![r] = computed]
    /\ step' = [step EXCEPT !.items = Append(@, Item(r, computed, n, req_to_blocks'[r],
                                                     req_to_blocks'[r], status[r] = "PREEMPTED"))]
    /\ UNCHANGED <<num_output_placeholders, preempted_before, finished_req_ids, finished_recving>>

waiting_run ==
    /\ more_waiting
    /\ LET r == next_waiting
           num == num_tokens(r)
       IN \/ /\ starts(r)
             /\ \E hit \in cache_hits(r) :
                  /\ lookup(r, Len(hit)) = 0
                  /\ start_fits(r, hit, 0)
                  /\ KV!allocate_slots(r, hit, hit # <<>>, num, num)
                  /\ run_waiting(r, Len(hit), num - Len(hit))
             /\ conn' = matched
             /\ manager' = matched_manager
          \/ /\ resumes_after_load(r)
             /\ Fits(r, <<>>, num, 0)
             /\ KV!allocate_slots(r, <<>>, FALSE, num, num)
             /\ run_waiting(r, num_computed_tokens[r], num - num_computed_tokens[r])
             /\ UNCHANGED connVars
    /\ UNCHANGED <<config, batch_queue, deviceVars, out, recv_count, resets, pc>>

\* A job of the connector, and the copies it asks of every worker.
Job(r, loaded, is_store, blocks) ==
    [req |-> r, pending |-> config.num_workers, keys |-> loaded, is_store |-> is_store, blocks |-> blocks]

Transfer(id, r, blocks, m, copied) ==
    [id |-> id, req |-> r, behind |-> 0, done |-> FALSE,
     copies |-> [i \in DOMAIN blocks |-> <<blocks[i], policy_get(m, copied[i]).id>>]]

\* update_state_after_alloc and prepare_load: a load of the blocks of the first
\* num tokens that the prefix cache does not have.
start_load(r, num) ==
    LET blocks == req_to_blocks'[r]
        missing == {i \in 1 .. num : pool'.block_hash[blocks[i]] = KV!NoHash}
        local == IF missing = {} THEN num ELSE (CHOOSE i \in missing : \A j \in missing : i <= j) - 1
        loaded == SubSeq(keys(r), local + 1, num)
        dst == SubSeq(blocks, local + 1, num)
        found == \A k \in KV!Elements(loaded) :
                    k \in stored_keys(matched_manager) /\ is_ready(matched_manager, k)
        id == conn.job_counter
    IN /\ step' = [step EXCEPT
                     !.skipped = <<r>> \o @,
                     !.allocated = @ \cup KV!Elements(blocks),
                     !.loads = IF found THEN Append(@, Transfer(id, r, dst, matched_manager, loaded)) ELSE @]
       /\ conn' = [matched EXCEPT
                     !.next_stored[r] = num,
                     !.transfer_jobs[r] = @ \cup {id},
                     !.jobs = @ @@ (id :> Job(r, KV!Elements(loaded), FALSE, <<>>)),
                     !.being_loaded = @ \cup KV!Elements(loaded),
                     !.job_counter = @ + 1,
                     !.failed = @ \/ ~found \/ conn.transfer_jobs[r] # {}]
       /\ manager' = add_ref(matched_manager, KV!Elements(loaded), 1)

waiting_load ==
    /\ more_waiting
    /\ LET r == next_waiting
       IN /\ starts(r)
          /\ \E hit \in cache_hits(r) :
               LET ext == lookup(r, Len(hit))
               IN /\ ext > 0
                  /\ start_fits(r, hit, ext)
                  /\ KV!allocate_slots(r, hit, TRUE, Len(hit) + ext, 0)
                  /\ start_load(r, Len(hit) + ext)
                  /\ num_computed_tokens' = [num_computed_tokens EXCEPT ![r] = Len(hit) + ext]
          /\ pop_waiting(r)
          /\ status' = [status EXCEPT ![r] = "WAITING_FOR_REMOTE_KVS"]
    /\ UNCHANGED <<config, num_output_placeholders, preempted_before, running, finished_req_ids,
                   finished_recving, batch_queue, deviceVars, out, recv_count, resets, pc>>

-----------------------------------------------------------------------------
\* schedule(): build_connector_meta and the end of the step

\* _update_req_states, for the requests of the step.
update_req_states(c) ==
    LET Told(r) == {i \in DOMAIN step.items : step.items[i].req = r}
        item(r) == step.items[CHOOSE i \in Told(r) : TRUE]
    IN [c EXCEPT !.block_ids = [r \in Request |->
          IF Told(r) = {} THEN @[r]
          ELSE (IF item(r).resumed THEN <<>> ELSE @[r]) \o item(r).new]]

allocated_blocks ==
    step.allocated \cup UNION {KV!Elements(step.items[i].new) : i \in DOMAIN step.items}

\* The jobs of a request that should all be stores.
only_stores(c, r) ==
    \A j \in c.transfer_jobs[r] : j \in DOMAIN c.jobs /\ c.jobs[j].is_store

\* Stores that must be done before the step runs: those of requests preempted
\* in it, and those that read a block which it has given to somebody else.
jobs_of_preempted == UNION {conn.transfer_jobs[r] : r \in step.preempted \cap conn.req_status}
jobs_of_reallocated == {p[2] : p \in {q \in conn.pending : q[1] \in allocated_blocks}}

\* Fault: a block given to somebody else may still be read by a store.
flush_preempted_only ==
    step.flush
      \cup jobs_of_preempted
      \cup (IF conn.req_status # {} /\ \A r \in conn.req_status : finished(r)
            THEN DOMAIN conn.jobs ELSE {})

\* Fault: the last stores are left to a later step.
flush_no_rest == step.flush \cup jobs_of_preempted \cup jobs_of_reallocated

\* When all requests are finished there may be no further step: flush all.
jobs_to_flush ==
    step.flush
      \cup jobs_of_preempted
      \cup jobs_of_reallocated
      \cup (IF conn.req_status # {} /\ \A r \in conn.req_status : finished(r)
            THEN DOMAIN conn.jobs ELSE {})

build_connector_meta ==
    /\ pc = "meta"
    /\ conn' = [update_req_states(conn) EXCEPT
                  !.failed = @ \/ \E r \in step.preempted \cap conn.req_status : ~only_stores(conn, r)]
    /\ step' = [step EXCEPT !.index = 1, !.flush = jobs_to_flush]
    /\ pc' = "store"
    /\ UNCHANGED <<config, kvVars, schedVars, manager, batch_queue, deviceVars, out, recv_count, resets>>

\* One iteration of _build_store_jobs: the blocks of the item that are complete
\* after the batch, from the first that the connector has not dealt with.
build_store_job ==
    /\ pc = "store"
    /\ step.index <= Len(step.items)
    /\ LET item == step.items[step.index]
           r == item.req
           num == Least(num_computed_tokens[r] + item.num, num_tokens(r))
           wanted == SubSeq(keys(r), conn.next_stored[r] + 1, num)
           new == SelectSeq(wanted, LAMBDA k : k \notin stored_keys(manager))
           short == wanted # <<>> /\ Len(conn.block_ids[r]) < num     \* asserted not to be
           src == [i \in DOMAIN new |-> conn.block_ids[r][Len(new[i])]]
           id == conn.job_counter
       IN \/ /\ new = <<>> \/ short
             /\ conn' = [conn EXCEPT !.next_stored[r] = num, !.failed = @ \/ short]
             /\ step' = [step EXCEPT !.index = @ + 1]
             /\ UNCHANGED manager
          \/ /\ new # <<>> /\ ~short
             /\ ~can_store(manager, new, KV!Elements(wanted))
             /\ step' = [step EXCEPT !.index = @ + 1]
             /\ UNCHANGED connVars
          \/ /\ new # <<>> /\ ~short
             /\ can_store(manager, new, KV!Elements(wanted))
             /\ manager' = policy_touch(prepare_store(manager, new, KV!Elements(wanted)), keys(r))
             /\ conn' = [conn EXCEPT
                           !.next_stored[r] = num,
                           !.transfer_jobs[r] = @ \cup {id},
                           !.jobs = @ @@ (id :> Job(r, KV!Elements(new), TRUE, src)),
                           !.job_counter = @ + 1,
                           !.failed = @ \/ ~only_stores(conn, r)]
             /\ step' = [step EXCEPT !.index = @ + 1,
                                     !.stores = Append(@, Transfer(id, r, src, manager', new))]
    /\ UNCHANGED <<config, kvVars, schedVars, batch_queue, deviceVars, out, recv_count, resets, pc>>

Batch(items, loads, stores, flush) ==
    [items |-> items, loads |-> loads, stores |-> stores, flush |-> flush,
     phase |-> [w \in Workers |-> "start"],
     kernel |-> [w \in Workers |-> IF items = <<>> THEN "executed" ELSE "waiting"],
     completed |-> [w \in Workers |-> {}],
     recving |-> [w \in Workers |-> {}]]

finish_schedule ==
    /\ pc = "store"
    /\ step.index > Len(step.items)
    /\ LET items == step.items
           Scheduled(r) == {i \in DOMAIN items : items[i].req = r}
       IN /\ batch_queue' = Append(batch_queue, Batch(items, step.loads, step.stores, step.flush))
          /\ num_computed_tokens' = [r \in Request |-> num_computed_tokens[r] +
                (IF Scheduled(r) = {} THEN 0 ELSE items[CHOOSE i \in Scheduled(r) : TRUE].num)]
          /\ num_output_placeholders' = [r \in Request |-> num_output_placeholders[r] +
                (IF config.async_scheduling /\ Scheduled(r) # {} THEN 1 ELSE 0)]
    /\ skipped_waiting' = KV!Reverse(step.skipped) \o skipped_waiting
    /\ finished_req_ids' = {}
    /\ step' = NoStep
    /\ UNCHANGED <<config, kvVars, status, preempted_before, running, waiting, finished_recving, connVars,
                   deviceVars, out, recv_count, resets>>
    /\ pc' = IF Len(batch_queue') < batch_queue_size /\ (step.items # <<>> \/ has_requests')
             THEN "idle" ELSE "update"

-----------------------------------------------------------------------------
\* Workers.  Kernels and copies go on while a worker prepares other batches.

\* The batch a worker is at: the first it is not done with.
at(w, i) ==
    /\ i \in DOMAIN batch_queue
    /\ batch_queue[i].phase[w] # "done"
    /\ \A j \in 1 .. i - 1 : batch_queue[j].phase[w] = "done"

launched(w) == {i \in DOMAIN batch_queue : batch_queue[i].kernel[w] = "launched"}

\* handle_preemptions submits the stores of the batch before, and then waits.
handle_preemptions(w, i) ==
    /\ at(w, i)
    /\ batch_queue[i].phase[w] = "start"
    /\ LET submitted == worker[w].unsubmitted
           behind == Cardinality(launched(w))
       IN worker' = [worker EXCEPT
            ![w].stores = @ \o [k \in DOMAIN submitted |-> [submitted[k] EXCEPT !.behind = behind]],
            ![w].unsubmitted = <<>>]
    /\ batch_queue' = [batch_queue EXCEPT ![i].phase[w] = "wait"]
    /\ UNCHANGED <<config, kvVars, schedVars, step, connVars, gpu, cpu, out, recv_count, resets, pc>>

in_progress(w) ==
    LET transfers == worker[w].stores \o worker[w].loads
    IN {transfers[k].id : k \in {k \in DOMAIN transfers : ~transfers[k].done}}

\* Once the jobs to flush are done the loads are started and the model is
\* launched.
execute_model(w, i) ==
    /\ at(w, i)
    /\ batch_queue[i].phase[w] = "wait"
    /\ batch_queue[i].flush \cap in_progress(w) = {}
    /\ worker' = [worker EXCEPT ![w].loads = @ \o batch_queue[i].loads]
    /\ batch_queue' = [batch_queue EXCEPT
                         ![i].phase[w] = "finish",
                         ![i].kernel[w] = IF @ = "waiting" THEN "launched" ELSE @]
    /\ UNCHANGED <<config, kvVars, schedVars, step, connVars, gpu, cpu, out, recv_count, resets, pc>>

\* The transfers at the front of a queue that are done.
finished_transfers(q) ==
    SubSeq(q, 1, CHOOSE n \in 0 .. Len(q) :
                    /\ \A k \in 1 .. n : q[k].done
                    /\ n < Len(q) => ~q[n + 1].done)

rest_of(q) == SubSeq(q, Len(finished_transfers(q)) + 1, Len(q))

\* prepare_store_kv and get_finished.
get_finished(w, i) ==
    /\ at(w, i)
    /\ batch_queue[i].phase[w] = "finish"
    /\ LET stored == finished_transfers(worker[w].stores)
           loaded == finished_transfers(worker[w].loads)
       IN /\ batch_queue' = [batch_queue EXCEPT
                 ![i].phase[w] = "done",
                 ![i].completed[w] = {t.id : t \in KV!Elements(stored \o loaded)},
                 ![i].recving[w] = {t.req : t \in KV!Elements(loaded)}]
          /\ worker' = [worker EXCEPT
                 ![w] = [unsubmitted |-> @.unsubmitted \o batch_queue[i].stores,
                         stores |-> rest_of(@.stores), loads |-> rest_of(@.loads)]]
    /\ UNCHANGED <<config, kvVars, schedVars, step, connVars, gpu, cpu, out, recv_count, resets, pc>>

\* The device runs the oldest kernel.
running_kernel(w, i) == i \in launched(w) /\ \A j \in launched(w) : i <= j

\* Every layer writes the KV of the tokens of the batch before it attends.
written_kv(w, i) ==
    LET items == batch_queue[i].items
        Writes(b) == {x \in {<<k, p>> : k \in DOMAIN items, p \in 1 .. NumBlocks} :
                        /\ items[x[1]].from < x[2]
                        /\ x[2] <= items[x[1]].from + items[x[1]].num
                        /\ items[x[1]].blocks[x[2]] = b}
    IN [b \in KV!Block |->
          IF Writes(b) = {} THEN gpu[w][b]
          ELSE LET write == CHOOSE x \in Writes(b) : TRUE IN Written(items[write[1]].req, write[2])]

compute(w, i) ==
    /\ running_kernel(w, i)
    /\ gpu' = [gpu EXCEPT ![w] = written_kv(w, i)]
    /\ batch_queue' = [batch_queue EXCEPT ![i].kernel[w] = "executed"]
    /\ worker' = [worker EXCEPT ![w].stores =
                    [k \in DOMAIN @ |-> [@[k] EXCEPT !.behind = IF @ > 0 THEN @ - 1 ELSE 0]]]
    /\ UNCHANGED <<config, kvVars, schedVars, step, connVars, cpu, out, recv_count, resets, pc>>

\* The oldest copy of a direction is carried out.
next_transfer(q) == CHOOSE n \in 1 .. Len(q) : ~q[n].done /\ \A k \in 1 .. n - 1 : q[k].done

some_left(q) == \E n \in DOMAIN q : ~q[n].done

\* The KV that the copies of t put in block x, found in side from of a pair.
copied(t, from, to, source, target) ==
    [x \in DOMAIN target |->
        LET to_x == {k \in DOMAIN t.copies : t.copies[k][to] = x}
        IN IF to_x = {} THEN target[x] ELSE source[t.copies[CHOOSE k \in to_x : TRUE][from]]]

copy_store(w) ==
    LET q == worker[w].stores
        n == next_transfer(q)
    IN /\ some_left(q)
       /\ q[n].behind = 0
       /\ cpu' = [cpu EXCEPT ![w] = copied(q[n], 1, 2, gpu[w], @)]
       /\ worker' = [worker EXCEPT ![w].stores[n].done = TRUE]
       /\ UNCHANGED <<config, kvVars, schedVars, step, connVars, batch_queue, gpu, out, recv_count,
                      resets, pc>>

copy_load(w) ==
    LET q == worker[w].loads
        n == next_transfer(q)
    IN /\ some_left(q)
       /\ gpu' = [gpu EXCEPT ![w] = copied(q[n], 2, 1, cpu[w], @)]
       /\ worker' = [worker EXCEPT ![w].loads[n].done = TRUE]
       /\ UNCHANGED <<config, kvVars, schedVars, step, connVars, batch_queue, cpu, out, recv_count,
                      resets, pc>>

-----------------------------------------------------------------------------
\* update_from_output

drain ==
    /\ pc = "idle"
    /\ ~has_requests
    /\ batch_queue # <<>>
    /\ pc' = "update"
    /\ UNCHANGED <<config, kvVars, schedVars, step, connVars, batch_queue, deviceVars, out, recv_count,
                   resets>>

\* Fault: a load is reported by the first worker that has finished it.
received_anywhere(count) == count > 0

received(count) == count = config.num_workers

\* The outputs of all workers, put together by KVOutputAggregator: a load is
\* reported once every worker has finished it.
update_from_output ==
    /\ pc = "update"
    /\ LET batch == Head(batch_queue)
           Reports(r) == Cardinality({w \in Workers : r \in batch.recving[w]})
           completed == UNION {batch.completed[w] : w \in Workers}
           recving == {r \in Request : received(recv_count[r] + Reports(r))}
       IN /\ \A w \in Workers : batch.phase[w] = "done" /\ batch.kernel[w] = "executed"
          /\ out' = [items |-> batch.items,
                     completed |-> [j \in completed |->
                                      Cardinality({w \in Workers : j \in batch.completed[w]})],
                     recving |-> recving]
          /\ recv_count' = [r \in Request |-> IF r \in recving THEN 0 ELSE recv_count[r] + Reports(r)]
    /\ batch_queue' = Tail(batch_queue)
    /\ pc' = "output"
    /\ UNCHANGED <<config, kvVars, schedVars, step, connVars, deviceVars, resets>>

next_output == [out EXCEPT !.items = Tail(@)]

output_skip ==
    /\ pc = "output"
    /\ out.items # <<>>
    /\ finished(Head(out.items).req)
    /\ out' = next_output
    /\ UNCHANGED <<config, kvVars, schedVars, step, connVars, batch_queue, deviceVars, recv_count, resets,
                   pc>>

stopped(r) == num_tokens(r) = Len(config.text[r])

\* The sampled token is appended, and hashed.
output_append ==
    /\ pc = "output"
    /\ out.items # <<>>
    /\ LET r == Head(out.items).req
       IN /\ ~finished(r)
          /\ KV!update_block_hashes(r, config.text[r][num_tokens(r) + 1])
          /\ num_output_placeholders' = [num_output_placeholders EXCEPT
                                           ![r] = IF config.async_scheduling THEN @ - 1 ELSE @]
    /\ pc' = IF config.async_scheduling THEN "cache" ELSE "stop"
    /\ UNCHANGED <<config, status, num_computed_tokens, preempted_before, queueVars, finished_req_ids,
                   finished_recving, step, connVars, batch_queue, deviceVars, out, recv_count, resets>>

\* AsyncScheduler caches the tokens just confirmed.
output_cache ==
    /\ pc = "cache"
    /\ LET r == Head(out.items).req
           confirmed == num_computed_tokens[r] - num_output_placeholders[r]
       IN IF status[r] = "RUNNING" /\ num_cached_block[r] < confirmed
          THEN KV!cache_blocks(r, confirmed)
          ELSE UNCHANGED kvVars
    /\ pc' = "stop"
    /\ UNCHANGED <<config, schedVars, step, connVars, batch_queue, deviceVars, out, recv_count, resets>>

output_done ==
    /\ pc = "stop"
    /\ LET r == Head(out.items).req
       IN IF stopped(r)
          THEN /\ status' = [status EXCEPT ![r] = "FINISHED"]
               /\ running' = Without(running, r)
               /\ waiting' = Without(waiting, r)
               /\ conn' = request_finished(conn, r)
               /\ KV!free(r)
               /\ finished_req_ids' = finished_req_ids \cup {r}
          ELSE UNCHANGED <<kvVars, status, running, waiting, conn, finished_req_ids>>
    /\ out' = next_output
    /\ pc' = "output"
    /\ UNCHANGED <<config, num_computed_tokens, num_output_placeholders, preempted_before, skipped_waiting,
                   finished_recving, step, manager, batch_queue, deviceVars, recv_count, resets>>

\* update_connector_output for one job; acc holds the connector and manager.
complete_job(acc, j) ==
    LET c == acc.conn
        job == c.jobs[j]
        left == job.pending - out.completed[j]
        r == job.req
        watched == {<<b, j>> : b \in KV!Elements(job.blocks)}
        unwatch == c.pending # {} /\ finished(r)
        forget == c.transfer_jobs[r] = {j} /\ finished(r)
    IN IF j < c.stale_threshold THEN acc
       ELSE IF j \notin DOMAIN c.jobs THEN [acc EXCEPT !.conn.failed = TRUE]
       ELSE IF left > 0 THEN [acc EXCEPT !.conn.jobs[j].pending = left]
       ELSE [manager |-> IF job.is_store THEN complete_store(acc.manager, job.keys)
                         ELSE add_ref(acc.manager, job.keys, -1),
             conn |-> [c EXCEPT
                         !.failed = \/ @ \/ left < 0 \/ r \notin c.req_status
                                    \/ ~job.is_store /\ complete_load_fails(acc.manager, job.keys)
                                    \/ unwatch /\ ~(watched \subseteq c.pending)
                                    \/ j \notin c.transfer_jobs[r],
                         !.being_loaded = IF job.is_store THEN @ ELSE @ \ job.keys,
                         !.pending = IF unwatch THEN @ \ watched ELSE @,
                         !.jobs = [k \in DOMAIN @ \ {j} |-> @[k]],
                         !.transfer_jobs[r] = @ \ {j},
                         !.req_status = IF forget THEN @ \ {r} ELSE @]]

update_connector_output ==
    /\ pc = "output"
    /\ out.items = <<>>
    /\ LET order == SetToSortSeq(DOMAIN out.completed, <)
           done == FoldLeft(complete_job, [conn |-> conn, manager |-> manager], order)
       IN /\ conn' = done.conn
          /\ manager' = done.manager
    /\ pc' = IF out.recving = {} THEN "idle" ELSE "recving"
    /\ out' = [out EXCEPT !.completed = <<>>]
    /\ UNCHANGED <<config, kvVars, schedVars, step, batch_queue, deviceVars, recv_count, resets>>

\* _update_from_kv_xfer_finished: the load of r is done; if r was aborted
\* meanwhile its blocks can be freed now.
finish_recving(r) ==
    /\ pc = "recving"
    /\ r \in out.recving
    /\ IF status[r] = "WAITING_FOR_REMOTE_KVS"
       THEN /\ finished_recving' = finished_recving \cup {r}
            /\ UNCHANGED <<kvVars, status, conn>>
       ELSE /\ KV!free(r)
            /\ status' = [status EXCEPT ![r] = "FINISHED"]
            /\ conn' = [conn EXCEPT !.failed = @ \/ status[r] # "FINISHED_LOADING"]
            /\ UNCHANGED finished_recving
    /\ out' = [out EXCEPT !.recving = @ \ {r}]
    /\ pc' = IF out.recving = {r} THEN "idle" ELSE "recving"
    /\ UNCHANGED <<config, num_computed_tokens, num_output_placeholders, preempted_before, queueVars,
                   finished_req_ids, step, manager, batch_queue, deviceVars, recv_count, resets>>

-----------------------------------------------------------------------------

\* reset_prefix_cache with reset_connector: the prefix cache is reset if nobody
\* uses it, and the connector forgets its jobs, which become stale.  Left out is
\* reset_running_requests, which preempts all requests between two steps.
reset_cache ==
    /\ pc = "idle"
    /\ resets < config.resets
    /\ IF KV!reset_allowed(pool) THEN KV!reset_cache ELSE UNCHANGED kvVars
    /\ step' = [step EXCEPT !.flush = @ \cup DOMAIN conn.jobs]
    /\ manager' = NewManager
    /\ conn' = [conn EXCEPT
                  !.next_stored = [r \in Request |-> IF r \in conn.req_status THEN 0 ELSE @[r]],
                  !.stale_threshold = conn.job_counter,
                  !.jobs = <<>>,
                  !.pending = {},
                  !.being_loaded = {},
                  !.failed = @ \/ step.flush # {},
                  !.reset_in_flight = @ \/ conn.jobs # <<>>]
    /\ resets' = resets + 1
    /\ UNCHANGED <<config, schedVars, batch_queue, deviceVars, out, recv_count, pc>>

Engine ==
    \/ schedule \/ running_done \/ running_skip \/ running_allocate \/ running_preempt
    \/ waiting_done \/ waiting_skip \/ waiting_promote \/ waiting_no_room \/ waiting_run \/ waiting_load
    \/ build_connector_meta \/ build_store_job \/ finish_schedule
    \/ drain \/ update_from_output \/ output_skip \/ output_append \/ output_cache \/ output_done
    \/ update_connector_output
    \/ \E r \in Request : finish_recving(r)

WorkerStep(w) ==
    \E i \in 1 .. batch_queue_size :
        handle_preemptions(w, i) \/ execute_model(w, i) \/ get_finished(w, i)

Kernel(w) == \E i \in 1 .. batch_queue_size : compute(w, i)

Next ==
    \/ Engine
    \/ \E r \in Request : add_request(r)
    \/ \E r \in Request : finish_requests(r)
    \/ reset_cache
    \/ \E w \in Workers : WorkerStep(w) \/ Kernel(w) \/ copy_store(w) \/ copy_load(w)

Spec == Init /\ [][Next]_vars

\* Engine and workers keep running, and so does everything on the devices.
\* This is assumed for the configurations whose liveness is examined.
fair == config \in FairConfigs

Fairness ==
    /\ WF_vars(fair /\ Engine)
    /\ \A w \in 1 .. MaxWorkers :
          /\ WF_vars(fair /\ w \in Workers /\ WorkerStep(w))
          /\ WF_vars(fair /\ w \in Workers /\ Kernel(w))
          /\ WF_vars(fair /\ w \in Workers /\ copy_store(w))
          /\ WF_vars(fair /\ w \in Workers /\ copy_load(w))

FairSpec == Spec /\ Fairness
-----------------------------------------------------------------------------

TypeOK ==
    /\ config \in Configs
    /\ KV!TypeOK
    /\ status \in [Request -> Status]
    /\ conn.req_status \subseteq Request
    /\ \A i \in DOMAIN manager.blocks : manager.blocks[i].id \in CpuBlock
    /\ Len(batch_queue) <= batch_queue_size
    /\ pc \in {"idle", "running", "waiting", "meta", "store", "update", "output", "cache", "stop",
               "recving"}

\* The connector has not been reset with jobs in flight.  Such a reset forgets
\* the jobs but leaves their ids in transfer_jobs, where they are met later as
\* unknown jobs.
ResetWasQuiet == ~conn.reset_in_flight

\* A load is not ordered after the kernels launched before it.  With
\* asynchronous scheduling a request can stop or be aborted while a batch that
\* it is part of has yet to run, and its blocks become the target of a load.
StopsAreOrdered == config.async_scheduling => config.eos = {} /\ config.aborts = {}

\* Unless it is reset with jobs in flight, the connector accounts for every job.
\* The jobs of a request are one load or some stores, as RequestOffloadState
\* says; a host block is being written by one store, or read by as many loads
\* as it has references; and no assertion or lookup of the connector, the
\* manager or the scheduler fails when jobs end, whatever order they end in and
\* whatever was preempted, aborted or finished meanwhile.
JobsAccounted ==
    /\ TypeOK
    /\ ResetWasQuiet =>
          /\ ~conn.failed
          /\ ~error
          /\ \A r \in conn.req_status :
                /\ conn.transfer_jobs[r] = {j \in DOMAIN conn.jobs : conn.jobs[j].req = r}
                /\ only_stores(conn, r) \/ Cardinality(conn.transfer_jobs[r]) = 1
    /\ \A i \in DOMAIN manager.blocks :
          LET b == manager.blocks[i]
              Jobs(is_store) == {j \in DOMAIN conn.jobs :
                                   conn.jobs[j].is_store = is_store /\ b.key \in conn.jobs[j].keys}
          IN IF b.ref_cnt = -1 THEN Cardinality(Jobs(TRUE)) = 1 /\ Jobs(FALSE) = {}
             ELSE Jobs(TRUE) = {} /\ b.ref_cnt = Cardinality(Jobs(FALSE))

\* A host block that a lookup can hit holds the KV of its key on every worker:
\* no store has read a block of the device before its KV was computed, or after
\* it was given to another request.
StoredKVIsRight ==
    StopsAreOrdered =>
        \A i \in DOMAIN manager.blocks, w \in Workers :
            LET b == manager.blocks[i]
            IN b.ref_cnt >= 0 => cpu[w][b.id] = b.key

\* When a batch runs on a worker, every request of it that still wants its
\* output attends to the KV of its own tokens, be it cached, loaded from the
\* host, or computed by the same batch.
AttendsToOwnKV ==
    StopsAreOrdered =>
        \A i \in DOMAIN batch_queue, w \in Workers :
            running_kernel(w, i) =>
                \A item \in KV!Elements(batch_queue[i].items) :
                    ~finished(item.req) =>
                        \A p \in 1 .. item.from + item.num :
                            written_kv(w, i)[item.blocks[p]] = Written(item.req, p)

\* Every request finishes, with its blocks freed, and the connector forgets it
\* although nothing may be left to schedule when its last store ends.
EveryRequestIsForgotten ==
    \A r \in Request :
        (fair /\ status[r] # "UNKNOWN")
                              ~> \/ status[r] = "FINISHED" /\ r \notin conn.req_status
                                 \/ ~ResetWasQuiet
=============================================================================
