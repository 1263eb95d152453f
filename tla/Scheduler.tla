------------------------------ MODULE Scheduler ------------------------------
(***************************************************************************)
(* The scheduler of the engine core and the loop that drives it: waiting   *)
(* and running queues, chunked prefill, preemption, prefix-cache hits,     *)
(* speculative and asynchronous scheduling, the queue of batches in        *)
(* flight, and the tokens that come back.  The KV cache is the one of      *)
(* KVCacheManager, whose operations are called here.                       *)
(*                                                                         *)
(* schedule() and update_from_output() run without interruption; they are  *)
(* split into the steps of their loops, and pc says which one is next.     *)
(* The engine takes new requests, aborts and resets only at pc = "idle"    *)
(* (aborts also before the outputs of a batch are processed).              *)
(*                                                                         *)
(* kv is a history variable: for every slot of every block the token       *)
(* prefix whose KV the model has written there.  Batches run on the device *)
(* in the order in which they are scheduled, so a batch writes at the end  *)
(* of the schedule() that makes it.                                        *)
(***************************************************************************)
EXTENDS Integers, FiniteSets, Sequences, SequencesExt

CONSTANTS
    Request,
    Priority,                \* Request -> priority, smaller is more urgent
    Token,
    Sampled,                 \* the tokens the model samples
    Eos,
    MaxModelLen,
    NumBlocks,
    BlockSize,
    Configs,                 \* the configurations and workloads, one of which is run
    FairConfigs              \* those whose liveness is examined

SchedulerConfig ==
    [requests : SUBSET Request,                    \* the requests that clients send
     prompt : [Request -> Seq(Token \ {Eos})],
     structured : SUBSET Request,                  \* those that wait for a grammar
     max_tokens : Nat,
     max_num_scheduled_tokens : Nat,
     max_num_running_reqs : Nat,
     long_prefill_token_threshold : Nat,           \* 0: none
     enable_chunked_prefill : BOOLEAN,
     watermark_blocks : Nat,
     scheduler_reserve_full_isl : BOOLEAN,
     num_spec_tokens : Nat,                        \* drafts per step, also num_lookahead_tokens
     async_scheduling : BOOLEAN,
     batch_queue_size : Nat \ {0},                 \* 1: EngineCore.step, otherwise step_with_batch_queue
     priority_policy : BOOLEAN,                    \* TRUE: PRIORITY, FALSE: FCFS
     resets : Nat]                                 \* bound on forced resets of the prefix cache

ASSUME SchedulerAssumption ==
    /\ Sampled \subseteq Token
    /\ Priority \in [Request -> Nat]
    \* One request of the maximal length fits in the cache.
    /\ NumBlocks - 1 >= (MaxModelLen + BlockSize - 1) \div BlockSize
    \* Stands for the arrival time, which breaks ties between priorities.
    /\ \A r, s \in Request : Priority[r] = Priority[s] => r = s
    /\ \A c \in Configs :
          /\ c \in SchedulerConfig
          /\ c.async_scheduling => c.batch_queue_size = 2      \* without pipeline parallelism
          /\ c.num_spec_tokens > 0 => c.async_scheduling \/ c.batch_queue_size = 1
          /\ \A r \in c.requests : c.prompt[r] # <<>> /\ Len(c.prompt[r]) < MaxModelLen
          /\ ~c.enable_chunked_prefill => c.max_num_scheduled_tokens >= MaxModelLen

VARIABLES
    config,                     \* never changes
    pool, req_to_blocks, num_cached_block, block_hashes, error,
    status,
    tokens,                     \* _all_token_ids
    num_computed_tokens,
    num_output_placeholders,
    spec_token_ids,             \* how many draft tokens are attached
    async_tokens_to_discard,
    running,
    waiting,
    skipped_waiting,
    grammar_ready,
    finished_req_ids,
    step,                       \* the local variables of schedule()
    batch_queue,
    out,                        \* what is left of the outputs being processed
    resets,
    pc,
    kv

kvVars == <<pool, req_to_blocks, num_cached_block, block_hashes, error>>
reqVars == <<status, tokens, num_computed_tokens, num_output_placeholders, spec_token_ids,
             async_tokens_to_discard>>
queueVars == <<running, waiting, skipped_waiting>>
vars == <<config, kvVars, reqVars, queueVars, grammar_ready, finished_req_ids, step, batch_queue, out,
          resets, pc, kv>>

Content == [1 .. BlockSize -> Token]

KV == INSTANCE KVCacheManager
        WITH MaxBlocks <- (MaxModelLen + BlockSize - 1) \div BlockSize, KVLoadFailures <- FALSE

Live == {"WAITING", "WAITING_FOR_GRAMMAR", "RUNNING", "PREEMPTED"}
Status == Live \cup {"UNKNOWN", "FINISHED"}

num_tokens(r) == Len(tokens[r])
num_output_tokens(r) == Len(tokens[r]) - Len(config.prompt[r])

None == "none"

Least(a, b) == IF a <= b THEN a ELSE b

-----------------------------------------------------------------------------
\* Batches and queues

\* One request of a batch: how many tokens it computes, how many of them are
\* drafts, what the model samples, and after how many tokens it does so.
Item(r, n, spec) == [req |-> r, num |-> n, spec |-> spec, sampled |-> <<>>, at |-> 0]

\* Every step samples one token after the drafts it accepts.
Rejected(item) == IF item.sampled = <<>> THEN 0 ELSE item.spec + 1 - Len(item.sampled)

\* The outputs of r in flight, oldest first, and those that will be appended.
InFlight(r) ==
    SelectSeq(FlattenSeq(batch_queue), LAMBDA item : item.req = r /\ item.sampled # <<>>)

Pending(r) == SubSeq(InFlight(r), async_tokens_to_discard[r] + 1, Len(InFlight(r)))

Without(q, r) == SelectSeq(q, LAMBDA x : x # r)

Urgent(q) == CHOOSE r \in KV!Elements(q) : \A s \in KV!Elements(q) : Priority[r] <= Priority[s]

\* RequestQueue.peek_request
peek_request(q) == IF config.priority_policy THEN Urgent(q) ELSE Head(q)

-----------------------------------------------------------------------------

NoStep == [index |-> 1, request |-> None, token_budget |-> 0, num_new |-> 0, scheduled |-> <<>>,
           preempted |-> FALSE, skipped |-> <<>>]

Init ==
    /\ config \in Configs
    /\ KV!Init
    /\ status = [r \in Request |-> "UNKNOWN"]
    /\ tokens = config.prompt
    /\ num_computed_tokens = [r \in Request |-> 0]
    /\ num_output_placeholders = [r \in Request |-> 0]
    /\ spec_token_ids = [r \in Request |-> 0]
    /\ async_tokens_to_discard = [r \in Request |-> 0]
    /\ running = <<>> /\ waiting = <<>> /\ skipped_waiting = <<>>
    /\ grammar_ready = {}
    /\ finished_req_ids = {}
    /\ step = NoStep
    /\ batch_queue = <<>>
    /\ out = <<>>
    /\ resets = 0
    /\ pc = "idle"
    /\ kv = [b \in KV!Block |-> [o \in 0 .. BlockSize - 1 |-> <<>>]]

\* The hash of the full block that ends at the n-th token of r is appended.
append_hash(r, seq, n) ==
    KV!update_block_hashes(r, SubSeq(seq, n - BlockSize + 1, n))

\* EngineCore.preprocess_add_request, in the input thread: the prompt is
\* hashed block by block when the Request is made.
preprocess_add_request(r) ==
    LET n == (Len(block_hashes[r]) + 1) * BlockSize
    IN /\ r \in config.requests
       /\ status[r] = "UNKNOWN"
       /\ n <= Len(config.prompt[r])
       /\ append_hash(r, config.prompt[r], n)
       /\ UNCHANGED <<reqVars, queueVars, config, grammar_ready, finished_req_ids, step, batch_queue,
                      out, resets, pc, kv>>

add_request(r) ==
    /\ pc = "idle"
    /\ r \in config.requests
    /\ status[r] = "UNKNOWN"
    /\ Len(block_hashes[r]) = Len(config.prompt[r]) \div BlockSize
    /\ IF r \in config.structured
       THEN /\ status' = [status EXCEPT ![r] = "WAITING_FOR_GRAMMAR"]
            /\ skipped_waiting' = Append(skipped_waiting, r)
            /\ UNCHANGED waiting
       ELSE /\ status' = [status EXCEPT ![r] = "WAITING"]
            /\ waiting' = Append(waiting, r)
            /\ UNCHANGED skipped_waiting
    /\ UNCHANGED <<kvVars, tokens, num_computed_tokens, num_output_placeholders, spec_token_ids,
                   async_tokens_to_discard, running, config, grammar_ready, finished_req_ids, step,
                   batch_queue, out, resets, pc, kv>>

\* The grammar compiler, a thread pool, finishes the grammar of r.
compile_grammar(r) ==
    /\ status[r] = "WAITING_FOR_GRAMMAR"
    /\ r \notin grammar_ready
    /\ grammar_ready' = grammar_ready \cup {r}
    /\ UNCHANGED <<config, kvVars, reqVars, queueVars, finished_req_ids, step, batch_queue, out, resets,
                   pc, kv>>

\* Fault: an aborted request stays among the skipped ones.
finish_requests_leaves_skipped(r) ==
    /\ pc \in {"idle", "update"}
    /\ status[r] \in Live
    /\ status' = [status EXCEPT ![r] = "FINISHED"]
    /\ running' = Without(running, r)
    /\ waiting' = Without(waiting, r)
    /\ KV!free(r)
    /\ finished_req_ids' = finished_req_ids \cup {r}
    /\ UNCHANGED <<tokens, num_computed_tokens, num_output_placeholders, spec_token_ids,
                   async_tokens_to_discard, skipped_waiting, config, grammar_ready, step, batch_queue,
                   out, resets, pc, kv>>

\* finish_requests for one request, which the client aborts.
finish_requests(r) ==
    /\ pc \in {"idle", "update"}
    /\ status[r] \in Live
    /\ status' = [status EXCEPT ![r] = "FINISHED"]
    /\ IF status[r] = "RUNNING"
       THEN /\ running' = Without(running, r)
            /\ UNCHANGED <<waiting, skipped_waiting>>
       ELSE /\ waiting' = Without(waiting, r)
            /\ skipped_waiting' = Without(skipped_waiting, r)
            /\ UNCHANGED running
    /\ KV!free(r)
    /\ finished_req_ids' = finished_req_ids \cup {r}
    /\ UNCHANGED <<tokens, num_computed_tokens, num_output_placeholders, spec_token_ids,
                   async_tokens_to_discard, config, grammar_ready, step, batch_queue, out, resets, pc, kv>>

-----------------------------------------------------------------------------
\* schedule()

has_unfinished_requests == running # <<>> \/ waiting # <<>> \/ skipped_waiting # <<>>

has_requests == has_unfinished_requests \/ finished_req_ids # {}

schedule ==
    /\ pc = "idle"
    /\ has_requests
    /\ step' = [NoStep EXCEPT !.token_budget = config.max_num_scheduled_tokens]
    /\ pc' = "running"
    /\ UNCHANGED <<kvVars, reqVars, queueVars, config, grammar_ready, finished_req_ids, batch_queue, out,
                   resets, kv>>

\* The request has been scheduled up to its max_tokens already.
last_token_in_flight(r) ==
    /\ num_output_placeholders[r] > 0
    /\ num_computed_tokens[r] + 2 - num_output_placeholders[r]
          >= Len(config.prompt[r]) + config.max_tokens

cap_long_prefill(n) ==
    LET threshold == config.long_prefill_token_threshold
    IN IF 0 < threshold /\ threshold < n THEN threshold ELSE n

num_new_tokens(r) ==
    Least(Least(cap_long_prefill(num_tokens(r) + spec_token_ids[r] + num_output_placeholders[r]
                               - num_computed_tokens[r]),
            step.token_budget),
        MaxModelLen - num_computed_tokens[r] - 1)

\* One iteration of the loop over the running requests.
running_done ==
    /\ pc = "running"
    /\ \/ step.index > Len(running)
       \/ step.token_budget <= 0
    /\ pc' = IF step.preempted THEN "finish" ELSE "waiting"
    /\ UNCHANGED <<kvVars, reqVars, queueVars, config, grammar_ready, finished_req_ids, step, batch_queue,
                   out, resets, kv>>

running_next ==
    /\ pc = "running"
    /\ step.index <= Len(running)
    /\ step.token_budget > 0
    /\ LET r == running[step.index]
       IN IF last_token_in_flight(r) \/ num_new_tokens(r) = 0
          THEN /\ step' = [step EXCEPT !.index = @ + 1]
               /\ UNCHANGED pc
          ELSE /\ step' = [step EXCEPT !.request = r, !.num_new = num_new_tokens(r)]
               /\ pc' = "allocate"
    /\ UNCHANGED <<kvVars, reqVars, queueVars, config, grammar_ready, finished_req_ids, batch_queue, out,
                   resets, kv>>

\* The arguments of allocate_slots for n tokens after the computed ones.
num_tokens_need_slot(computed, n) == Least(Least(computed, MaxModelLen) + n + config.num_spec_tokens, MaxModelLen)
num_tokens_to_cache(r, computed, n) == Least(Least(computed, MaxModelLen) + n, num_tokens(r))

running_fits(r) ==
    KV!get_num_blocks_to_allocate(r, <<>>, num_tokens_need_slot(num_computed_tokens[r], step.num_new))
        <= KV!get_num_free_blocks(pool)

num_scheduled_spec_tokens(r) ==
    LET drafts == step.num_new + num_computed_tokens[r] - num_tokens(r) - num_output_placeholders[r]
    IN IF drafts > 0 THEN Least(spec_token_ids[r], drafts) ELSE 0

\* The request gets its slots and is scheduled, with the drafts that fit.
running_allocate ==
    /\ pc = "allocate"
    /\ LET r == step.request
           computed == num_computed_tokens[r]
       IN /\ running_fits(r)
          /\ KV!allocate_slots(r, <<>>, FALSE, num_tokens_need_slot(computed, step.num_new),
                               num_tokens_to_cache(r, computed, step.num_new))
          /\ step' = [step EXCEPT !.index = @ + 1, !.request = None, !.num_new = 0,
                                  !.token_budget = @ - step.num_new,
                                  !.scheduled = Append(@, Item(r, step.num_new, num_scheduled_spec_tokens(r)))]
          /\ spec_token_ids' = [spec_token_ids EXCEPT ![r] = 0]
    /\ pc' = "running"
    /\ UNCHANGED <<status, tokens, num_computed_tokens, num_output_placeholders,
                   async_tokens_to_discard, queueVars, config, grammar_ready, finished_req_ids,
                   batch_queue, out, resets, kv>>

\* Fault: the preempted request is not queued again.
preempt_request_lost(r) ==
    /\ KV!free(r)
    /\ status' = [status EXCEPT ![r] = "PREEMPTED"]
    /\ num_computed_tokens' = [num_computed_tokens EXCEPT ![r] = 0]
    /\ spec_token_ids' = [spec_token_ids EXCEPT ![r] = 0]
    /\ running' = Without(running, r)
    /\ UNCHANGED waiting

\* _preempt_request: r, already taken from the running queue, goes back to
\* the front of the waiting queue without its blocks.
preempt_request(r) ==
    /\ KV!free(r)
    /\ status' = [status EXCEPT ![r] = "PREEMPTED"]
    /\ num_computed_tokens' = [num_computed_tokens EXCEPT ![r] = 0]
    /\ spec_token_ids' = [spec_token_ids EXCEPT ![r] = 0]
    /\ running' = Without(running, r)
    /\ waiting' = <<r>> \o waiting

\* The victim is the last running request (FCFS) or the least urgent one.
\* A victim that was scheduled in this step gives its tokens back.
running_preempt ==
    /\ pc = "allocate"
    /\ LET r == step.request
           victim == IF config.priority_policy
                     THEN CHOOSE v \in KV!Elements(running) :
                             \A u \in KV!Elements(running) : Priority[u] <= Priority[v]
                     ELSE running[Len(running)]
           undone == SelectSeq(step.scheduled, LAMBDA item : item.req = victim)
           returned == IF undone = <<>> THEN 0 ELSE undone[1].num
       IN /\ ~running_fits(r)
          /\ preempt_request(victim)
          /\ step' = [step EXCEPT
                        !.preempted = TRUE,
                        !.token_budget = @ + returned,
                        !.scheduled = SelectSeq(@, LAMBDA item : item.req # victim),
                        !.index = IF undone = <<>> THEN @ ELSE @ - 1]
          /\ pc' = IF victim = r THEN "finish" ELSE "allocate"
    /\ UNCHANGED <<tokens, num_output_placeholders, async_tokens_to_discard, skipped_waiting,
                   config, grammar_ready, finished_req_ids, batch_queue, out, resets, kv>>

\* One iteration of the loop over the waiting requests.
no_more_waiting ==
    \/ waiting = <<>> /\ skipped_waiting = <<>>
    \/ step.token_budget <= 0
    \/ Len(running) = config.max_num_running_reqs

\* _select_waiting_queue_for_scheduling: whether it is the skipped one.
select_skipped ==
    \/ waiting = <<>>
    \/ /\ skipped_waiting # <<>>
       /\ config.priority_policy => ~(Priority[Urgent(waiting)] < Priority[Urgent(skipped_waiting)])

next_waiting == peek_request(IF select_skipped THEN skipped_waiting ELSE waiting)

blocked(r) == status[r] = "WAITING_FOR_GRAMMAR" /\ r \notin grammar_ready

waiting_done ==
    /\ pc = "waiting"
    /\ no_more_waiting
    /\ pc' = "finish"
    /\ UNCHANGED <<kvVars, reqVars, queueVars, config, grammar_ready, finished_req_ids, step, batch_queue,
                   out, resets, kv>>

waiting_skip ==
    /\ pc = "waiting"
    /\ ~no_more_waiting
    /\ blocked(next_waiting)
    /\ step' = [step EXCEPT !.skipped = <<next_waiting>> \o @]
    /\ waiting' = Without(waiting, next_waiting)
    /\ skipped_waiting' = Without(skipped_waiting, next_waiting)
    /\ UNCHANGED <<kvVars, reqVars, running, config, grammar_ready, finished_req_ids, batch_queue, out,
                   resets, pc, kv>>

\* Fault: nothing is left to compute when the whole prompt is cached.
cache_hits_whole_prompt(r) == KV!find_longest_cache_hit(block_hashes[r], Len(block_hashes[r]))

\* A request that can be scheduled: it is given the blocks of the longest
\* cached prefix that leaves at least one token to compute.
cache_hits(r) == KV!find_longest_cache_hit(block_hashes[r],
                     Least((num_tokens(r) - 1) \div BlockSize, Len(block_hashes[r])))

waiting_num_new(r, hit) == cap_long_prefill(num_tokens(r) - Len(hit) * BlockSize)

waiting_fits(r, hit, n) ==
    LET watermark == IF running # <<>> THEN config.watermark_blocks ELSE 0
        Fits(num) == KV!get_num_blocks_to_allocate(r, hit, num) + watermark
                        <= KV!get_num_free_blocks(pool)
    IN /\ config.scheduler_reserve_full_isl => Fits(Least(num_tokens(r), MaxModelLen))
       /\ Fits(num_tokens_need_slot(Len(hit) * BlockSize, n))

waiting_schedule ==
    /\ pc = "waiting"
    /\ ~no_more_waiting
    /\ LET r == next_waiting
       IN /\ ~blocked(r)
          /\ \E hit \in cache_hits(r) :
               LET n == Least(waiting_num_new(r, hit), step.token_budget)
                   computed == Len(hit) * BlockSize
                   too_long == ~config.enable_chunked_prefill /\ waiting_num_new(r, hit) > step.token_budget
               IN IF too_long \/ ~waiting_fits(r, hit, n)
                  THEN /\ pc' = "finish"
                       /\ status' = [status EXCEPT ![r] = IF @ = "PREEMPTED" THEN @ ELSE "WAITING"]
                       /\ UNCHANGED <<kvVars, num_computed_tokens, queueVars, step>>
                  ELSE /\ KV!allocate_slots(r, hit, hit # <<>>, num_tokens_need_slot(computed, n),
                                            num_tokens_to_cache(r, computed, n))
                       /\ waiting' = Without(waiting, r)
                       /\ skipped_waiting' = Without(skipped_waiting, r)
                       /\ running' = Append(running, r)
                       /\ status' = [status EXCEPT ![r] = "RUNNING"]
                       /\ num_computed_tokens' = [num_computed_tokens EXCEPT ![r] = computed]
                       /\ step' = [step EXCEPT !.token_budget = @ - n,
                                               !.scheduled = Append(@, Item(r, n, 0))]
                       /\ UNCHANGED pc
    /\ UNCHANGED <<tokens, num_output_placeholders, spec_token_ids, async_tokens_to_discard,
                   config, grammar_ready, finished_req_ids, batch_queue, out, resets, kv>>

\* The tokens of r as the model knows them: with those still in flight.
Concat(q) == FoldLeft(LAMBDA acc, item : acc \o item.sampled, <<>>, q)
known_tokens(r) == tokens[r] \o Concat(Pending(r))

\* Where the model continues: drafts rejected by batches in flight are not
\* yet subtracted from num_computed_tokens.
known_computed(r) ==
    num_computed_tokens[r] - FoldLeft(LAMBDA n, item : n + Rejected(item), 0, Pending(r))

\* The slot of the p-th token of r, counted from 0.
slot(r, p) == <<req_to_blocks[r][p \div BlockSize + 1], p % BlockSize>>

\* What the model writes for an item: the KV of the tokens before position
\* p and at it, or of a rejected draft.
written(item, p) ==
    LET known == known_tokens(item.req) \o item.sampled
    IN IF p < Len(known_tokens(item.req)) + Len(item.sampled) - (IF item.sampled = <<>> THEN 0 ELSE 1)
       THEN SubSeq(known, 1, p + 1) ELSE <<>>

is_prefill_chunk(item) ==
    num_computed_tokens[item.req] + item.num < num_tokens(item.req) + num_output_placeholders[item.req]

\* All outputs the model can sample for an item.
samples(item) ==
    IF is_prefill_chunk(item) THEN {<<>>}
    ELSE UNION {[1 .. n -> Sampled] : n \in 1 .. item.spec + 1}

num_computed_after_schedule(item) == num_computed_tokens[item.req] + item.num

\* The end of schedule(), and execute_model: the request counters advance
\* (_update_after_schedule of Scheduler and AsyncScheduler), and the batch is
\* queued.
finish_schedule ==
    /\ pc = "finish"
    /\ skipped_waiting' = KV!Reverse(step.skipped) \o skipped_waiting
    /\ finished_req_ids' = {}
    /\ step' = NoStep
    /\ UNCHANGED <<kvVars, status, tokens, async_tokens_to_discard, running, waiting,
                   config, grammar_ready, out, resets>>
    /\ LET items == step.scheduled
           Scheduled(r) == \E i \in DOMAIN items : items[i].req = r
           At(r) == items[CHOOSE i \in DOMAIN items : items[i].req = r]
           Decodes(r) == Scheduled(r) /\ ~is_prefill_chunk(At(r))
       IN \E f \in [DOMAIN items -> UNION {samples(items[i]) : i \in DOMAIN items}] :
            /\ \A i \in DOMAIN items : f[i] \in samples(items[i])
            /\ LET batch == [i \in DOMAIN items |-> 
                              [items[i] EXCEPT !.sampled = f[i],
                                               !.at = known_computed(items[i].req) + items[i].num - items[i].spec]]
                   Writes(b, o) == {w \in {<<i, n>> : i \in DOMAIN items, n \in 0 .. MaxModelLen} :
                                      /\ w[2] < items[w[1]].num
                                      /\ slot(items[w[1]].req, known_computed(items[w[1]].req) + w[2])
                                            = <<b, o>>}
               IN /\ batch_queue' = Append(batch_queue, batch)
                  /\ kv' = [b \in KV!Block |-> [o \in 0 .. BlockSize - 1 |->
                              IF Writes(b, o) # {}
                              THEN LET w == CHOOSE w \in Writes(b, o) : TRUE
                                   IN written(batch[w[1]], known_computed(items[w[1]].req) + w[2])
                              ELSE IF pool.ref_cnt[b] = 0 /\ pool.block_hash[b] = KV!NoHash
                              THEN <<>>           \* never read again
                              ELSE kv[b][o]]]
            /\ num_computed_tokens' = [r \in Request |->
                 IF Scheduled(r) THEN num_computed_after_schedule(At(r)) ELSE num_computed_tokens[r]]
            /\ num_output_placeholders' = [r \in Request |->
                 num_output_placeholders[r]
                   + (IF config.async_scheduling /\ Decodes(r) THEN 1 + At(r).spec ELSE 0)]
            /\ spec_token_ids' = [r \in Request |->
                 IF config.async_scheduling /\ Decodes(r) THEN config.num_spec_tokens ELSE spec_token_ids[r]]
            /\ pc' = IF Len(batch_queue') < config.batch_queue_size /\ (items # <<>> \/ has_unfinished_requests')
                     THEN "idle" ELSE "update"

-----------------------------------------------------------------------------
\* The rest of a step: the engine waits for the oldest batch when the queue is
\* full or nothing is left to schedule.

drain ==
    /\ pc = "idle"
    /\ ~has_requests
    /\ batch_queue # <<>>
    /\ pc' = "update"
    /\ UNCHANGED <<kvVars, reqVars, queueVars, config, grammar_ready, finished_req_ids, step, batch_queue,
                   out, resets, kv>>

\* update_from_output
update_from_output ==
    /\ pc = "update"
    /\ out' = Head(batch_queue)
    /\ batch_queue' = Tail(batch_queue)
    /\ pc' = "output"
    /\ UNCHANGED <<kvVars, reqVars, queueVars, config, grammar_ready, finished_req_ids, step, resets, kv>>

\* Fault: rejected drafts still count.
num_rejected_none(item, counter) == 0

\* What is subtracted from num_computed_tokens and num_output_placeholders for
\* the rejected drafts: nothing from a counter that a preemption set to zero.
num_rejected(item, counter) == IF counter > 0 THEN Rejected(item) ELSE 0

\* One iteration of its loop.  Rejected drafts are subtracted first; then an
\* output that the request has been told to discard is dropped.
output_request ==
    /\ pc = "output"
    /\ out # <<>>
    /\ LET item == Head(out)
           r == item.req
       IN IF status[r] \notin Live \/ item.sampled = <<>>
          THEN /\ out' = Tail(out)
               /\ UNCHANGED <<reqVars, pc>>
          ELSE /\ num_computed_tokens' = [num_computed_tokens EXCEPT ![r] = @ - num_rejected(item, @)]
               /\ num_output_placeholders' = [num_output_placeholders EXCEPT ![r] = @ - num_rejected(item, @)]
               /\ IF async_tokens_to_discard[r] > 0
                  THEN /\ async_tokens_to_discard' = [async_tokens_to_discard EXCEPT ![r] = @ - 1]
                       /\ out' = Tail(out)
                       /\ UNCHANGED pc
                  ELSE /\ pc' = "append"
                       /\ UNCHANGED <<async_tokens_to_discard, out>>
               /\ UNCHANGED <<status, tokens, spec_token_ids>>
    /\ UNCHANGED <<kvVars, queueVars, config, grammar_ready, finished_req_ids, step, batch_queue, resets, kv>>

\* check_stop
check_stop(r, token) ==
    \/ token = Eos
    \/ num_tokens(r) + 1 >= MaxModelLen
    \/ num_output_tokens(r) + 1 >= config.max_tokens

\* _update_request_with_output: one token is appended, and hashed when it
\* completes a block; after a stop the others are dropped.
append_output_token ==
    /\ pc = "append"
    /\ LET item == Head(out)
           r == item.req
           token == Head(item.sampled)
           stopped == check_stop(r, token)
           rest == IF stopped THEN <<>> ELSE Tail(item.sampled)
       IN /\ tokens' = [tokens EXCEPT ![r] = Append(@, token)]
          /\ IF (num_tokens(r) + 1) % BlockSize = 0
             THEN append_hash(r, Append(tokens[r], token), num_tokens(r) + 1)
             ELSE UNCHANGED kvVars
          /\ num_output_placeholders' = [num_output_placeholders EXCEPT
                                           ![r] = IF config.async_scheduling THEN @ - 1 ELSE @]
          /\ status' = [status EXCEPT ![r] = IF stopped THEN "FINISHED" ELSE @]
          /\ out' = [out EXCEPT ![1].sampled = rest]
          /\ pc' = IF rest # <<>> THEN "append"
                   ELSE IF config.async_scheduling THEN "cache" ELSE "stop"
    /\ UNCHANGED <<num_computed_tokens, spec_token_ids, async_tokens_to_discard, queueVars,
                   config, grammar_ready, finished_req_ids, step, batch_queue, resets, kv>>

\* AsyncScheduler: the tokens just confirmed are cached, unless the request
\* was preempted meanwhile.
cache_output ==
    /\ pc = "cache"
    /\ LET r == Head(out).req
           confirmed == num_computed_tokens[r] - num_output_placeholders[r]
       IN \/ /\ r \in KV!Elements(running)
             /\ KV!cache_blocks(r, confirmed)
          \/ /\ r \in KV!Elements(running) =>
                  KV!Max(num_cached_block[r], 0) >= confirmed \div BlockSize
             /\ UNCHANGED kvVars
    /\ pc' = "stop"
    /\ UNCHANGED <<reqVars, queueVars, config, grammar_ready, finished_req_ids, step, batch_queue, out,
                   resets, kv>>

\* A stopped request leaves its queue and is freed; for one that goes on,
\* synchronous engines fetch the next drafts (update_draft_token_ids).
output_done ==
    /\ pc = "stop"
    /\ LET r == Head(out).req
       IN IF status[r] = "FINISHED"
          THEN /\ KV!free(r)
               /\ running' = Without(running, r)
               /\ waiting' = IF r \in KV!Elements(running) THEN waiting ELSE Without(waiting, r)
               /\ finished_req_ids' = finished_req_ids \cup {r}
               /\ UNCHANGED spec_token_ids
          ELSE /\ \E k \in IF config.async_scheduling THEN {spec_token_ids[r]} ELSE 0 .. config.num_spec_tokens :
                     spec_token_ids' = [spec_token_ids EXCEPT ![r] = k]
               /\ UNCHANGED <<kvVars, running, waiting, finished_req_ids>>
    /\ out' = Tail(out)
    /\ pc' = "output"
    /\ UNCHANGED <<status, tokens, num_computed_tokens, num_output_placeholders,
                   async_tokens_to_discard, skipped_waiting, config, grammar_ready, step, batch_queue,
                   resets, kv>>

step_done ==
    /\ pc = "output"
    /\ out = <<>>
    /\ pc' = "idle"
    /\ UNCHANGED <<kvVars, reqVars, queueVars, config, grammar_ready, finished_req_ids, step, batch_queue,
                   out, resets, kv>>

-----------------------------------------------------------------------------
\* reset_prefix_cache with reset_running_requests: every running request is
\* preempted, its outputs in flight are to be discarded, and the cache is reset.

reset_prefix_cache ==
    /\ pc = "idle"
    /\ resets < config.resets
    /\ resets' = resets + 1
    /\ pc' = "reset"
    /\ UNCHANGED <<kvVars, reqVars, queueVars, config, grammar_ready, finished_req_ids, step, batch_queue,
                   out, kv>>

\* Fault: the outputs in flight are not discarded.
reset_request_without_discard ==
    /\ pc = "reset"
    /\ running # <<>>
    /\ LET r == running[Len(running)]
       IN /\ preempt_request(r)
          /\ num_output_placeholders' = [num_output_placeholders EXCEPT ![r] = 0]
    /\ UNCHANGED <<tokens, async_tokens_to_discard, skipped_waiting, config, grammar_ready,
                   finished_req_ids, step, batch_queue, out, resets, pc, kv>>

\* Fault: the placeholders of the discarded outputs are kept.
reset_request_keeps_placeholders ==
    /\ pc = "reset"
    /\ running # <<>>
    /\ LET r == running[Len(running)]
       IN /\ preempt_request(r)
          /\ async_tokens_to_discard' = [async_tokens_to_discard EXCEPT
                                           ![r] = num_output_placeholders[r]]
    /\ UNCHANGED <<tokens, num_output_placeholders, skipped_waiting, config, grammar_ready,
                   finished_req_ids, step, batch_queue, out, resets, pc, kv>>

reset_request ==
    /\ pc = "reset"
    /\ running # <<>>
    /\ LET r == running[Len(running)]
       IN /\ preempt_request(r)
          /\ async_tokens_to_discard' = [async_tokens_to_discard EXCEPT
                                           ![r] = num_output_placeholders[r]]
          /\ num_output_placeholders' = [num_output_placeholders EXCEPT ![r] = 0]
    /\ UNCHANGED <<tokens, skipped_waiting, config, grammar_ready, finished_req_ids, step, batch_queue,
                   out, resets, pc, kv>>

reset_cache ==
    /\ pc = "reset"
    /\ running = <<>>
    /\ IF KV!reset_allowed(pool) THEN KV!reset_cache ELSE KV!Stopped
    /\ pc' = "idle"
    /\ UNCHANGED <<reqVars, queueVars, config, grammar_ready, finished_req_ids, step, batch_queue, out,
                   resets, kv>>

-----------------------------------------------------------------------------

Engine ==
    \/ schedule \/ running_done \/ running_next \/ running_allocate \/ running_preempt
    \/ waiting_done \/ waiting_skip \/ waiting_schedule \/ finish_schedule
    \/ drain \/ update_from_output \/ output_request \/ append_output_token \/ cache_output
    \/ output_done \/ step_done
    \/ reset_request \/ reset_cache

Next ==
    \/ Engine
    \/ reset_prefix_cache
    \/ \E r \in Request : preprocess_add_request(r)
    \/ \E r \in Request : add_request(r)
    \/ \E r \in Request : compile_grammar(r)
    \/ \E r \in Request : finish_requests(r)

Spec == Init /\ [][Next]_vars

\* The engine thread keeps running and grammars get compiled.  This is assumed
\* for the configurations whose liveness is examined.
fair == config \in FairConfigs

Fairness ==
    /\ WF_vars(fair /\ Engine)
    /\ \A r \in Request : WF_vars(fair /\ compile_grammar(r))

FairSpec == Spec /\ Fairness

-----------------------------------------------------------------------------

\* Counters of every request stay in range: num_computed_tokens does not pass
\* max_model_len and no number of placeholders or drafts becomes negative.
TypeOK ==
    /\ KV!TypeOK
    /\ status \in [Request -> Status]
    /\ tokens \in [Request -> Seq(Token)]
    /\ num_computed_tokens \in [Request -> 0 .. MaxModelLen]
    /\ num_output_placeholders \in [Request -> Nat]
    /\ spec_token_ids \in [Request -> 0 .. config.num_spec_tokens]
    /\ async_tokens_to_discard \in [Request -> Nat]
    /\ {running, waiting, skipped_waiting} \subseteq Seq(Request)
    /\ pc \in {"idle", "running", "allocate", "waiting", "finish", "update", "output", "append",
               "cache", "stop", "reset"}

BetweenSteps == pc \in {"idle", "update"}

\* Every live request is in exactly one queue, once, the one its status says,
\* and only running requests hold KV blocks: after preemptions, aborts, stops
\* and resets in any order none is lost, duplicated, or leaks its blocks.  No
\* more are running than max_num_running_reqs, and the other assertions of
\* schedule(), step_with_batch_queue and the KV cache manager hold too.
QueuesMatchStatus ==
    /\ TypeOK
    /\ ~error
    /\ pc = "idle" => Len(batch_queue) < config.batch_queue_size
    /\ step.token_budget >= 0
    /\ Len(running) <= config.max_num_running_reqs
    /\ Len(step.scheduled) <= Len(running)
    /\ BetweenSteps =>
          /\ KV!Distinct(running \o waiting \o skipped_waiting)
          /\ KV!Elements(running) = {r \in Request : status[r] = "RUNNING"}
          /\ KV!Elements(waiting \o skipped_waiting)
                = {r \in Request : status[r] \in Live \ {"RUNNING"}}
          /\ \A r \in Request : req_to_blocks[r] # <<>> => status[r] = "RUNNING"

\* The tokens a running request counts as computed have their KV in the
\* request's own blocks, computed from the request's own prefix: a prefix hit,
\* a preemption, an abort in flight, or a reused block never makes the model
\* attend to other tokens.
ComputedKVIsValid ==
    BetweenSteps =>
        \A r \in KV!Elements(running) : \A p \in 0 .. known_computed(r) - 1 :
            kv[slot(r, p)[1]][slot(r, p)[2]] = SubSeq(known_tokens(r), 1, p + 1)

\* So it is under the FCFS policy, where the victim of a preemption is never a
\* request that this step has scheduled (and whose blocks it has cached).
FCFSKeepsKVValid == ~config.priority_policy => ComputedKVIsValid

\* num_output_placeholders counts the tokens of the outputs in flight, which
\* is what the scheduler subtracts to know which tokens are confirmed.
PlaceholdersAreInFlight ==
    (config.async_scheduling /\ BetweenSteps) =>
        \A r \in Request : status[r] \in Live =>
            num_output_placeholders[r]
                = FoldLeft(LAMBDA n, item : n + (IF item.sampled = <<>> THEN 0 ELSE 1 + item.spec),
                           0, Pending(r))

\* Every sampled token is appended right after the tokens it was sampled
\* from: none is appended twice, out of order, to a request that was preempted
\* or reset and scheduled again meanwhile, and none is dropped by mistake.
OutputsContinueRequest ==
    BetweenSteps =>
        \A r \in Request : status[r] \in Live =>
            \A i \in DOMAIN Pending(r) :
                Pending(r)[i].at = num_tokens(r) + Len(Concat(SubSeq(Pending(r), 1, i - 1)))

\* What schedule() reports to the model runner for cascade attention: the first
\* num_common_prefix_blocks blocks are the first blocks of every request that
\* holds any, although get_num_common_prefix_blocks only counts references.
CascadePrefixIsCommon == KV!CommonPrefixIsCommon

\* Preemptions, aborts and finished requests return their blocks so that the
\* tail of a cached prefix is evicted before its head.
EvictionKeepsPrefixes == KV!PrefixOutlivesBlock

\* Every operation of the scheduler on the KV cache is one the cache manager
\* allows its callers, so what is proved of KVCacheManager holds here.
UsesKVCacheManager == KV!Spec

\* Every request that is added finishes, whatever is preempted on the way.
EveryRequestFinishes ==
    \A r \in Request : (fair /\ status[r] \in Live) ~> (status[r] = "FINISHED")
=============================================================================
