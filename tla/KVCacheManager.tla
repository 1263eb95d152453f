--------------------------- MODULE KVCacheManager ---------------------------
(***************************************************************************)
(* The block tables of the requests on top of the block pool, for models   *)
(* with full attention: which blocks every request holds, how many of them *)
(* are in the prefix cache, and the operations the scheduler calls.  The   *)
(* caller is any scheduler that respects what the methods assert of their  *)
(* arguments.                                                              *)
(*                                                                         *)
(* error becomes TRUE when an exception or a failed assertion of the code  *)
(* would stop the engine in the middle of an operation.                    *)
(***************************************************************************)
EXTENDS BlockPool

CONSTANTS
    Request,
    BlockSize,
    MaxBlocks,        \* bound on the blocks of a request
    KVLoadFailures    \* whether blocks may be evicted from the cache on demand

ASSUME KVCacheAssumption ==
    /\ IsFiniteSet(Request)
    /\ BlockSize \in Nat \ {0}
    /\ MaxBlocks \in Nat
    /\ KVLoadFailures \in BOOLEAN

VARIABLES
    pool,
    req_to_blocks,
    num_cached_block,
    block_hashes,     \* Request.block_hashes
    error

kvVars == <<pool, req_to_blocks, num_cached_block, block_hashes, error>>

Untracked == -1       \* the request is not a key of num_cached_block

cdiv(a, b) == (a + b - 1) \div b

Min(a, b) == IF a <= b THEN a ELSE b
Max(a, b) == IF a >= b THEN a ELSE b

-----------------------------------------------------------------------------

Init ==
    /\ pool = EmptyPool
    /\ req_to_blocks = [r \in Request |-> <<>>]
    /\ num_cached_block = [r \in Request |-> Untracked]
    /\ block_hashes = [r \in Request |-> <<>>]
    /\ error = FALSE

\* The tokens appended to a request complete one more block.
update_block_hashes(r, content) ==
    LET hashes == block_hashes[r]
        parent == IF hashes = <<>> THEN NoHash ELSE hashes[Len(hashes)]
    IN /\ Len(hashes) < MaxBlocks
       /\ block_hashes' = [block_hashes EXCEPT ![r] = Append(hashes, Append(parent, content))]
       /\ UNCHANGED <<pool, req_to_blocks, num_cached_block, error>>

\* A request that is new, or starts over, arrives with another prompt.
new_request(r) ==
    /\ req_to_blocks[r] = <<>>
    /\ num_cached_block[r] = Untracked
    /\ block_hashes' = [block_hashes EXCEPT ![r] = <<>>]
    /\ UNCHANGED <<pool, req_to_blocks, num_cached_block, error>>

\* FullAttentionManager.find_longest_cache_hit: the blocks of the longest
\* cached prefix of the hashes, at most max_num_blocks of them.
find_longest_cache_hit(hashes, max_num_blocks) ==
    {blocks \in UNION {[1 .. n -> Block] : n \in 0 .. max_num_blocks} :
       /\ \A i \in DOMAIN blocks : blocks[i] \in get_cached_block(pool, hashes[i])
       /\ Len(blocks) < max_num_blocks =>
            get_cached_block(pool, hashes[Len(blocks) + 1]) = {}}

get_num_evictable_blocks(blocks) ==
    Cardinality({b \in Elements(blocks) : pool.ref_cnt[b] = 0 /\ b # NullBlock})

num_new_blocks(r, computed, num_tokens) ==
    Max(cdiv(num_tokens, BlockSize) - (Len(req_to_blocks[r]) + Len(computed)), 0)

\* Fault: the hit blocks that are in the free queue are not counted.
num_blocks_without_evictable(r, computed, num_tokens) ==
    num_new_blocks(r, computed, num_tokens)

get_num_blocks_to_allocate(r, computed, num_tokens) ==
    num_new_blocks(r, computed, num_tokens) + get_num_evictable_blocks(computed)

\* An exception in the middle of an operation stops the engine.
Stopped ==
    /\ error' = TRUE
    /\ UNCHANGED <<pool, req_to_blocks, num_cached_block, block_hashes>>

\* cache_blocks of the single-type manager, on the given pool and block list.
cache_blocks_error(p, blocks, num_cached, num_tokens) ==
    \E i \in new_full_blocks(blocks, num_cached, num_tokens \div BlockSize) :
        p.block_hash[blocks[i]] # NoHash

\* allocate_slots when it does not return None: hit blocks are touched, new
\* ones taken from the pool, and the blocks that num_tokens_to_cache tokens
\* fill are put in the prefix cache.  has_computed says that
\* allocate_new_computed_blocks is called; it takes the blocks of externally
\* computed tokens from the pool just before allocate_new_blocks does.
allocate_slots(r, computed, has_computed, num_tokens, num_tokens_to_cache) ==
    LET n == num_new_blocks(r, computed, num_tokens)
        touched == touch(pool, computed)
        allocated == get_new_blocks(touched, n)
        held == req_to_blocks[r] \o computed
        blocks == held \o new_blocks(touched, n)
        tracked == IF has_computed THEN Len(held) ELSE num_cached_block[r]
        num_cached == Max(tracked, 0)
        num_full == num_tokens_to_cache \div BlockSize
        remove_fails == \E b \in Elements(computed) :
                           b # NullBlock /\ pool.ref_cnt[b] = 0 /\ b \notin Elements(pool.free)
        pool_fails == n > get_num_free_blocks(touched)
    IN /\ get_num_blocks_to_allocate(r, computed, num_tokens) <= get_num_free_blocks(pool)
       /\ IF \/ remove_fails
             \/ pool_fails
             \/ cache_blocks_error(allocated, blocks, num_cached, num_tokens_to_cache)
          THEN Stopped
          ELSE /\ pool' = cache_full_blocks(allocated, block_hashes[r], blocks,
                                            num_cached, num_full)
               /\ req_to_blocks' = [req_to_blocks EXCEPT ![r] = blocks]
               /\ num_cached_block' = [num_cached_block EXCEPT
                                         ![r] = IF num_cached < num_full THEN num_full
                                                ELSE tracked]
               /\ UNCHANGED <<block_hashes, error>>

cache_blocks(r, num_tokens) ==
    LET num_cached == Max(num_cached_block[r], 0)
        num_full == num_tokens \div BlockSize
    IN /\ num_cached < num_full
       /\ IF cache_blocks_error(pool, req_to_blocks[r], num_cached, num_tokens)
          THEN Stopped
          ELSE /\ pool' = cache_full_blocks(pool, block_hashes[r], req_to_blocks[r],
                                            num_cached, num_full)
               /\ num_cached_block' = [num_cached_block EXCEPT ![r] = num_full]
               /\ UNCHANGED <<req_to_blocks, block_hashes, error>>

\* Fault: the blocks are freed from the first to the last.
free_in_order(r) ==
    /\ pool' = free_blocks(pool, req_to_blocks[r])
    /\ req_to_blocks' = [req_to_blocks EXCEPT ![r] = <<>>]
    /\ num_cached_block' = [num_cached_block EXCEPT ![r] = Untracked]
    /\ UNCHANGED <<block_hashes, error>>

free(r) ==
    /\ pool' = free_blocks(pool, Reverse(req_to_blocks[r]))
    /\ req_to_blocks' = [req_to_blocks EXCEPT ![r] = <<>>]
    /\ num_cached_block' = [num_cached_block EXCEPT ![r] = Untracked]
    /\ UNCHANGED <<block_hashes, error>>

evict_blocks(blocks) ==
    /\ pool' = maybe_evict(pool, blocks)
    /\ UNCHANGED <<req_to_blocks, num_cached_block, block_hashes, error>>

reset_cache ==
    /\ reset_allowed(pool)
    /\ pool' = reset_prefix_cache(pool)
    /\ UNCHANGED <<req_to_blocks, num_cached_block, block_hashes, error>>

-----------------------------------------------------------------------------
\* The calls.  A request with no computed tokens looks for a cache hit first;
\* one that holds blocks asks for more.  Tokens are cached only up to what the
\* request has hashes for (asserted in cache_full_blocks) and has slots for.

NumTokens == 0 .. MaxBlocks * BlockSize

Cacheable(r, num_tokens) ==
    {n \in NumTokens : n <= num_tokens /\ n \div BlockSize <= Len(block_hashes[r])}

schedule_waiting(r) ==
    /\ req_to_blocks[r] = <<>>
    /\ num_cached_block[r] = Untracked
    /\ \E max \in 0 .. Len(block_hashes[r]) :
       \E computed \in find_longest_cache_hit(block_hashes[r], max) :
       \E has_computed \in {computed # <<>>, TRUE} :   \* TRUE also with external tokens
       \E num_tokens \in NumTokens : \E num_to_cache \in Cacheable(r, num_tokens) :
          /\ num_tokens > Len(computed) * BlockSize
          /\ allocate_slots(r, computed, has_computed, num_tokens, num_to_cache)

schedule_running(r) ==
    /\ req_to_blocks[r] # <<>>
    /\ \E num_tokens \in NumTokens :
       \E num_to_cache \in Cacheable(r, num_tokens) :
          allocate_slots(r, <<>>, FALSE, num_tokens, num_to_cache)

Next ==
    \/ \E r \in Request, c \in Content : update_block_hashes(r, c)
    \/ \E r \in Request : new_request(r)
    \/ \E r \in Request : free(r)
    \/ \E r \in Request : \E n \in Cacheable(r, Len(req_to_blocks[r]) * BlockSize) :
          cache_blocks(r, n)
    \/ reset_cache
    \/ /\ KVLoadFailures
       /\ \E blocks \in SUBSET {b \in Block : pool.block_hash[b] # NoHash} : evict_blocks(blocks)
    \/ \E r \in Request : schedule_running(r)
    \/ \E r \in Request : schedule_waiting(r)

Spec == Init /\ [][Next]_kvVars

-----------------------------------------------------------------------------

\* The tables are sequences of blocks of the pool, and num_cached_block is a
\* number, or absent for a request the manager does not track.
TypeOK ==
    /\ pool \in Pool
    /\ req_to_blocks \in [Request -> Seq(Block)]
    /\ num_cached_block \in [Request -> Nat \cup {Untracked}]
    /\ block_hashes \in [Request -> Seq(Hash)]
    /\ error \in BOOLEAN

Holders(b) == {r \in Request : b \in Elements(req_to_blocks[r])}

\* ref_cnt counts the requests whose block table contains the block, and no
\* table contains a block twice or the null block: freeing every request
\* returns every block, and nothing is returned while it is still in use.
RefCountIsHolders ==
    /\ \A r \in Request :
          Distinct(req_to_blocks[r]) /\ NullBlock \notin Elements(req_to_blocks[r])
    /\ \A b \in Block : pool.ref_cnt[b] = Cardinality(Holders(b))

\* The free queue holds every unreferenced block exactly once, and never the
\* null block: no block is lost, none is handed out twice, none while in use.
FreeQueueIsUnreferenced ==
    /\ Distinct(pool.free)
    /\ Elements(pool.free) = {b \in Block \ {NullBlock} : pool.ref_cnt[b] = 0}

\* The hash kept in a block and the map from hashes to blocks agree, so that
\* _maybe_evict_cached_block always finds the block it evicts and a lookup
\* never returns a block that has been given another content.
CacheMapConsistent ==
    pool.cached = {<<pool.block_hash[b], b>> : b \in {c \in Block : pool.block_hash[c] # NoHash}}

\* A request's cached blocks carry the hash of the request's own prefix (or
\* none, after evict_blocks); its other blocks carry no hash and belong to it
\* alone.  So two requests share a block only where their prefixes agree, and
\* the tokens a request writes never land in a block another request reads.
SharedOnlyWithSamePrefix ==
    \A r \in Request : \A i \in DOMAIN req_to_blocks[r] :
        LET b == req_to_blocks[r][i]
        IN IF i <= num_cached_block[r]
           THEN pool.block_hash[b] \in {NoHash, block_hashes[r][i]}
           ELSE pool.block_hash[b] = NoHash /\ Holders(b) = {r}

\* No exception and no failed assertion inside an operation that passed the
\* free-block check of allocate_slots: the check counts the hit blocks that
\* will leave the free queue when they are touched.
NoError == ~error

\* Fault: any sharing counts as common.
num_shared_prefix_blocks(r) ==
    LET Common(i) == pool.ref_cnt[req_to_blocks[r][i]] > 1
    IN CHOOSE n \in 0 .. Len(req_to_blocks[r]) :
          /\ \A i \in 1 .. n : Common(i)
          /\ n < Len(req_to_blocks[r]) => ~Common(n + 1)

\* FullAttentionManager.get_num_common_prefix_blocks: how many leading blocks
\* of r have a reference from every request that holds blocks.
get_num_common_prefix_blocks(r) ==
    LET tables == Cardinality({s \in Request : req_to_blocks[s] # <<>>})
        Common(i) == pool.ref_cnt[req_to_blocks[r][i]] = tables
    IN CHOOSE n \in 0 .. Len(req_to_blocks[r]) :
          /\ \A i \in 1 .. n : Common(i)
          /\ n < Len(req_to_blocks[r]) => ~Common(n + 1)

\* Counting references is enough for cascade attention: the common blocks it
\* reports are the first blocks of every request, in the same order.
CommonPrefixIsCommon ==
    \A r, s \in Request :
        (req_to_blocks[r] # <<>> /\ req_to_blocks[s] # <<>>) =>
            LET n == get_num_common_prefix_blocks(r)
            IN Len(req_to_blocks[s]) >= n
               /\ SubSeq(req_to_blocks[s], 1, n) = SubSeq(req_to_blocks[r], 1, n)

\* Eviction takes the tail of a chain of cached blocks before its head (free
\* puts the blocks of a request back in reverse order): while a block is
\* cached, so is a block for the prefix before it, which is in use or behind
\* it in the free queue.  Otherwise cached blocks could never be hit again.
\* Blocks evicted on demand after a failed KV load are the exception.
PrefixOutlivesBlock ==
    ~KVLoadFailures =>
        \A c \in {d \in Block : Len(pool.block_hash[d]) > 1} :
            LET h == pool.block_hash[c]
            IN \E p \in Block :
                 /\ pool.block_hash[p] = SubSeq(h, 1, Len(h) - 1)
                 /\ \/ pool.ref_cnt[p] > 0
                    \/ \E i, j \in DOMAIN pool.free :
                          i < j /\ pool.free[i] = c /\ pool.free[j] = p
=============================================================================
