------------------------------ MODULE BlockPool ------------------------------
(***************************************************************************)
(* The pool of KV-cache blocks as pure operations on a pool record         *)
(*                                                                         *)
(*   ref_cnt     how many requests hold each block                         *)
(*   block_hash  the hash a full block is cached under, or NoHash          *)
(*   cached      cached_block_hash_to_block, as pairs <<hash, block>>      *)
(*   free        free_block_queue, a sequence in eviction order            *)
(*                                                                         *)
(* FreeKVCacheBlockQueue shows that the linked list behind free is such a  *)
(* sequence.  A block hash chains the hash of the block before it, so the  *)
(* hash of the i-th block of a request stands for the contents of its      *)
(* first i blocks: it is the sequence of those contents.                   *)
(***************************************************************************)
EXTENDS Integers, FiniteSets, Sequences

CONSTANTS
    NumBlocks,   \* num_gpu_blocks
    Content      \* what the tokens of one full block can be

ASSUME NumBlocksAssumption == NumBlocks \in Nat \ {0}

Block == 0 .. NumBlocks - 1
NullBlock == 0
Hash == Seq(Content)
NoHash == <<>>

Pool == [ref_cnt    : [Block -> Nat],
         block_hash : [Block -> Hash],
         cached     : SUBSET (Hash \X Block),
         free       : Seq(Block)]

-----------------------------------------------------------------------------
\* Sequences

Elements(q) == {q[i] : i \in DOMAIN q}

Distinct(q) == \A i, j \in DOMAIN q : q[i] = q[j] => i = j

\* The members of S among the elements of q, in the order of q.
Keep(q, S) ==
    LET kept == {i \in DOMAIN q : q[i] \in S}
        Rank(i) == Cardinality({j \in kept : j <= i})
    IN [k \in 1 .. Cardinality(kept) |-> q[CHOOSE i \in kept : Rank(i) = k]]

Reverse(q) == [i \in DOMAIN q |-> q[Len(q) + 1 - i]]

-----------------------------------------------------------------------------

EmptyPool ==
    [ref_cnt    |-> [b \in Block |-> 0],
     block_hash |-> [b \in Block |-> NoHash],
     cached     |-> {},
     free       |-> [i \in 1 .. NumBlocks - 1 |-> i]]

get_num_free_blocks(pool) == Len(pool.free)

\* get_cached_block: any block cached under the hash.
get_cached_block(pool, hash) == {b \in Block : <<hash, b>> \in pool.cached}

\* Fault: the block keeps its hash when it leaves the map.
maybe_evict_keeps_hash(pool, blocks) ==
    [pool EXCEPT !.cached = {e \in @ : e[2] \notin blocks}]

\* _maybe_evict_cached_block for every block of a set: a block leaves the
\* cache, and loses its hash, only if the map holds it under that hash.
maybe_evict(pool, blocks) ==
    LET evicted == {b \in blocks : /\ pool.block_hash[b] # NoHash
                                   /\ <<pool.block_hash[b], b>> \in pool.cached}
    IN [pool EXCEPT
          !.block_hash = [b \in Block |-> IF b \in evicted THEN NoHash
                                          ELSE pool.block_hash[b]],
          !.cached = @ \ {<<pool.block_hash[b], b>> : b \in evicted}]

\* The blocks get_new_blocks(n) hands out.
new_blocks(pool, n) == SubSeq(pool.free, 1, n)

get_new_blocks(pool, n) ==
    LET taken == Elements(new_blocks(pool, n))
    IN [maybe_evict(pool, taken) EXCEPT
          !.ref_cnt = [b \in Block |-> IF b \in taken THEN pool.ref_cnt[b] + 1
                                       ELSE pool.ref_cnt[b]],
          !.free = SubSeq(@, n + 1, Len(@))]

\* Fault: a block hit while in use does not get another reference.
touch_counts_once(pool, blocks) ==
    [pool EXCEPT
       !.ref_cnt = [b \in Block |-> IF b \in Elements(blocks) THEN 1 ELSE pool.ref_cnt[b]],
       !.free = Keep(@, Block \ {b \in Elements(blocks) : b # NullBlock /\ pool.ref_cnt[b] = 0})]

\* Fault: a block hit while unreferenced stays in the free queue.
touch_leaves_free(pool, blocks) ==
    [pool EXCEPT
       !.ref_cnt = [b \in Block |-> IF b \in Elements(blocks) THEN pool.ref_cnt[b] + 1
                                    ELSE pool.ref_cnt[b]]]

touch(pool, blocks) ==
    [pool EXCEPT
       !.ref_cnt = [b \in Block |-> IF b \in Elements(blocks) THEN pool.ref_cnt[b] + 1
                                    ELSE pool.ref_cnt[b]],
       !.free = Keep(@, Block \ {b \in Elements(blocks) : b # NullBlock /\ pool.ref_cnt[b] = 0})]

free_blocks(pool, blocks) ==
    LET ref_cnt == [b \in Block |-> IF b \in Elements(blocks) THEN pool.ref_cnt[b] - 1
                                    ELSE pool.ref_cnt[b]]
        freed == Keep(blocks, {b \in Block \ {NullBlock} : ref_cnt[b] = 0})
    IN [pool EXCEPT !.ref_cnt = ref_cnt, !.free = @ \o freed]

\* The positions of blocks that cache_full_blocks visits: Python's slice
\* blocks[num_cached_blocks:num_full_blocks] stops at the end of the list.
new_full_blocks(blocks, num_cached, num_full) ==
    {i \in DOMAIN blocks : num_cached < i /\ i <= num_full /\ blocks[i] # NullBlock}

\* Fault: the hashes are not sliced along with the blocks.
cache_full_blocks_unsliced(pool, hashes, blocks, num_cached, num_full) ==
    LET new == new_full_blocks(blocks, num_cached, num_full)
        At(b) == CHOOSE i \in new : blocks[i] = b
    IN [pool EXCEPT
          !.block_hash = [b \in Block |-> IF \E i \in new : blocks[i] = b
                                          THEN hashes[At(b) - num_cached]
                                          ELSE pool.block_hash[b]],
          !.cached = @ \cup {<<hashes[i - num_cached], blocks[i]>> : i \in new}]

cache_full_blocks(pool, hashes, blocks, num_cached, num_full) ==
    LET new == new_full_blocks(blocks, num_cached, num_full)
        At(b) == CHOOSE i \in new : blocks[i] = b
    IN [pool EXCEPT
          !.block_hash = [b \in Block |-> IF \E i \in new : blocks[i] = b
                                          THEN hashes[At(b)] ELSE pool.block_hash[b]],
          !.cached = @ \cup {<<hashes[i], blocks[i]>> : i \in new}]

\* reset_prefix_cache succeeds only when the null block alone is in use.
reset_allowed(pool) == NumBlocks - get_num_free_blocks(pool) = 1

reset_prefix_cache(pool) ==
    [pool EXCEPT !.block_hash = [b \in Block |-> NoHash], !.cached = {}]
=============================================================================
